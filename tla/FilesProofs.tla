------------------------------ MODULE FilesProofs ---------------------------
(***************************************************************************)
(* Proofs about Files.tla, for all command lines, devices, sizes and       *)
(* signals: what is stored and what is read back is what was passed on,    *)
(* and a reader of the output of any format finds it there.                *)
(***************************************************************************)
EXTENDS Files, SequenceTheorems, FiniteSetTheorems, WellFoundedInduction, TLAPS

-----------------------------------------------------------------------------
(* Numbers *)

\* Of some numbers one is the least.
LEMMA Least ==
    ASSUME NEW I \in SUBSET Nat, I # {}
    PROVE  \E x \in I : \A y \in I : x <= y
<1> DEFINE R == OpToRel(<, Nat)
<1>1. IsWellFoundedOn(R, Nat)
  BY NatLessThanWellFounded
<1> HIDE DEF R
<1>2. PICK x \in I : \A y \in I : ~ (<<y, x>> \in R)
  BY <1>1, WFMin
<1>3. \A y \in Nat : y < x => <<y, x>> \in R
  BY <1>2 DEF R, OpToRel
<1>4. \A y \in I : y \in Nat /\ ~(y < x)
  BY <1>2, <1>3
<1>5. x \in Nat
  OBVIOUS
<1> QED BY <1>2, <1>4, <1>5

\* What holds at the start of some numbers, and from each to the next, holds
\* for all of them: there is no first that it does not hold for.
LEMMA UpTo ==
    ASSUME NEW n \in Nat, NEW I \in SUBSET (0 .. n), 0 \in I,
           \A j \in 1 .. n : j - 1 \in I => j \in I
    PROVE  I = 0 .. n
<1> DEFINE T == (0 .. n) \ I
<1> SUFFICES ASSUME T # {} PROVE FALSE
  OBVIOUS
<1>1. T \in SUBSET Nat
  OBVIOUS
<1>2. PICK m \in T : \A y \in T : m <= y
  BY <1>1, Least
<1>3. m \in 0 .. n /\ m \notin I
  OBVIOUS
<1>4. m \in 1 .. n /\ m - 1 \in 0 .. n /\ ~(m <= m - 1)
  BY <1>3
<1>5. m - 1 \in T
  BY <1>3, <1>4
<1> QED BY <1>2, <1>4, <1>5

\* Multiples of a number are in the order of what they are multiples by.
LEMMA Multiples ==
    ASSUME NEW d \in Nat, NEW x \in Int, NEW y \in Int
    PROVE  /\ x * d \in Int /\ y * d \in Int
           /\ x <= y => x * d <= y * d
           /\ (x + y) * d = x * d + y * d
           /\ (x - y) * d = x * d - y * d
           /\ (x + 1) * d = x * d + d
           /\ (x - 1) * d = x * d - d
           /\ x >= 0 => x * d >= 0
<1>1. /\ x * d \in Int /\ y * d \in Int
      /\ (x + y) * d = x * d + y * d
      /\ (x - y) * d = x * d - y * d
      /\ (x + 1) * d = x * d + d
      /\ (x - 1) * d = x * d - d
  OBVIOUS
<1>2. \A a \in Nat : a * d \in Nat
  OBVIOUS
<1>3. ASSUME x <= y PROVE x * d <= y * d
  <2>1. y - x \in Nat /\ (y - x) * d = y * d - x * d
    BY <1>3
  <2>2. (y - x) * d \in Nat
    BY <1>2, <2>1
  <2> QED BY <1>1, <2>1, <2>2
<1>4. x >= 0 => x * d >= 0
  BY <1>2
<1> QED BY <1>1, <1>3, <1>4

\* Quotient and remainder are what they are made of.
LEMMA Division ==
    ASSUME NEW d \in Nat \ {0}, NEW x \in Nat
    PROVE  /\ x \div d \in Nat /\ x % d \in 0 .. d - 1
           /\ x = (x \div d) * d + (x % d)
           /\ (x \div d) * d \in 0 .. x
<1> DEFINE q == x \div d
           m == x % d
<1>1. q \in Int /\ m \in 0 .. d - 1 /\ x = q * d + m
  OBVIOUS
<1> HIDE DEF q, m
<1>2. q >= 0
  <2>1. q <= -1 => q * d <= (-1) * d
    BY <1>1, Multiples
  <2>2. (-1) * d = -d
    OBVIOUS
  <2>3. q * d \in Int
    BY <1>1
  <2> QED BY <1>1, <2>1, <2>2, <2>3
<1>3. q * d \in Int /\ q * d >= 0
  BY <1>1, <1>2, Multiples
<1> QED BY <1>1, <1>2, <1>3 DEF q, m

\* There is one way to divide.
LEMMA Divided ==
    ASSUME NEW d \in Nat \ {0}, NEW a \in Nat, NEW r \in 0 .. d - 1
    PROVE  (a * d + r) \div d = a /\ (a * d + r) % d = r
<1> DEFINE x == a * d + r
           q == x \div d
           m == x % d
<1>1. x \in Nat /\ a * d \in Nat
  OBVIOUS
<1>2. q \in Nat /\ m \in 0 .. d - 1 /\ x = q * d + m
  BY <1>1, Division
<1>3. x = a * d + r
  OBVIOUS
<1> HIDE DEF q, m, x
<1>4. /\ q * d \in Int
      /\ q + 1 <= a => (q + 1) * d <= a * d
      /\ a + 1 <= q => (a + 1) * d <= q * d
      /\ (q + 1) * d = q * d + d /\ (a + 1) * d = a * d + d
  <2>1. q + 1 \in Int /\ a + 1 \in Int /\ a \in Int /\ q \in Int /\ d \in Nat
    BY <1>2
  <2> QED BY <2>1, Multiples
<1>5. ~(q + 1 <= a) /\ ~(a + 1 <= q)
  BY <1>1, <1>2, <1>3, <1>4
<1>6. q = a
  BY <1>2, <1>5
<1>7. m = r
  BY <1>1, <1>2, <1>3, <1>6
<1> QED BY <1>6, <1>7 DEF q, m, x

\* A multiple more, a quotient more.
LEMMA DividedSum ==
    ASSUME NEW d \in Nat \ {0}, NEW a \in Nat, NEW x \in Nat
    PROVE  /\ a * d \in Nat /\ a * d + x \in Nat
           /\ (a * d + x) \div d = a + x \div d
           /\ (a * d + x) % d = x % d
<1>1. x \div d \in Nat /\ x % d \in 0 .. d - 1 /\ x = (x \div d) * d + (x % d)
  BY Division
<1> DEFINE q == x \div d
           m == x % d
<1>2. (a + q) * d = a * d + q * d /\ a + q \in Nat
  BY <1>1, Multiples
<1> HIDE DEF q, m
<1>3. /\ ((a + q) * d + m) \div d = a + q
      /\ ((a + q) * d + m) % d = m
  BY <1>1, <1>2, Divided DEF q, m
<1>4. (a + q) * d + m = a * d + x
  <2>1. a * d \in Int /\ q * d \in Int /\ m \in Int /\ x = q * d + m
    BY <1>1 DEF q, m
  <2> QED BY <1>2, <2>1
<1> QED BY <1>3, <1>4 DEF q, m

\* Dividing upwards leaves room for all, and no more than is needed.
LEMMA DivUp ==
    ASSUME NEW a \in Nat, NEW d \in Nat \ {0}
    PROVE  /\ ((a + d - 1) \div d) \in Nat
           /\ a <= ((a + d - 1) \div d) * d
           /\ ((a + d - 1) \div d) * d < a + d
           /\ ((a + d - 1) \div d) * d \in Nat
<1> DEFINE x == a + d - 1
           q == x \div d
           m == x % d
<1>1. x \in Nat
  OBVIOUS
<1>2. q \in Nat /\ m \in 0 .. d - 1 /\ x = q * d + m /\ q * d \in 0 .. x
  BY <1>1, Division
<1> HIDE DEF q, m
<1> QED BY <1>2 DEF q

\* The elements of a sequence of blocks.
LEMMA Block ==
    ASSUME NEW d \in Nat, NEW n \in Nat, NEW a \in 1 .. n, NEW b \in 1 .. d
    PROVE  /\ (a - 1) * d + b \in 1 .. n * d
           /\ (a - 1) * d \in Nat /\ a * d \in 0 .. n * d
<1>1. /\ (a - 1) * d \in Int /\ (a - 1) * d >= 0
      /\ a * d <= n * d /\ (a - 1) * d = a * d - d /\ a * d \in Int /\ n * d \in Int
  <2>1. a - 1 \in Int /\ a \in Int /\ n \in Int /\ a <= n /\ a - 1 >= 0
    OBVIOUS
  <2> QED BY <2>1, Multiples
<1> QED BY <1>1

\* Every element of them is one of a block.
LEMMA BlockOf ==
    ASSUME NEW d \in Nat \ {0}, NEW n \in Nat, NEW i \in 1 .. n * d
    PROVE  \E a \in 1 .. n, b \in 1 .. d : i = (a - 1) * d + b
<1> DEFINE q == (i - 1) \div d
           m == (i - 1) % d
<1>1. n * d \in Nat /\ i \in Nat /\ i >= 1 /\ i - 1 \in Nat /\ i <= n * d
  OBVIOUS
<1>2. q \in Nat /\ m \in 0 .. d - 1 /\ i - 1 = q * d + m
  BY <1>1, Division
<1> HIDE DEF q, m
<1>3. q + 1 <= n
  <2>1. n <= q => n * d <= q * d
    BY <1>2, Multiples
  <2>2. q * d \in Int
    BY <1>2
  <2> QED BY <1>1, <1>2, <2>1, <2>2
<1>4. q + 1 \in 1 .. n /\ m + 1 \in 1 .. d /\ (q + 1) - 1 = q
  BY <1>2, <1>3
<1>5. i = ((q + 1) - 1) * d + (m + 1)
  <2>1. q * d \in Int
    BY <1>2
  <2> QED BY <1>1, <1>2, <1>4, <2>1
<1> QED BY <1>4, <1>5

\* And of one only.
LEMMA OneBlock ==
    ASSUME NEW d \in Nat \ {0}, NEW a \in Nat \ {0}, NEW b \in 1 .. d,
           NEW x \in Nat \ {0}, NEW y \in 1 .. d,
           (a - 1) * d + b = (x - 1) * d + y
    PROVE  a = x /\ b = y
<1>1. /\ a - 1 \in Nat /\ b - 1 \in 0 .. d - 1
      /\ x - 1 \in Nat /\ y - 1 \in 0 .. d - 1
  OBVIOUS
<1>2. /\ ((a - 1) * d + (b - 1)) \div d = a - 1
      /\ ((a - 1) * d + (b - 1)) % d = b - 1
      /\ ((x - 1) * d + (y - 1)) \div d = x - 1
      /\ ((x - 1) * d + (y - 1)) % d = y - 1
  BY <1>1, Divided
<1>3. (a - 1) * d \in Int /\ (x - 1) * d \in Int
  BY <1>1
<1>4. (a - 1) * d + (b - 1) = (x - 1) * d + (y - 1)
  BY <1>3
<1>5. a - 1 = x - 1 /\ b - 1 = y - 1
  BY <1>2, <1>4
<1> QED BY <1>5

-----------------------------------------------------------------------------
(* Recursive functions *)

\* Each value is made of the one before.
Goes(f, n, a, h) == f[0] = a /\ \A j \in 1 .. n : f[j] = h[<<f[j - 1], j>>]

\* There are such values, up to any number.
LEMMA Recursion ==
    ASSUME NEW S, NEW a \in S, NEW n \in Nat,
           NEW h \in [S \X Nat -> S]
    PROVE  \E f \in [0 .. n -> S] : Goes(f, n, a, h)
<1> DEFINE Some(m) == \E f \in [0 .. m -> S] : Goes(f, m, a, h)
           T == {m \in Nat : ~Some(m)}
<1> SUFFICES ASSUME T # {} PROVE FALSE
  OBVIOUS
<1>1. PICK m \in T : \A y \in T : m <= y
  BY Least
<1>2. m # 0
  <2>1. [j \in 0 .. 0 |-> a] \in [0 .. 0 -> S]
    OBVIOUS
  <2>2. Goes([j \in 0 .. 0 |-> a], 0, a, h)
    BY DEF Goes
  <2> QED BY <1>1, <2>1, <2>2
<1>3. m - 1 \in Nat /\ m - 1 \notin T
  BY <1>1, <1>2
<1>4. PICK f \in [0 .. m - 1 -> S] : Goes(f, m - 1, a, h)
  BY <1>3
<1> DEFINE x == h[<<f[m - 1], m>>]
           g == [j \in 0 .. m |-> IF j = m THEN x ELSE f[j]]
<1>5. x \in S
  <2>1. f[m - 1] \in S /\ m \in Nat
    BY <1>1, <1>2, <1>3, <1>4
  <2> QED BY <2>1
<1> HIDE DEF x
<1>6. /\ g \in [0 .. m -> S] /\ g[m] = x
      /\ \A j \in 0 .. m - 1 : g[j] = f[j]
  <2>1. m \in Nat \ {0}
    BY <1>1, <1>2
  <2>2. \A j \in 0 .. m : j # m => j \in 0 .. m - 1
    BY <2>1
  <2>3. \A j \in 0 .. m : (IF j = m THEN x ELSE f[j]) \in S
    BY <1>4, <1>5, <2>2
  <2>4. m \in 0 .. m /\ \A j \in 0 .. m - 1 : j \in 0 .. m /\ j # m
    BY <2>1
  <2> QED BY <2>3, <2>4
<1> HIDE DEF g
<1>7. Goes(g, m, a, h)
  <2>1. g[0] = a
    BY <1>1, <1>2, <1>4, <1>6 DEF Goes
  <2>2. ASSUME NEW j \in 1 .. m PROVE g[j] = h[<<g[j - 1], j>>]
    <3>0. j - 1 \in 0 .. m - 1 /\ g[j - 1] = f[j - 1]
      BY <1>1, <1>2, <1>6
    <3>1. CASE j = m
      BY <1>6, <3>0, <3>1 DEF x
    <3>2. CASE j # m
      <4>1. j \in 1 .. m - 1 /\ j \in 0 .. m - 1
        BY <1>1, <3>2
      <4> QED BY <1>4, <1>6, <3>0, <4>1 DEF Goes
    <3> QED BY <3>1, <3>2
  <2> QED BY <2>1, <2>2 DEF Goes
<1> QED BY <1>1, <1>6, <1>7

\* Two functions start the same, and are the same where the step before is.
SameSteps(f, g, n) ==
    f[0] = g[0] /\ \A j \in 1 .. n : f[j - 1] = g[j - 1] => f[j] = g[j]

\* What is the same at the start, and stays the same, is the same.
LEMMA StepByStep ==
    ASSUME NEW n \in Nat, NEW f, NEW g, SameSteps(f, g, n)
    PROVE  \A j \in 0 .. n : f[j] = g[j]
<1> USE DEF SameSteps
<1> DEFINE I == {j \in 0 .. n : f[j] = g[j]}
<1>1. I \in SUBSET (0 .. n) /\ 0 \in I
  OBVIOUS
<1>2. ASSUME NEW j \in 1 .. n, j - 1 \in I PROVE j \in I
  <2>1. j \in 0 .. n
    OBVIOUS
  <2> QED BY <1>2, <2>1
<1> HIDE DEF I
<1>3. I = 0 .. n
  BY <1>1, <1>2, UpTo
<1> QED BY <1>3 DEF I

\* What is kept, element by element.
Keeping(f, s, places) ==
    /\ f[0] = <<>>
    /\ \A j \in 1 .. Len(s) :
          f[j] = IF j \in places THEN Append(f[j - 1], s[j]) ELSE f[j - 1]

\* What is kept is made up element by element.
LEMMA KeptSteps ==
    ASSUME NEW S, NEW s \in Seq(S), NEW places
    PROVE  \E f \in [0 .. Len(s) -> Seq(S)] :
              Keeping(f, s, places) /\ Kept(s, places) = f[Len(s)]
<1> DEFINE n == Len(s)
           Step(t, i) == IF i = 0 THEN <<>>
                         ELSE IF i \in places THEN Append(t[i - 1], s[i])
                         ELSE t[i - 1]
           u == CHOOSE t : t = [i \in 0 .. n |-> Step(t, i)]
<1>0. n \in Nat
  OBVIOUS
<1>1. Kept(s, places) = u[n]
  BY DEF Kept
<1> DEFINE S0 == [p \in Seq(S) \X Nat |->
                     IF p[2] \in places /\ p[2] \in 1 .. n
                     THEN Append(p[1], s[p[2]]) ELSE p[1]]
<1> HIDE DEF u
<1>2. S0 \in [Seq(S) \X Nat -> Seq(S)]
  <2>1. \A p \in Seq(S) \X Nat : p[1] \in Seq(S)
    OBVIOUS
  <2>2. \A p \in Seq(S) \X Nat : p[2] \in 1 .. n => s[p[2]] \in S
    OBVIOUS
  <2>3. \A p \in Seq(S) \X Nat : p[2] \in 1 .. n => Append(p[1], s[p[2]]) \in Seq(S)
    BY <2>1, <2>2
  <2> QED BY <2>1, <2>3
<1>3. \A x \in Seq(S), j \in 1 .. n :
         S0[<<x, j>>] = IF j \in places THEN Append(x, s[j]) ELSE x
  OBVIOUS
<1> HIDE DEF S0
<1>4. PICK f \in [0 .. n -> Seq(S)] : Goes(f, n, <<>>, S0)
  <2>1. <<>> \in Seq(S)
    OBVIOUS
  <2> QED BY <1>0, <1>2, <2>1, Recursion
<1>5. Keeping(f, s, places)
  <2>1. ASSUME NEW j \in 1 .. n
        PROVE  f[j] = IF j \in places THEN Append(f[j - 1], s[j]) ELSE f[j - 1]
    <3>1. f[j - 1] \in Seq(S)
      BY <1>0
    <3> QED BY <1>3, <1>4, <3>1 DEF Goes
  <2> QED BY <1>4, <2>1 DEF Goes, Keeping
<1>6. \A j \in 0 .. n : f[j] = Step(f, j)
  <2> SUFFICES ASSUME NEW j \in 0 .. n PROVE f[j] = Step(f, j)
    OBVIOUS
  <2>1. CASE j = 0
    BY <1>5, <2>1 DEF Keeping
  <2>2. CASE j # 0
    <3>1. j \in 1 .. Len(s)
      BY <1>0, <2>2
    <3>2. f[j] = IF j \in places THEN Append(f[j - 1], s[j]) ELSE f[j - 1]
      BY <1>5, <3>1 DEF Keeping
    <3> QED BY <2>2, <3>2, Zenon
  <2> QED BY <2>1, <2>2
<1>7. f = [j \in 0 .. n |-> Step(f, j)]
  BY SMTT(30), <1>6
<1>8. u = [j \in 0 .. n |-> Step(u, j)]
  BY ZenonT(30), <1>7 DEF u
<1>9. \A j \in 0 .. n : u[j] = f[j]
  <2>1. \A j \in 0 .. n : u[j] = Step(u, j)
    BY <1>8
  <2>2. u[0] = f[0]
    BY <1>0, <1>6, <2>1
  <2>3. ASSUME NEW j \in 1 .. n, u[j - 1] = f[j - 1] PROVE u[j] = f[j]
    <3>1. j \in 0 .. n
      BY <1>0
    <3> QED BY <1>6, <2>1, <2>3, <3>1
  <2> HIDE DEF Step
  <2>4. SameSteps(u, f, n)
    BY <2>2, <2>3 DEF SameSteps
  <2> QED BY ONLY <1>0, <2>4, StepByStep
<1> QED BY <1>0, <1>1, <1>5, <1>9

\* The places P among the first n, and Q among the m behind them, are R.
Joined(P, n, Q, m, R) ==
    /\ \A i \in 1 .. n : i \in P <=> i \in R
    /\ \A i \in 1 .. m : i \in Q <=> n + i \in R

\* What is kept of two sequences goes on from one to the other.
LEMMA KeptConcat ==
    ASSUME NEW S, NEW s \in Seq(S), NEW t \in Seq(S), NEW P, NEW Q, NEW R,
           Joined(P, Len(s), Q, Len(t), R)
    PROVE  Kept(s \o t, R) = Kept(s, P) \o Kept(t, Q)
<1> USE DEF Joined
<1> DEFINE st == s \o t
           n == Len(s)
           m == Len(t)
<1>0. /\ n \in Nat /\ m \in Nat /\ st \in Seq(S) /\ Len(st) = n + m
      /\ \A i \in 1 .. n : st[i] = s[i]
      /\ \A i \in 1 .. m : st[n + i] = t[i]
  BY ConcatProperties
<1> HIDE DEF st
<1>1. PICK f \in [0 .. n + m -> Seq(S)] :
         Keeping(f, st, R) /\ Kept(st, R) = f[n + m]
  <2>1. st \in Seq(S) /\ Len(st) = n + m
    BY <1>0
  <2>2. \E f \in [0 .. Len(st) -> Seq(S)] :
           Keeping(f, st, R) /\ Kept(st, R) = f[Len(st)]
    BY <2>1, KeptSteps
  <2> HIDE DEF n, m
  <2> QED BY <2>1, <2>2, Zenon
<1>2. PICK g \in [0 .. n -> Seq(S)] : Keeping(g, s, P) /\ Kept(s, P) = g[n]
  BY KeptSteps
<1>3. PICK h \in [0 .. m -> Seq(S)] : Keeping(h, t, Q) /\ Kept(t, Q) = h[m]
  BY KeptSteps
<1> HIDE DEF n, m
<1>4. \A j \in 0 .. n : f[j] = g[j]
  <2>1. f[0] = g[0]
    BY <1>1, <1>2 DEF Keeping
  <2>2. ASSUME NEW j \in 1 .. n, f[j - 1] = g[j - 1] PROVE f[j] = g[j]
    <3>1. j \in 1 .. Len(s) /\ j \in 1 .. Len(st)
      BY <1>0 DEF n
    <3> QED BY <1>0, <1>1, <1>2, <2>2, <3>1 DEF Keeping
  <2>3. n \in Nat
    BY <1>0
  <2>4. SameSteps(f, g, n)
    BY <2>1, <2>2 DEF SameSteps
  <2> QED BY ONLY <2>3, <2>4, StepByStep
<1>5. /\ \A j \in 0 .. m : h[j] \in Seq(S) /\ f[n + j] \in Seq(S)
      /\ g[n] \in Seq(S) /\ f[n] = g[n] /\ h[0] = <<>>
  <2>1. n \in 0 .. n /\ \A j \in 0 .. m : n + j \in 0 .. n + m
    BY <1>0
  <2> QED BY <1>3, <1>4, <2>1 DEF Keeping
<1> DEFINE a == [j \in 0 .. m |-> f[n + j]]
           b == [j \in 0 .. m |-> g[n] \o h[j]]
<1>6. a[0] = b[0]
  <2>1. g[n] \o <<>> = g[n]
    BY <1>5
  <2>2. a[0] = f[n] /\ b[0] = g[n] \o h[0]
    BY <1>0
  <2> QED BY <1>5, <2>1, <2>2
<1>7. ASSUME NEW j \in 1 .. m, a[j - 1] = b[j - 1] PROVE a[j] = b[j]
  <2>1. /\ j \in 0 .. m /\ j - 1 \in 0 .. m /\ n + j \in 1 .. n + m
        /\ (n + j) - 1 = n + (j - 1) /\ n \in 0 .. n
    BY <1>0
  <2>2. f[n + (j - 1)] = g[n] \o h[j - 1]
    BY <1>7, <2>1
  <2>3. /\ g[n] \in Seq(S) /\ h[j - 1] \in Seq(S) /\ t[j] \in S
    <3>1. t[j] \in S
      BY DEF m
    <3> QED BY <1>5, <2>1, <3>1
  <2>4. f[n + j] = IF j \in Q THEN Append(f[n + (j - 1)], t[j]) ELSE f[n + (j - 1)]
    <3>1. f[n + j] = IF n + j \in R THEN Append(f[(n + j) - 1], st[n + j])
                     ELSE f[(n + j) - 1]
      BY <1>0, <1>1, <2>1 DEF Keeping
    <3>2. n + j \in R <=> j \in Q
      BY DEF n, m
    <3> QED BY <1>0, <2>1, <3>1, <3>2
  <2>5. h[j] = IF j \in Q THEN Append(h[j - 1], t[j]) ELSE h[j - 1]
    BY <1>3 DEF Keeping, m
  <2>6. Append(g[n] \o h[j - 1], t[j]) = g[n] \o Append(h[j - 1], t[j])
    <3> DEFINE x == g[n]
               y == h[j - 1]
               e == t[j]
    <3>1. x \in Seq(S) /\ y \in Seq(S) /\ e \in S
      BY <2>3
    <3> HIDE DEF x, y, e
    <3>2. <<e>> \in Seq(S) /\ x \o y \in Seq(S)
      BY <3>1
    <3>3. Append(x \o y, e) = (x \o y) \o <<e>> /\ Append(y, e) = y \o <<e>>
      BY ONLY <3>1, <3>2, AppendIsConcat
    <3>4. (x \o y) \o <<e>> = x \o (y \o <<e>>)
      BY ONLY <3>1, <3>2, ConcatAssociative
    <3>5. Append(x \o y, e) = x \o Append(y, e)
      BY ONLY <3>3, <3>4
    <3> QED BY ONLY <3>5 DEF x, y, e
  <2>7. a[j] = f[n + j] /\ b[j] = g[n] \o h[j]
    BY <2>1
  <2> HIDE DEF a, b
  <2> QED BY <2>2, <2>4, <2>5, <2>6, <2>7
<1>8. a[m] = b[m]
  <2> HIDE DEF a, b
  <2>0. m \in Nat
    BY <1>0
  <2>1. \A j \in 0 .. m : a[j] = b[j]
    <3>1. SameSteps(a, b, m)
      BY <1>6, <1>7 DEF SameSteps
    <3> QED BY ONLY <2>0, <3>1, StepByStep
  <2>2. m \in 0 .. m
    BY <2>0
  <2> QED BY <2>1, <2>2, Zenon
<1>9. f[n + m] = g[n] \o h[m]
  BY <1>0, <1>8
<1> QED BY <1>1, <1>2, <1>3, <1>9 DEF st, n, m

\* What is kept is of the same kind.
LEMMA KeptType ==
    ASSUME NEW S, NEW s \in Seq(S), NEW P
    PROVE  Kept(s, P) \in Seq(S)
<1>1. PICK f \in [0 .. Len(s) -> Seq(S)] : Keeping(f, s, P) /\ Kept(s, P) = f[Len(s)]
  BY KeptSteps
<1> QED BY <1>1

\* All are kept, or none.
LEMMA KeptAll ==
    ASSUME NEW S, NEW s \in Seq(S), NEW P, 1 .. Len(s) \subseteq P
    PROVE  Kept(s, P) = s
<1>1. PICK f \in [0 .. Len(s) -> Seq(S)] : Keeping(f, s, P) /\ Kept(s, P) = f[Len(s)]
  BY KeptSteps
<1> DEFINE n == Len(s)
           I == {j \in 0 .. n : f[j] = SubSeq(s, 1, j)}
<1>2. I \in SUBSET (0 .. n) /\ 0 \in I /\ n \in Nat
  BY <1>1 DEF Keeping
<1>3. ASSUME NEW j \in 1 .. n, j - 1 \in I PROVE j \in I
  <2>1. f[j] = Append(SubSeq(s, 1, j - 1), s[j])
    BY <1>1, <1>3 DEF Keeping
  <2>2. Append(SubSeq(s, 1, j - 1), s[j]) = SubSeq(s, 1, j)
    <3>1. j - 1 \in 0 .. n
      OBVIOUS
    <3>2. SubSeq(s, 1, j - 1) \in Seq(S) /\ Len(SubSeq(s, 1, j - 1)) = j - 1
          /\ \A i \in 1 .. j - 1 : SubSeq(s, 1, j - 1)[i] = s[i]
      BY <3>1, SubSeqProperties
    <3>3. SubSeq(s, 1, j) \in Seq(S) /\ Len(SubSeq(s, 1, j)) = j
          /\ \A i \in 1 .. j : SubSeq(s, 1, j)[i] = s[i]
      BY <3>1, SubSeqProperties
    <3> DEFINE a == SubSeq(s, 1, j - 1)
               b == SubSeq(s, 1, j)
               c == Append(a, s[j])
    <3> HIDE DEF a, b
    <3>4. c \in Seq(S) /\ Len(c) = j /\ (\A i \in 1 .. j - 1 : c[i] = a[i]) /\ c[j] = s[j]
      BY <3>2, AppendProperties DEF a
    <3> HIDE DEF c
    <3>5. \A i \in 1 .. j : c[i] = b[i]
      BY <3>2, <3>3, <3>4 DEF a, b
    <3> QED BY <3>3, <3>4, <3>5, SeqEqual DEF a, b, c
  <2>3. j \in 0 .. n
    OBVIOUS
  <2> QED BY <2>1, <2>2, <2>3
<1> HIDE DEF I
<1>4. I = 0 .. n
  BY <1>2, <1>3, UpTo
<1>5. f[n] = SubSeq(s, 1, n)
  BY <1>2, <1>4 DEF I
<1> QED BY <1>1, <1>5

\* At no places, nothing is kept.
LEMMA KeptNone ==
    ASSUME NEW S, NEW s \in Seq(S), NEW P, \A i \in 1 .. Len(s) : i \notin P
    PROVE  Kept(s, P) = <<>>
<1>1. PICK f \in [0 .. Len(s) -> Seq(S)] : Keeping(f, s, P) /\ Kept(s, P) = f[Len(s)]
  BY KeptSteps
<1> DEFINE n == Len(s)
           I == {j \in 0 .. n : f[j] = <<>>}
<1>2. I \in SUBSET (0 .. n) /\ 0 \in I /\ n \in Nat
  BY <1>1 DEF Keeping
<1>3. ASSUME NEW j \in 1 .. n, j - 1 \in I PROVE j \in I
  BY <1>1, <1>3 DEF Keeping
<1> HIDE DEF I
<1>4. I = 0 .. n
  BY <1>2, <1>3, UpTo
<1> QED BY <1>1, <1>2, <1>4 DEF I

\* An element more.
LEMMA KeptAppend ==
    ASSUME NEW S, NEW s \in Seq(S), NEW e \in S, NEW P, NEW R,
           \A i \in 1 .. Len(s) : i \in P <=> i \in R
    PROVE  Kept(Append(s, e), R) =
               IF Len(s) + 1 \in R THEN Append(Kept(s, P), e) ELSE Kept(s, P)
<1> DEFINE t == <<e>>
           Q == {i \in {1} : Len(s) + 1 \in R}
<1>1. t \in Seq(S) /\ Len(t) = 1 /\ t[1] = e
  OBVIOUS
<1>2. Append(s, e) = s \o t
  BY AppendIsConcat
<1>3. Joined(P, Len(s), Q, Len(t), R)
  BY <1>1 DEF Joined
<1>4. 1 .. Len(t) = {1}
  BY <1>1
<1> HIDE DEF t, Q
<1>5. Kept(s \o t, R) = Kept(s, P) \o Kept(t, Q)
  <2>1. s \in Seq(S) /\ t \in Seq(S)
    BY <1>1
  <2> QED BY ONLY <2>1, <1>3, KeptConcat
<1>6. Kept(s, P) \in Seq(S)
  BY KeptType
<1>7. CASE Len(s) + 1 \in R
  <2>1. Kept(t, Q) = t
    <3>1. 1 .. Len(t) \subseteq Q
      BY <1>4, <1>7 DEF Q
    <3> QED BY <1>1, <3>1, KeptAll
  <2>2. Kept(s, P) \o t = Append(Kept(s, P), e)
    BY <1>6, AppendIsConcat DEF t
  <2> QED BY <1>2, <1>5, <1>7, <2>1, <2>2
<1>8. CASE Len(s) + 1 \notin R
  <2>1. Kept(t, Q) = <<>>
    <3>1. \A i \in 1 .. Len(t) : i \notin Q
      BY <1>4, <1>8 DEF Q
    <3> QED BY <1>1, <3>1, KeptNone
  <2>2. Kept(s, P) \o <<>> = Kept(s, P)
    BY <1>6
  <2> QED BY <1>2, <1>5, <1>8, <2>1, <2>2
<1> QED BY <1>7, <1>8

\* The first ones are kept.
LEMMA KeptFirst ==
    ASSUME NEW S, NEW s \in Seq(S), NEW m \in 0 .. Len(s), NEW P,
           \A i \in 1 .. Len(s) : i \in P <=> i <= m
    PROVE  Kept(s, P) = SubSeq(s, 1, m)
<1> DEFINE n == Len(s)
           a == SubSeq(s, 1, m)
           b == SubSeq(s, m + 1, n)
           Q == {i \in 1 .. n - m : FALSE}
<1>1. n \in Nat /\ m \in Nat /\ m <= n
  OBVIOUS
<1>2. /\ a \in Seq(S) /\ Len(a) = m /\ b \in Seq(S) /\ Len(b) = n - m
      /\ s = a \o b
  <2>1. a \in Seq(S) /\ Len(a) = m /\ \A i \in 1 .. m : a[i] = s[i]
    BY <1>1, SubSeqProperties
  <2>2. b \in Seq(S) /\ Len(b) = n - m /\ \A i \in 1 .. n - m : b[i] = s[m + i]
    BY <1>1, SubSeqProperties
  <2> HIDE DEF a, b
  <2>3. /\ a \o b \in Seq(S) /\ Len(a \o b) = n
        /\ \A i \in 1 .. n : (a \o b)[i] = IF i <= m THEN a[i] ELSE b[i - m]
    BY <1>1, <2>1, <2>2, ConcatProperties
  <2>4. \A i \in 1 .. n : (a \o b)[i] = s[i]
    <3> SUFFICES ASSUME NEW i \in 1 .. n PROVE (a \o b)[i] = s[i]
      OBVIOUS
    <3>1. CASE i <= m
      BY <1>1, <2>1, <2>3, <3>1
    <3>2. CASE ~(i <= m)
      <4>1. i - m \in 1 .. n - m /\ m + (i - m) = i
        BY <1>1, <3>2
      <4> QED BY <2>2, <2>3, <3>2, <4>1
    <3> QED BY <3>1, <3>2
  <2> QED BY <2>1, <2>2, <2>3, <2>4, SeqEqual
<1> HIDE DEF a, b
<1>3. Kept(a \o b, P) = Kept(a, P) \o Kept(b, Q)
  <2>1. Joined(P, Len(a), Q, Len(b), P)
    BY <1>1, <1>2 DEF Joined
  <2> HIDE DEF Q
  <2> QED BY <1>2, <2>1, KeptConcat
<1>4. Kept(a, P) = a
  <2>1. 1 .. Len(a) \subseteq P
    BY <1>1, <1>2
  <2> QED BY <1>2, <2>1, KeptAll
<1>5. Kept(b, Q) = <<>>
  <2>1. \A i \in 1 .. Len(b) : i \notin Q
    OBVIOUS
  <2> QED BY <1>2, <2>1, KeptNone
<1>6. a \o <<>> = a
  BY <1>2
<1> QED BY <1>2, <1>3, <1>4, <1>5, <1>6 DEF a

\* The places that are kept, in their order.
Ascending(l) == \A i, j \in 1 .. Len(l) : i < j => l[i] < l[j]
PlacesOf(n, P) == Kept([i \in 1 .. n |-> i], P)

Listed(l, P, n) ==
    /\ \A i \in 1 .. Len(l) : l[i] \in P /\ l[i] <= n
    /\ \A p \in 1 .. n : p \in P => \E i \in 1 .. Len(l) : l[i] = p

\* The places that are kept are in order, each once.
LEMMA PlacesAre ==
    ASSUME NEW n \in Nat, NEW P
    PROVE  LET l == PlacesOf(n, P) IN
           /\ l \in Seq(1 .. n) /\ Ascending(l) /\ Listed(l, P, n)
<1> DEFINE S == 1 .. n
           s == [i \in 1 .. n |-> i]
<1>1. s \in Seq(S) /\ Len(s) = n /\ \A i \in 1 .. n : s[i] = i
  OBVIOUS
<1>0. \A x \in S : x \in Nat
  OBVIOUS
<1> HIDE DEF s, S
<1>2. PICK f \in [0 .. n -> Seq(S)] : Keeping(f, s, P) /\ Kept(s, P) = f[n]
  <2>1. \E f \in [0 .. Len(s) -> Seq(S)] : Keeping(f, s, P) /\ Kept(s, P) = f[Len(s)]
    BY <1>1, KeptSteps
  <2> QED BY <1>1, <2>1, Zenon
<1> DEFINE I == {j \in 0 .. n : Ascending(f[j]) /\ Listed(f[j], P, j)}
<1>3. I \in SUBSET (0 .. n) /\ 0 \in I
  BY <1>2, Len(<<>>) = 0 DEF Keeping, Ascending, Listed
<1>4. ASSUME NEW j \in 1 .. n, j - 1 \in I PROVE j \in I
  <2> DEFINE a == f[j - 1]
             m == Len(a)
  <2>1. /\ a \in Seq(S) /\ m \in Nat
        /\ Ascending(a) /\ Listed(a, P, j - 1)
        /\ f[j] = IF j \in P THEN Append(a, j) ELSE a
    <3>1. j - 1 \in 0 .. n
      OBVIOUS
    <3> QED BY <1>1, <1>2, <1>4, <3>1 DEF Keeping
  <2>0. j \in 0 .. n /\ j \in Nat /\ j \in S
    BY DEF S
  <2> SUFFICES Ascending(f[j]) /\ Listed(f[j], P, j)
    BY <2>0
  <2> HIDE DEF a, I
  <2>2. CASE j \notin P
    <3>1. ASSUME NEW p \in 1 .. j, p \in P PROVE \E i \in 1 .. Len(a) : a[i] = p
      <4>1. p \in 1 .. j - 1
        BY <2>0, <2>2, <3>1
      <4> QED BY <2>1, <3>1, <4>1 DEF Listed
    <3>2. \A i \in 1 .. Len(a) : a[i] \in P /\ a[i] <= j
      <4> SUFFICES ASSUME NEW i \in 1 .. Len(a) PROVE a[i] \in P /\ a[i] <= j
        OBVIOUS
      <4>1. a[i] \in Nat
        BY <1>0, <2>1
      <4> QED BY <2>0, <2>1, <4>1 DEF Listed
    <3>3. Listed(a, P, j)
      BY <3>1, <3>2 DEF Listed
    <3> QED BY <2>1, <2>2, <3>3
  <2>3. CASE j \in P
    <3> DEFINE b == Append(a, j)
    <3>1. /\ Len(b) = m + 1 /\ (\A i \in 1 .. m : b[i] = a[i]) /\ b[m + 1] = j
      BY <2>0, <2>1, AppendProperties
    <3>0. m \in Nat /\ Len(b) = m + 1
      BY <2>1, <3>1
    <3> HIDE DEF b, m
    <3>2. \A i \in 1 .. m : a[i] \in Nat /\ a[i] <= j - 1 /\ a[i] \in P
      BY <1>0, <2>1 DEF Listed, m
    <3>3. Ascending(b)
      <4> SUFFICES ASSUME NEW x \in 1 .. m + 1, NEW y \in 1 .. m + 1, x < y
                   PROVE  b[x] < b[y]
        BY <3>0 DEF Ascending
      <4>1. x \in 1 .. m /\ (y \in 1 .. m \/ y = m + 1)
        BY <3>0
      <4>2. CASE y = m + 1
        <5>1. b[x] = a[x] /\ b[y] = j /\ a[x] \in Nat /\ a[x] <= j - 1
          BY <3>1, <3>2, <4>1, <4>2
        <5> QED BY <2>0, <5>1
      <4>3. CASE y \in 1 .. m
        <5>1. a[x] < a[y]
          BY <2>1, <4>1, <4>3 DEF Ascending, m
        <5> QED BY <3>1, <4>1, <4>3, <5>1
      <4> QED BY <4>1, <4>2, <4>3
    <3>4. \A i \in 1 .. Len(b) : b[i] \in P /\ b[i] <= j
      <4> SUFFICES ASSUME NEW i \in 1 .. Len(b) PROVE b[i] \in P /\ b[i] <= j
        OBVIOUS
      <4>1. CASE i = m + 1
        BY <2>0, <2>3, <3>1, <4>1
      <4>2. CASE i # m + 1
        <5>1. i \in 1 .. m
          BY ONLY <3>0, <4>2, i \in 1 .. Len(b)
        <5> QED BY <2>0, <3>1, <3>2, <5>1
      <4> QED BY <4>1, <4>2
    <3>5. ASSUME NEW p \in 1 .. j, p \in P PROVE \E i \in 1 .. Len(b) : b[i] = p
      <4>1. CASE p = j
        <5>1. m + 1 \in 1 .. Len(b)
          BY <2>1, <3>1
        <5> QED BY <3>1, <4>1, <5>1
      <4>2. CASE p # j
        <5>1. p \in 1 .. j - 1
          BY <4>2
        <5>2. PICK i \in 1 .. m : a[i] = p
          BY <2>1, <3>5, <5>1 DEF Listed, m
        <5> QED BY <2>1, <3>1, <5>2
      <4> QED BY <4>1, <4>2
    <3>6. Listed(b, P, j)
      BY <3>4, <3>5 DEF Listed
    <3> QED BY <2>1, <2>3, <3>3, <3>6 DEF b
  <2> QED BY <2>2, <2>3
<1> HIDE DEF I
<1>5. I = 0 .. n
  BY <1>3, <1>4, UpTo
<1>6. Ascending(f[n]) /\ Listed(f[n], P, n) /\ f[n] \in Seq(S)
  <2>1. n \in 0 .. n
    OBVIOUS
  <2>2. n \in I /\ f[n] \in Seq(S)
    BY <1>5, <2>1
  <2> QED BY <2>2 DEF I
<1> QED BY <1>2, <1>6 DEF PlacesOf, s, S

\* What is kept is what is at these places.
LEMMA KeptAt ==
    ASSUME NEW S, NEW s \in Seq(S), NEW P
    PROVE  LET l == PlacesOf(Len(s), P) IN
           /\ Kept(s, P) \in Seq(S) /\ Len(Kept(s, P)) = Len(l)
           /\ \A i \in 1 .. Len(l) : l[i] \in 1 .. Len(s) /\ Kept(s, P)[i] = s[l[i]]
<1> DEFINE n == Len(s)
           t == [i \in 1 .. n |-> i]
<1>1. n \in Nat /\ t \in Seq(1 .. n) /\ Len(t) = n /\ \A i \in 1 .. n : t[i] = i
  OBVIOUS
<1>2. PICK f \in [0 .. n -> Seq(S)] : Keeping(f, s, P) /\ Kept(s, P) = f[n]
  BY KeptSteps
<1> HIDE DEF n, t
<1>3. PICK g \in [0 .. n -> Seq(1 .. n)] : Keeping(g, t, P) /\ Kept(t, P) = g[n]
  <2>1. \E g \in [0 .. Len(t) -> Seq(1 .. n)] : Keeping(g, t, P) /\ Kept(t, P) = g[Len(t)]
    BY <1>1, KeptSteps
  <2> QED BY <1>1, <2>1, Zenon
<1> DEFINE Same(a, b) == Len(a) = Len(b) /\ \A i \in 1 .. Len(b) : a[i] = s[b[i]]
           I == {j \in 0 .. n : Same(f[j], g[j])}
<1>4. I \in SUBSET (0 .. n) /\ 0 \in I
  BY <1>1, <1>2, <1>3 DEF Keeping
<1>5. ASSUME NEW j \in 1 .. n, j - 1 \in I PROVE j \in I
  <2> DEFINE a == f[j - 1]
             b == g[j - 1]
  <2>1. j - 1 \in 0 .. n /\ j \in 0 .. n
    BY <1>1
  <2>2. a \in Seq(S) /\ b \in Seq(1 .. n) /\ Same(a, b) /\ s[j] \in S
    BY <1>2, <1>3, <1>5, <2>1 DEF n
  <2>3. /\ f[j] = IF j \in P THEN Append(a, s[j]) ELSE a
        /\ g[j] = IF j \in P THEN Append(b, j) ELSE b
    BY <1>1, <1>2, <1>3 DEF Keeping, n
  <2> HIDE DEF a, b
  <2>4. Same(Append(a, s[j]), Append(b, j))
    <3> DEFINE c == Append(a, s[j])
               d == Append(b, j)
               m == Len(b)
    <3>1. m \in Nat /\ Len(a) = m
      BY <2>2
    <3>2. Len(c) = m + 1 /\ (\A i \in 1 .. m : c[i] = a[i]) /\ c[m + 1] = s[j]
      BY <2>2, AppendProperties
    <3>3. Len(d) = m + 1 /\ (\A i \in 1 .. m : d[i] = b[i]) /\ d[m + 1] = j
      BY <2>2, AppendProperties
    <3> HIDE DEF c, d
    <3>4. \A i \in 1 .. m + 1 : c[i] = s[d[i]]
      BY <2>2, <3>1, <3>2, <3>3
    <3> QED BY <3>1, <3>2, <3>3, <3>4 DEF c, d
  <2> QED BY <2>1, <2>2, <2>3, <2>4
<1> HIDE DEF I
<1>6. I = 0 .. n
  BY <1>1, <1>4, <1>5, UpTo
<1>7. Same(f[n], g[n])
  <2>1. n \in 0 .. n
    BY <1>1
  <2>2. n \in I
    BY <1>6, <2>1
  <2> QED BY ONLY <2>2 DEF I
<1>8. Kept(t, P) = PlacesOf(n, P)
  BY DEF PlacesOf, t
<1>9. f[n] \in Seq(S) /\ g[n] \in Seq(1 .. n)
  BY <1>1
<1> QED BY <1>2, <1>3, <1>7, <1>8, <1>9 DEF n

-----------------------------------------------------------------------------
(* Blocks of one length *)

\* The sequence put together of n blocks of u elements.
Blocks(t, seqs, n, u) ==
    /\ Len(t) = n * u
    /\ \A i \in 1 .. n : \A b \in 1 .. u : t[(i - 1) * u + b] = seqs[i][b]

\* A sequence of sequences of one length, flattened: block after block.
LEMMA Flattened ==
    ASSUME NEW S, NEW u \in Nat, NEW n \in Nat, NEW seqs \in [1 .. n -> Seq(S)],
           \A i \in 1 .. n : Len(seqs[i]) = u
    PROVE  FlattenSeq(seqs) \in Seq(S) /\ Blocks(FlattenSeq(seqs), seqs, n, u)
<1>1. seqs \in Seq(Seq(S)) /\ Len(seqs) = n
  OBVIOUS
<1>2. CASE n = 0
  <2>1. FlattenSeq(seqs) = seqs
    BY <1>1, <1>2 DEF FlattenSeq
  <2>2. seqs = <<>> /\ n * u = 0
    BY <1>1, <1>2
  <2> QED BY <1>2, <2>1, <2>2 DEF Blocks
<1>3. CASE n # 0
  <2> DEFINE Next1(t, i) == IF i = 1 THEN seqs[i] ELSE t[i - 1] \o seqs[i]
             v == CHOOSE t : t = [i \in 1 .. n |-> Next1(t, i)]
  <2>1. FlattenSeq(seqs) = v[n]
    BY <1>1, <1>3 DEF FlattenSeq
  <2> DEFINE s == [j \in Nat |-> IF j \in 1 .. n THEN seqs[j] ELSE <<>>]
             h == [p \in Seq(S) \X Nat |-> p[1] \o s[p[2]]]
  <2>2. s \in [Nat -> Seq(S)] /\ \A j \in 1 .. n : s[j] = seqs[j]
    OBVIOUS
  <2> HIDE DEF s, v
  <2>3. h \in [Seq(S) \X Nat -> Seq(S)]
    <3>1. \A p \in Seq(S) \X Nat : p[1] \in Seq(S) /\ p[2] \in Nat
      OBVIOUS
    <3>2. \A p \in Seq(S) \X Nat : s[p[2]] \in Seq(S)
      BY <2>2, <3>1
    <3>3. \A p \in Seq(S) \X Nat : p[1] \o s[p[2]] \in Seq(S)
      BY <3>1, <3>2
    <3> QED BY ONLY <3>3
  <2>4. \A x \in Seq(S), j \in Nat : h[<<x, j>>] = x \o s[j]
    OBVIOUS
  <2> HIDE DEF h
  <2>5. PICK f \in [0 .. n -> Seq(S)] : Goes(f, n, <<>>, h)
    <3>1. <<>> \in Seq(S)
      OBVIOUS
    <3> QED BY <2>3, <3>1, Recursion
  <2>6. f[0] = <<>> /\ \A j \in 1 .. n : f[j] = f[j - 1] \o seqs[j]
    <3>1. ASSUME NEW j \in 1 .. n PROVE f[j] = f[j - 1] \o seqs[j]
      <4>1. f[j - 1] \in Seq(S) /\ j \in Nat
        OBVIOUS
      <4> QED BY <2>2, <2>4, <2>5, <4>1 DEF Goes
    <3> QED BY <2>5, <3>1 DEF Goes
  <2>7. \A j \in 1 .. n : f[j] = Next1(f, j)
    <3> SUFFICES ASSUME NEW j \in 1 .. n PROVE f[j] = Next1(f, j)
      OBVIOUS
    <3>1. CASE j = 1
      <4>1. f[1] = f[0] \o seqs[1] /\ seqs[1] \in Seq(S) /\ f[0] = <<>>
        <5>1. f[1] = f[1 - 1] \o seqs[1] /\ seqs[1] \in Seq(S)
          BY <2>6, <3>1, Zenon
        <5>2. 1 - 1 = 0
          OBVIOUS
        <5> QED BY ONLY <2>6, <5>1, <5>2, Zenon
      <4>2. <<>> \o seqs[1] = seqs[1]
        BY <4>1
      <4> QED BY <3>1, <4>1, <4>2
    <3>2. CASE j # 1
      BY <2>6, <3>2
    <3> QED BY <3>1, <3>2
  <2> DEFINE g == [j \in 1 .. n |-> f[j]]
  <2>8. \A j \in 1 .. n : g[j] = Next1(g, j)
    <3> SUFFICES ASSUME NEW j \in 1 .. n PROVE g[j] = Next1(g, j)
      OBVIOUS
    <3>1. j # 1 => g[j - 1] = f[j - 1]
      OBVIOUS
    <3>2. g[j] = f[j]
      OBVIOUS
    <3> HIDE DEF g
    <3> QED BY <2>7, <3>1, <3>2
  <2>9. g = [j \in 1 .. n |-> Next1(g, j)]
    <3>1. g = [j \in 1 .. n |-> g[j]]
      OBVIOUS
    <3> HIDE DEF g, Next1
    <3> QED BY ONLY <2>8, <3>1
  <2>10. \A j \in 1 .. n : v[j] = Next1(v, j)
    <3> HIDE DEF g
    <3>1. v = [j \in 1 .. n |-> Next1(v, j)]
      BY ZenonT(30), <2>9 DEF v
    <3> HIDE DEF Next1
    <3> QED BY <3>1
  <2>11. v[n] = f[n]
    <3> DEFINE I == {j \in 0 .. n : j = 0 \/ v[j] = f[j]}
    <3>1. I \in SUBSET (0 .. n) /\ 0 \in I
      OBVIOUS
    <3>2. ASSUME NEW j \in 1 .. n, j - 1 \in I PROVE j \in I
      <4>0. j \in 0 .. n
        OBVIOUS
      <4>1. v[j] = Next1(v, j) /\ f[j] = Next1(f, j) /\ j \in 0 .. n
        BY ONLY <2>7, <2>10, <4>0, j \in 1 .. n
      <4>2. j = 1 \/ v[j - 1] = f[j - 1]
        BY <3>2
      <4> QED BY <4>1, <4>2
    <3> HIDE DEF I
    <3>3. I = 0 .. n
      BY <3>1, <3>2, UpTo
    <3>4. n \in I
      BY <3>3
    <3> QED BY ONLY <1>3, <3>4 DEF I
  <2> DEFINE J == {j \in 0 .. n : Blocks(f[j], seqs, j, u)}
  <2>12. J \in SUBSET (0 .. n) /\ 0 \in J
    <3>1. Len(f[0]) = 0 /\ 0 * u = 0
      BY <2>6
    <3>2. Blocks(f[0], seqs, 0, u)
      BY <3>1 DEF Blocks
    <3> QED BY <3>2
  <2>13. ASSUME NEW j \in 1 .. n, j - 1 \in J PROVE j \in J
    <3> DEFINE a == f[j - 1]
               c == seqs[j]
               m == (j - 1) * u
    <3>1. /\ a \in Seq(S) /\ c \in Seq(S) /\ f[j] = a \o c /\ Len(c) = u
          /\ m \in Nat /\ j * u = m + u /\ Blocks(a, seqs, j - 1, u)
          /\ j \in 0 .. n
      <4>1. j - 1 \in 0 .. n /\ j \in 0 .. n /\ j - 1 \in Nat
        OBVIOUS
      <4>2. f[j - 1] \in Seq(S) /\ seqs[j] \in Seq(S)
        BY <4>1
      <4>3. (j - 1) * u \in Nat /\ j * u = (j - 1) * u + u
        OBVIOUS
      <4> QED BY <2>6, <2>13, <4>1, <4>2, <4>3
    <3>2. Len(a) = m
      BY <3>1 DEF Blocks
    <3> HIDE DEF a, c, m
    <3>3. /\ Len(a \o c) = m + u
          /\ \A i \in 1 .. m + u :
                (a \o c)[i] = IF i <= m THEN a[i] ELSE c[i - m]
      BY <3>1, <3>2, ConcatProperties
    <3>4. ASSUME NEW i \in 1 .. j, NEW b \in 1 .. u
          PROVE  (a \o c)[(i - 1) * u + b] = seqs[i][b]
      <4>1. CASE i = j
        <5>1. m + b \in 1 .. m + u /\ ~(m + b <= m) /\ (m + b) - m = b
          BY <3>1
        <5>2. (a \o c)[m + b] = c[b]
          BY <3>3, <5>1
        <5> QED BY <4>1, <5>2 DEF c, m
      <4>2. CASE i # j
        <5>1. j - 1 \in Nat /\ i \in 1 .. j - 1
          BY <4>2
        <5>2. (i - 1) * u + b \in 1 .. m
          BY <5>1, Block DEF m
        <5>3. a[(i - 1) * u + b] = seqs[i][b]
          BY <3>1, <5>1 DEF Blocks
        <5> DEFINE x == (i - 1) * u + b
        <5> HIDE DEF x
        <5>4. (a \o c)[x] = a[x]
          <6>1. x \in 1 .. m + u /\ x <= m
            BY <3>1, <5>2 DEF x
          <6> QED BY <3>3, <6>1
        <5> QED BY <5>3, <5>4 DEF x
      <4> QED BY <4>1, <4>2
    <3>5. Len(f[j]) = j * u
      BY <3>1, <3>3
    <3>6. Blocks(a \o c, seqs, j, u)
      BY ONLY <3>1, <3>4, <3>5 DEF Blocks
    <3> QED BY <3>1, <3>6
  <2> HIDE DEF J
  <2>14. J = 0 .. n
    BY <2>12, <2>13, UpTo
  <2>15. Blocks(f[n], seqs, n, u) /\ f[n] \in Seq(S)
    <3>1. n \in 0 .. n
      OBVIOUS
    <3>2. n \in J /\ f[n] \in Seq(S)
      BY <2>14, <3>1
    <3> QED BY <3>2 DEF J
  <2> QED BY <2>1, <2>11, <2>15
<1> QED BY <1>2, <1>3

-----------------------------------------------------------------------------
(* Words and bytes *)

Byte == SUBSET (0 .. ByteBits - 1)
WordOf(u) == SUBSET (0 .. u * ByteBits - 1)

\* The sizes of bytes, words and chunks.
LEMMA Widths ==
    ByteBits \in Nat \ {0} /\ IntBits \in Nat \ {0} /\ WordBits \in Nat
    /\ ChunkSize \in Nat \ {0}
BY FilesAssumption DEF FilterAssumption, DatastoreAssumption

\* The bits of a word are those of its bytes.
LEMMA WordBits0 ==
    ASSUME NEW u \in Nat \ {0}, NEW bytes \in Seq(Byte),
           NEW i \in 1 .. Len(bytes) \div u
    PROVE  /\ Words(bytes, u)[i] \in WordOf(u)
           /\ \A b \in 1 .. u : \A x \in 0 .. ByteBits - 1 :
                 (b - 1) * ByteBits + x \in Words(bytes, u)[i]
                     <=> x \in bytes[(i - 1) * u + b]
<1> DEFINE n == Len(bytes) \div u
           W == Words(bytes, u)[i]
           at(b) == (i - 1) * u + b
<1>1. Len(bytes) \in Nat /\ n \in Nat /\ n * u <= Len(bytes) /\ n * u \in Nat
  <2>1. Len(bytes) \in Nat
    OBVIOUS
  <2>2. n \in Nat /\ n * u \in 0 .. Len(bytes)
    BY <2>1, Division
  <2> QED BY <2>1, <2>2
<1>2. W = UNION {{x + (b - 1) * ByteBits : x \in bytes[at(b)]} : b \in 1 .. u}
  BY DEF Words
<1>3. \A b \in 1 .. u : at(b) \in 1 .. Len(bytes)
  <2> SUFFICES ASSUME NEW b \in 1 .. u PROVE at(b) \in 1 .. Len(bytes)
    OBVIOUS
  <2>1. at(b) \in 1 .. n * u
    BY <1>1, Block
  <2> HIDE DEF at, n
  <2> QED BY <1>1, <2>1
<1>4. \A b \in 1 .. u : bytes[at(b)] \subseteq 0 .. ByteBits - 1
  <2> SUFFICES ASSUME NEW b \in 1 .. u PROVE bytes[at(b)] \subseteq 0 .. ByteBits - 1
    OBVIOUS
  <2>1. bytes[at(b)] \in Byte
    BY <1>3
  <2> QED BY <2>1 DEF Byte
<1> HIDE DEF W, at, n
<1>5. ASSUME NEW w \in W
      PROVE  \E b \in 1 .. u : \E x \in bytes[at(b)] :
                w = (b - 1) * ByteBits + x /\ x \in 0 .. ByteBits - 1
  <2>1. PICK b \in 1 .. u : \E x \in bytes[at(b)] : w = x + (b - 1) * ByteBits
    BY <1>2
  <2>2. PICK x \in bytes[at(b)] : w = x + (b - 1) * ByteBits
    BY <2>1
  <2>3. x \in 0 .. ByteBits - 1
    BY <1>4
  <2>4. (b - 1) * ByteBits \in Int
    BY Widths
  <2>5. w = (b - 1) * ByteBits + x
    BY <2>2, <2>3, <2>4, Widths
  <2> QED BY <2>3, <2>5
<1>6. ASSUME NEW b \in 1 .. u, NEW x \in bytes[at(b)]
      PROVE  (b - 1) * ByteBits + x \in W
  <2>1. x + (b - 1) * ByteBits \in W
    BY <1>2
  <2>2. x \in 0 .. ByteBits - 1 /\ (b - 1) * ByteBits \in Int
    BY <1>4, Widths
  <2> QED BY <2>1, <2>2, Widths
<1>7. ASSUME NEW b \in 1 .. u, NEW x \in 0 .. ByteBits - 1,
             (b - 1) * ByteBits + x \in W
      PROVE  x \in bytes[at(b)]
  <2>1. PICK c \in 1 .. u : \E y \in bytes[at(c)] :
                (b - 1) * ByteBits + x = (c - 1) * ByteBits + y
                /\ y \in 0 .. ByteBits - 1
    BY <1>5, <1>7
  <2>2. PICK y \in bytes[at(c)] :
                (b - 1) * ByteBits + x = (c - 1) * ByteBits + y
                /\ y \in 0 .. ByteBits - 1
    BY <2>1
  <2>3. b - 1 \in Nat /\ c - 1 \in Nat
    OBVIOUS
  <2> DEFINE p == b - 1
             q == c - 1
  <2>4. /\ (p * ByteBits + x) \div ByteBits = p /\ (p * ByteBits + x) % ByteBits = x
        /\ (q * ByteBits + y) \div ByteBits = q /\ (q * ByteBits + y) % ByteBits = y
    BY <2>2, <2>3, Divided, Widths
  <2>5. b - 1 = c - 1 /\ x = y
    BY ONLY <2>2, <2>4
  <2>6. b = c
    BY <2>5
  <2> QED BY <2>5, <2>6
<1>8. ASSUME NEW w \in W PROVE w \in 0 .. u * ByteBits - 1
  <2>1. PICK b \in 1 .. u : \E x \in bytes[at(b)] :
                w = (b - 1) * ByteBits + x /\ x \in 0 .. ByteBits - 1
    BY <1>5
  <2>2. PICK x \in bytes[at(b)] :
                w = (b - 1) * ByteBits + x /\ x \in 0 .. ByteBits - 1
    BY <2>1
  <2>3. (b - 1) * ByteBits + (x + 1) \in 1 .. u * ByteBits
    <3>1. x + 1 \in 1 .. ByteBits /\ u \in Nat /\ ByteBits \in Nat
      BY <2>2, Widths
    <3> QED BY <3>1, Block
  <2>4. (b - 1) * ByteBits \in Int /\ u * ByteBits \in Int /\ x \in Int
    BY <2>2, Widths
  <2> HIDE DEF W
  <2> QED BY <2>2, <2>3, <2>4
<1>9. W \in WordOf(u)
  BY <1>8 DEF WordOf
<1> QED BY <1>6, <1>7, <1>9 DEF W, at

\* As many words as whole units.
LEMMA WordsType ==
    ASSUME NEW u \in Nat \ {0}, NEW bytes \in Seq(Byte)
    PROVE  /\ Words(bytes, u) \in Seq(WordOf(u))
           /\ Len(Words(bytes, u)) = Len(bytes) \div u
           /\ Len(bytes) \div u \in Nat
<1> DEFINE n == Len(bytes) \div u
           w == Words(bytes, u)
           e(i) == UNION {{x + (b - 1) * ByteBits : x \in bytes[(i - 1) * u + b]} :
                              b \in 1 .. u}
<1>1. n \in Nat
  <2>1. Len(bytes) \in Nat
    OBVIOUS
  <2> QED BY <2>1, Division
<1>2. \A i \in 1 .. n : w[i] \in WordOf(u)
  BY WordBits0
<1>3. w = [i \in 1 .. n |-> e(i)]
  BY DEF Words
<1>4. \A i \in 1 .. n : e(i) \in WordOf(u)
  BY <1>2, <1>3
<1> HIDE DEF n, w, e
<1>5. w \in [1 .. n -> WordOf(u)]
  BY <1>3, <1>4
<1> QED BY <1>1, <1>5 DEF w, n

\* The bits of a byte are some of the word's.
LEMMA ByteBits0 ==
    ASSUME NEW u \in Nat \ {0}, NEW w \in WordOf(u), NEW b \in 1 .. u
    PROVE  /\ Bytes(w, u)[b] \in Byte
           /\ \A x \in 0 .. ByteBits - 1 :
                 x \in Bytes(w, u)[b] <=> (b - 1) * ByteBits + x \in w
<1> DEFINE m == (b - 1) * ByteBits
           top == b * ByteBits
           B == Bytes(w, u)[b]
<1>1. m \in Nat /\ top \in Nat /\ top = m + ByteBits /\ ByteBits \in Nat
  <2>1. b - 1 \in Nat /\ b \in Nat /\ ByteBits \in Nat
    BY Widths
  <2> QED BY <2>1
<1>2. B = {x - m : x \in w \cap (m .. top - 1)}
  BY DEF Bytes
<1>3. \A y \in w : y \in Int
  <2>1. u * ByteBits \in Nat
    BY Widths
  <2> DEFINE l == u * ByteBits
  <2> HIDE DEF l
  <2>2. w \in SUBSET (0 .. l - 1)
    BY DEF WordOf, l
  <2> QED BY <2>2
<1> HIDE DEF m, top, B
<1>4. ASSUME NEW x \in B PROVE x \in 0 .. ByteBits - 1 /\ m + x \in w
  <2>1. PICK y \in w \cap (m .. top - 1) : x = y - m
    BY <1>2
  <2>2. y \in Int /\ y \in w /\ m <= y /\ y <= top - 1
    BY <1>1, <1>3, <2>1
  <2>3. m + x = y
    BY <1>1, <2>1, <2>2
  <2> QED BY <1>1, <2>1, <2>2, <2>3
<1>5. ASSUME NEW x \in 0 .. ByteBits - 1, m + x \in w PROVE x \in B
  <2>1. m + x \in w \cap (m .. top - 1) /\ x = (m + x) - m
    BY <1>1, <1>5
  <2> QED BY <1>2, <2>1
<1> QED BY <1>4, <1>5 DEF B, m, Byte

\* A word has as many bytes as its size says.
LEMMA BytesType ==
    ASSUME NEW u \in Nat \ {0}, NEW w \in WordOf(u)
    PROVE  Bytes(w, u) \in Seq(Byte) /\ Len(Bytes(w, u)) = u
<1> DEFINE e(b) == {x - (b - 1) * ByteBits :
                       x \in w \cap ((b - 1) * ByteBits .. b * ByteBits - 1)}
           B == Bytes(w, u)
<1>1. B = [b \in 1 .. u |-> e(b)]
  BY DEF Bytes
<1>2. \A b \in 1 .. u : B[b] \in Byte
  BY ByteBits0
<1>3. \A b \in 1 .. u : e(b) \in Byte
  BY <1>1, <1>2
<1> HIDE DEF B, e
<1>4. B \in [1 .. u -> Byte]
  BY <1>1, <1>3
<1>5. u \in Nat
  OBVIOUS
<1> QED BY <1>4, <1>5 DEF B

\* The bytes of words, byte by byte.
LEMMA ToBytesType ==
    ASSUME NEW u \in Nat \ {0}, NEW n \in Nat, NEW ws \in [1 .. n -> WordOf(u)]
    PROVE  /\ ToBytes(ws, u) \in Seq(Byte)
           /\ Len(ToBytes(ws, u)) = n * u
           /\ \A i \in 1 .. n : \A b \in 1 .. u :
                 ToBytes(ws, u)[(i - 1) * u + b] = Bytes(ws[i], u)[b]
<1> DEFINE seqs == [i \in 1 .. n |-> Bytes(ws[i], u)]
<1>1. DOMAIN ws = 1 .. n
  OBVIOUS
<1>2. \A i \in 1 .. n : Bytes(ws[i], u) \in Seq(Byte) /\ Len(Bytes(ws[i], u)) = u
  BY BytesType
<1>3. seqs \in [1 .. n -> Seq(Byte)] /\ \A i \in 1 .. n : Len(seqs[i]) = u
  BY <1>2
<1>4. ToBytes(ws, u) = FlattenSeq(seqs)
  BY <1>1 DEF ToBytes
<1>5. \A i \in 1 .. n : seqs[i] = Bytes(ws[i], u)
  OBVIOUS
<1> HIDE DEF seqs
<1>6. FlattenSeq(seqs) \in Seq(Byte) /\ Blocks(FlattenSeq(seqs), seqs, n, u)
  BY <1>3, Flattened
<1> QED BY <1>4, <1>5, <1>6 DEF Blocks

\* A word is what its bits are.
LEMMA SameWord ==
    ASSUME NEW u \in Nat \ {0}, NEW v \in WordOf(u), NEW w \in WordOf(u),
           \A b \in 1 .. u : \A x \in 0 .. ByteBits - 1 :
              (b - 1) * ByteBits + x \in v <=> (b - 1) * ByteBits + x \in w
    PROVE  v = w
<1>1. ASSUME NEW y \in 0 .. u * ByteBits - 1 PROVE y \in v <=> y \in w
  <2>1. u * ByteBits \in Nat /\ ByteBits \in Nat \ {0} /\ u \in Nat
    BY Widths
  <2>2. y + 1 \in 1 .. u * ByteBits
    BY <2>1
  <2>3. PICK b \in 1 .. u, x \in 1 .. ByteBits : y + 1 = (b - 1) * ByteBits + x
    BY <2>1, <2>2, BlockOf
  <2>4. x - 1 \in 0 .. ByteBits - 1 /\ y = (b - 1) * ByteBits + (x - 1)
    <3>1. (b - 1) * ByteBits \in Int
      BY <2>1
    <3> QED BY <2>1, <2>2, <2>3, <3>1
  <2> QED BY <2>4
<1> QED BY <1>1 DEF WordOf

\* Words are the words of their bytes.
LEMMA WordsOfBytes ==
    ASSUME NEW u \in Nat \ {0}, NEW n \in Nat, NEW ws \in [1 .. n -> WordOf(u)]
    PROVE  Words(ToBytes(ws, u), u) = ws
<1> DEFINE t == ToBytes(ws, u)
           v == Words(t, u)
<1>1. /\ t \in Seq(Byte) /\ Len(t) = n * u
      /\ \A i \in 1 .. n : \A b \in 1 .. u : t[(i - 1) * u + b] = Bytes(ws[i], u)[b]
  BY ToBytesType
<1>2. Len(t) \div u = n
  <2>1. 0 \in 0 .. u - 1 /\ n * u + 0 = n * u
    OBVIOUS
  <2>2. (n * u + 0) \div u = n
    BY <2>1, Divided
  <2> QED BY <1>1, <2>1, <2>2
<1>3. v \in Seq(WordOf(u)) /\ Len(v) = n
  <2> HIDE DEF t
  <2> QED BY <1>1, <1>2, WordsType
<1>4. ASSUME NEW i \in 1 .. n PROVE v[i] = ws[i]
  <2>1. /\ v[i] \in WordOf(u)
        /\ \A b \in 1 .. u : \A x \in 0 .. ByteBits - 1 :
              (b - 1) * ByteBits + x \in v[i] <=> x \in t[(i - 1) * u + b]
    <3> HIDE DEF t
    <3> QED BY <1>1, <1>2, WordBits0
  <2>2. ws[i] \in WordOf(u)
    OBVIOUS
  <2>3. \A b \in 1 .. u : \A x \in 0 .. ByteBits - 1 :
           x \in Bytes(ws[i], u)[b] <=> (b - 1) * ByteBits + x \in ws[i]
    BY <2>2, ByteBits0
  <2>4. \A b \in 1 .. u : \A x \in 0 .. ByteBits - 1 :
           (b - 1) * ByteBits + x \in v[i] <=> (b - 1) * ByteBits + x \in ws[i]
    BY <1>1, <2>1, <2>3
  <2> HIDE DEF v
  <2> QED BY <2>1, <2>2, <2>4, SameWord
<1> HIDE DEF v
<1>5. v = ws
  <2>1. v = [i \in 1 .. n |-> v[i]] /\ ws = [i \in 1 .. n |-> ws[i]]
    BY <1>3
  <2> QED BY <1>4, <2>1
<1> QED BY <1>5 DEF v

\* A byte is what its bits are.
LEMMA SameByte ==
    ASSUME NEW a \in Byte, NEW c \in Byte,
           \A x \in 0 .. ByteBits - 1 : x \in a <=> x \in c
    PROVE  a = c
BY DEF Byte

\* Bytes are the bytes of their words, and of a rest.
LEMMA BytesOfWords ==
    ASSUME NEW u \in Nat \ {0}, NEW t \in Seq(Byte)
    PROVE  ToBytes(Words(t, u), u) = SubSeq(t, 1, (Len(t) \div u) * u)
<1> DEFINE n == Len(t) \div u
           w == Words(t, u)
           s == ToBytes(w, u)
           r == SubSeq(t, 1, n * u)
<1>1. w \in Seq(WordOf(u)) /\ Len(w) = n /\ n \in Nat
  BY WordsType
<1>2. w \in [1 .. n -> WordOf(u)]
  BY <1>1
<1>3. /\ s \in Seq(Byte) /\ Len(s) = n * u
      /\ \A i \in 1 .. n : \A b \in 1 .. u : s[(i - 1) * u + b] = Bytes(w[i], u)[b]
  <2> HIDE DEF w, n
  <2> QED BY <1>1, <1>2, ToBytesType
<1>4. /\ r \in Seq(Byte) /\ Len(r) = n * u
      /\ \A i \in 1 .. n * u : r[i] = t[i] /\ t[i] \in Byte
  <2>0. Len(t) \in Nat
    OBVIOUS
  <2>1. n * u \in 0 .. Len(t) /\ Len(t) \in Nat
    BY <2>0, Division
  <2> DEFINE l == n * u
  <2> HIDE DEF l
  <2> SUFFICES /\ SubSeq(t, 1, l) \in Seq(Byte) /\ Len(SubSeq(t, 1, l)) = l
               /\ \A i \in 1 .. l : SubSeq(t, 1, l)[i] = t[i] /\ t[i] \in Byte
    BY DEF l
  <2>2. l \in 0 .. Len(t)
    BY <2>1 DEF l
  <2> QED BY <2>1, <2>2, SubSeqProperties
<1>5. ASSUME NEW j \in 1 .. n * u PROVE s[j] = r[j]
  <2>1. PICK i \in 1 .. n, b \in 1 .. u : j = (i - 1) * u + b
    BY <1>1, BlockOf
  <2>2. w[i] \in WordOf(u)
    BY <1>2
  <2>3. /\ s[j] = Bytes(w[i], u)[b] /\ s[j] \in Byte
        /\ \A x \in 0 .. ByteBits - 1 : x \in s[j] <=> (b - 1) * ByteBits + x \in w[i]
    <3>1. s[j] = Bytes(w[i], u)[b]
      BY <1>3, <2>1
    <3> HIDE DEF s, w
    <3> QED BY <2>2, <3>1, ByteBits0
  <2>4. \A x \in 0 .. ByteBits - 1 : (b - 1) * ByteBits + x \in w[i] <=> x \in t[j]
    BY <2>1, WordBits0
  <2>5. r[j] = t[j] /\ t[j] \in Byte
    BY <1>4
  <2> HIDE DEF s, w, r
  <2> QED BY <2>3, <2>4, <2>5, SameByte
<1> HIDE DEF s, r
<1>6. s = r
  <2>1. Len(s) = Len(r) /\ \A j \in 1 .. Len(s) : s[j] = r[j]
    BY <1>3, <1>4, <1>5
  <2> QED BY <1>3, <1>4, <2>1, SeqEqual
<1> QED BY <1>6 DEF s, r

\* A rest that is left out makes no difference.
LEMMA WordsWhole ==
    ASSUME NEW u \in Nat \ {0}, NEW t \in Seq(Byte)
    PROVE  Words(SubSeq(t, 1, (Len(t) \div u) * u), u) = Words(t, u)
<1> DEFINE w == Words(t, u)
           n == Len(t) \div u
<1>1. w \in Seq(WordOf(u)) /\ Len(w) = n /\ n \in Nat
  BY WordsType
<1>2. w \in [1 .. n -> WordOf(u)]
  BY <1>1
<1> HIDE DEF w, n
<1>3. Words(ToBytes(w, u), u) = w
  BY <1>1, <1>2, WordsOfBytes
<1> QED BY <1>3, BytesOfWords DEF w, n

\* The words of the first bytes are the first words.
LEMMA WordsFirst ==
    ASSUME NEW u \in Nat \ {0}, NEW t \in Seq(Byte), NEW m \in 0 .. Len(t)
    PROVE  LET first == Words(SubSeq(t, 1, m), u)
           IN  /\ Len(first) <= Len(Words(t, u))
               /\ \A i \in 1 .. Len(first) : first[i] = Words(t, u)[i]
<1> DEFINE s == SubSeq(t, 1, m)
           n == m \div u
           N == Len(t) \div u
           at(i, b) == (i - 1) * u + b
           word(x, i) == UNION {{y + (b - 1) * ByteBits : y \in x[at(i, b)]} : b \in 1 .. u}
<1>1. /\ s \in Seq(Byte) /\ Len(s) = m /\ \A j \in 1 .. m : s[j] = t[j]
      /\ m \in Nat /\ Len(t) \in Nat /\ m <= Len(t)
  OBVIOUS
<1>2. /\ Len(Words(s, u)) = n /\ n \in Nat /\ Len(Words(t, u)) = N /\ N \in Nat
      /\ n * u \in 0 .. m
  <2> HIDE DEF s
  <2> QED BY <1>1, WordsType, Division
<1>3. n <= N
  <2>1. N < n => (N + 1) * u <= n * u
    <3> HIDE DEF n, N
    <3> QED BY <1>2, Multiples
  <2>2. (N + 1) * u = N * u + u /\ N * u \in Int
    <3> HIDE DEF N
    <3> QED BY <1>2, Multiples
  <2>3. Len(t) = N * u + (Len(t) % u) /\ Len(t) % u \in 0 .. u - 1
    BY <1>1, Division
  <2> DEFINE x == N * u
             y == n * u
             r == Len(t) % u
  <2>4. /\ N < n => x + u <= y
        /\ x \in Int /\ y \in 0 .. m /\ Len(t) = x + r /\ r \in 0 .. u - 1
    BY <1>2, <2>1, <2>2, <2>3
  <2> HIDE DEF N, n, x, y, r
  <2> QED BY <1>1, <1>2, <2>4
<1>4. /\ Words(s, u) = [i \in 1 .. n |-> word(s, i)]
      /\ Words(t, u) = [i \in 1 .. N |-> word(t, i)]
  BY <1>1 DEF Words
<1>5. ASSUME NEW i \in 1 .. n PROVE word(s, i) = word(t, i)
  <2>1. ASSUME NEW b \in 1 .. u PROVE s[at(i, b)] = t[at(i, b)]
    <3>1. at(i, b) \in 1 .. n * u
      <4> HIDE DEF n
      <4> QED BY <1>2, Block
    <3> HIDE DEF s, n, at
    <3> QED BY <1>1, <1>2, <3>1
  <2> HIDE DEF s, at
  <2> QED BY <2>1
<1> HIDE DEF word, n, N, s
<1>6. ASSUME NEW i \in 1 .. n PROVE Words(s, u)[i] = Words(t, u)[i]
  <2>1. i \in 1 .. N
    BY <1>2, <1>3
  <2> QED BY <1>4, <1>5, <2>1
<1> QED BY <1>2, <1>3, <1>6 DEF s

\* The words go on after whole words.
LEMMA WordsConcat ==
    ASSUME NEW u \in Nat \ {0}, NEW a \in Seq(Byte), NEW c \in Seq(Byte),
           Len(a) % u = 0
    PROVE  /\ Words(a \o c, u) = Words(a, u) \o Words(c, u)
           /\ Len(a) = (Len(a) \div u) * u
           /\ (Len(a) + Len(c)) % u = Len(c) % u
<1> DEFINE n == Len(a) \div u
           m == Len(c) \div u
           v == Words(a, u)
           w == Words(c, u)
           t == a \o c
           x == Words(t, u)
           y == v \o w
<1>0. Len(a) \in Nat /\ Len(c) \in Nat
  OBVIOUS
<1>1. n \in Nat /\ m \in Nat /\ Len(a) = n * u
  <2>1. Len(a) = n * u + (Len(a) % u) /\ n \in Nat /\ m \in Nat
    BY <1>0, Division
  <2>2. n * u \in Nat
    BY <2>1
  <2> HIDE DEF n
  <2> QED BY <2>1, <2>2
<1>2. /\ t \in Seq(Byte) /\ Len(t) = Len(a) + Len(c)
      /\ \A i \in 1 .. Len(a) : t[i] = a[i]
      /\ \A i \in 1 .. Len(c) : t[Len(a) + i] = c[i]
  BY ConcatProperties
<1>3. Len(t) \div u = n + m /\ (Len(a) + Len(c)) % u = Len(c) % u
  <2>1. /\ (n * u + Len(c)) \div u = n + m
        /\ (n * u + Len(c)) % u = Len(c) % u
    <3>1. n \in Nat
      BY <1>1
    <3> HIDE DEF n
    <3> QED BY <1>0, <3>1, DividedSum
  <2> QED BY <1>1, <1>2, <2>1
<1> HIDE DEF t
<1>4. /\ v \in Seq(WordOf(u)) /\ Len(v) = n
      /\ w \in Seq(WordOf(u)) /\ Len(w) = m
      /\ x \in Seq(WordOf(u)) /\ Len(x) = n + m
  BY <1>2, <1>3, WordsType
<1>5. /\ y \in Seq(WordOf(u)) /\ Len(y) = n + m
      /\ \A i \in 1 .. n + m : y[i] = IF i <= n THEN v[i] ELSE w[i - n]
  <2> HIDE DEF v, w, n, m
  <2>1. v \in Seq(WordOf(u)) /\ w \in Seq(WordOf(u)) /\ Len(v) = n /\ Len(w) = m
    BY <1>4
  <2> QED BY ONLY <2>1, ConcatProperties
<1>6. ASSUME NEW i \in 1 .. n + m PROVE x[i] = y[i]
  <2> DEFINE z == (i - 1) * u
  <2>1. /\ x[i] \in WordOf(u)
        /\ \A b \in 1 .. u : \A q \in 0 .. ByteBits - 1 :
              (b - 1) * ByteBits + q \in x[i] <=> q \in t[z + b]
    BY <1>2, <1>3, WordBits0
  <2>2. CASE i <= n
    <3>1. i \in 1 .. n
      BY <1>1, <2>2
    <3>2. /\ v[i] \in WordOf(u)
          /\ \A b \in 1 .. u : \A q \in 0 .. ByteBits - 1 :
                (b - 1) * ByteBits + q \in v[i] <=> q \in a[z + b]
      BY <3>1, WordBits0
    <3>3. \A b \in 1 .. u : t[z + b] = a[z + b]
      <4> SUFFICES ASSUME NEW b \in 1 .. u PROVE t[z + b] = a[z + b]
        OBVIOUS
      <4>1. z + b \in 1 .. n * u
        BY <1>1, <3>1, Block
      <4> HIDE DEF z, n
      <4> QED BY <1>1, <1>2, <4>1
    <3>4. y[i] = v[i]
      BY <1>5, <2>2
    <3> HIDE DEF x, y, v, z
    <3>5. x[i] = v[i]
      <4>1. \A b \in 1 .. u : \A q \in 0 .. ByteBits - 1 :
               (b - 1) * ByteBits + q \in x[i] <=> (b - 1) * ByteBits + q \in v[i]
        BY <2>1, <3>2, <3>3
      <4> QED BY <2>1, <3>2, <4>1, SameWord
    <3> QED BY <3>4, <3>5
  <2>3. CASE ~(i <= n)
    <3> DEFINE j == i - n
               off == (j - 1) * u
    <3>1. j \in 1 .. m /\ i = n + j
      BY <1>1, <2>3
    <3>2. /\ w[j] \in WordOf(u)
          /\ \A b \in 1 .. u : \A q \in 0 .. ByteBits - 1 :
                (b - 1) * ByteBits + q \in w[j] <=> q \in c[off + b]
      BY <3>1, WordBits0
    <3>3. \A b \in 1 .. u : t[z + b] = c[off + b]
      <4> SUFFICES ASSUME NEW b \in 1 .. u PROVE t[z + b] = c[off + b]
        OBVIOUS
      <4>1. off + b \in 1 .. m * u /\ m * u \in 0 .. Len(c)
        <5>1. m * u \in 0 .. Len(c)
          BY <1>0, Division
        <5> HIDE DEF j
        <5> QED BY <1>1, <3>1, <5>1, Block
      <4>2. z = n * u + off
        <5>1. i - 1 = n + (j - 1) /\ j - 1 \in Int /\ n \in Int
          BY <1>1, <3>1
        <5>2. (n + (j - 1)) * u = n * u + (j - 1) * u
          <6> HIDE DEF j, n
          <6> QED BY <5>1, Multiples
        <5> HIDE DEF j, n
        <5> QED BY <5>1, <5>2
      <4>3. off \in Int /\ n * u \in Int
        <5>1. j - 1 \in Int /\ n \in Int /\ u \in Int
          BY <1>1, <3>1
        <5> HIDE DEF j, n
        <5> QED BY <5>1
      <4>4. z + b = Len(a) + (off + b)
        <5>1. b \in Int /\ Len(a) = n * u
          BY <1>1
        <5> DEFINE l == n * u
        <5>2. z = l + off /\ Len(a) = l /\ off \in Int /\ l \in Int
          BY ONLY <4>2, <4>3, <5>1
        <5> HIDE DEF z, off, l
        <5> QED BY ONLY <5>1, <5>2
      <4>5. off + b \in 1 .. Len(c)
        <5> HIDE DEF off, m
        <5> QED BY <1>0, <4>1
      <4> HIDE DEF z, off
      <4> QED BY <1>2, <4>4, <4>5
    <3>4. y[i] = w[j]
      BY <1>5, <2>3
    <3> HIDE DEF x, y, w, z, j, off
    <3>5. x[i] = w[j]
      <4>1. \A b \in 1 .. u : \A q \in 0 .. ByteBits - 1 :
               (b - 1) * ByteBits + q \in x[i] <=> (b - 1) * ByteBits + q \in w[j]
        BY <2>1, <3>2, <3>3
      <4> QED BY <2>1, <3>2, <4>1, SameWord
    <3> QED BY <3>4, <3>5
  <2> QED BY <2>2, <2>3
<1> HIDE DEF x, y, n, m
<1>7. x = y
  <2>1. Len(x) = Len(y) /\ \A j \in 1 .. Len(x) : x[j] = y[j]
    BY <1>1, <1>4, <1>5, <1>6
  <2> QED BY <1>4, <1>5, <2>1, SeqEqual
<1> QED BY <1>1, <1>3, <1>7 DEF x, y, v, w, t, n

-----------------------------------------------------------------------------
(* Packing *)

\* The bits of the probes in a list.
Picked(l, s) == {b - 1 : b \in {b \in DOMAIN l : l[b] - 1 \in s}}

\* A shift by less than the width is taken as it is.
LEMMA Unshifted ==
    ASSUME NEW n \in Nat \ {0}, NEW bit \in 0 .. n - 1
    PROVE  bit % n = bit
<1>1. bit \in Int /\ n \in Int /\ n > 0 /\ 0 <= bit /\ bit < n
  OBVIOUS
<1> QED BY ONLY <1>1, Z3

\* Below the sign bit a mask is the one bit.
LEMMA OneBit ==
    ASSUME NEW bit \in Nat, bit < IntBits - 1, NEW word
    PROVE  Mask(bit) = {bit} /\ (Tests(word, bit) <=> bit \in word)
<1>1. Mask(bit) = {bit}
  <2>1. IntBits \in Nat \ {0}
    BY Widths
  <2>2. bit \in 0 .. IntBits - 1 /\ bit # IntBits - 1
    BY ONLY <2>1, bit \in Nat, bit < IntBits - 1
  <2>3. bit % IntBits = bit
    BY ONLY <2>1, <2>2, Unshifted
  <2> QED BY <2>2, <2>3, Zenon DEF Mask
<1> QED BY <1>1 DEF Tests

\* Packing picks the bits of the probes.
LEMMA PackedIs ==
    ASSUME NEW a \in Nat, NEW u \in Nat, NEW l \in Seq(1 .. a * ByteBits),
           Len(l) <= u * ByteBits,
           \A b \in 1 .. Len(l) : b <= l[b] /\ l[b] < IntBits,
           NEW s \in WordOf(a), NEW g \in Garbage(a)
    PROVE  Packed(s \cup g, l, u) = Picked(l, s)
<1> DEFINE N == a * ByteBits
           M == u * ByteBits
           w == s \cup g
           D == 1 .. Len(l)
<1>1. /\ N \in Nat /\ M \in Nat /\ Len(l) \in Nat /\ DOMAIN l = D
      /\ IntBits \in Nat /\ WordBits \in Nat
  BY Widths
<1>2. \A x \in g : x \in Nat /\ x >= N
  <2>1. g \in SUBSET (N .. WordBits - 1)
    BY DEF Garbage
  <2> HIDE DEF N
  <2> QED BY <1>1, <2>1
<1>3. ASSUME NEW b \in D
      PROVE  /\ l[b] - 1 \in Nat /\ b - 1 \in Nat
             /\ (Tests(w, l[b] - 1) <=> l[b] - 1 \in s)
             /\ Mask(b - 1) = {b - 1} /\ b - 1 \in 0 .. M - 1
  <2>1. l[b] \in 1 .. N /\ b \in Nat /\ b <= l[b] /\ l[b] < IntBits
    BY <1>1
  <2>2. b <= Len(l) /\ b >= 1
    BY <1>1
  <2> HIDE DEF N, M, D, w
  <2>3. l[b] - 1 \in Nat /\ l[b] - 1 < IntBits - 1 /\ l[b] - 1 < N
    BY <1>1, <2>1
  <2>4. b - 1 \in Nat /\ b - 1 < IntBits - 1 /\ b - 1 \in 0 .. M - 1
    <3>1. Len(l) <= M
      BY DEF M
    <3> QED BY <1>1, <2>1, <2>2, <3>1
  <2>5. Tests(w, l[b] - 1) <=> l[b] - 1 \in w
    BY <2>3, OneBit
  <2>6. l[b] - 1 \notin g
    BY <1>1, <1>2, <2>3
  <2>7. Mask(b - 1) = {b - 1}
    BY <2>4, OneBit
  <2> QED BY <2>3, <2>4, <2>5, <2>6, <2>7 DEF w
<1>4. Packed(w, l, u) = (UNION {Mask(b - 1) : b \in {b \in D : Tests(w, l[b] - 1)}})
                        \cap (0 .. M - 1)
  BY <1>1 DEF Packed
<1>5. Picked(l, s) = {b - 1 : b \in {b \in D : l[b] - 1 \in s}}
  BY <1>1 DEF Picked
<1> HIDE DEF w, D, M
<1>6. ASSUME NEW x \in Packed(w, l, u) PROVE x \in Picked(l, s)
  <2>1. PICK b \in D : Tests(w, l[b] - 1) /\ x \in Mask(b - 1)
    BY <1>4
  <2>2. l[b] - 1 \in s /\ x = b - 1
    BY <1>3, <2>1
  <2> QED BY <1>5, <2>2
<1>7. ASSUME NEW x \in Picked(l, s) PROVE x \in Packed(w, l, u)
  <2>1. PICK b \in D : l[b] - 1 \in s /\ x = b - 1
    BY <1>5
  <2>2. Tests(w, l[b] - 1) /\ x \in Mask(b - 1) /\ x \in 0 .. M - 1
    BY <1>3, <2>1
  <2> QED BY <1>4, <2>2
<1> QED BY <1>6, <1>7 DEF w

\* An ascending list of as many numbers as there are is all of them.
LEMMA AllListed ==
    ASSUME NEW n \in Nat, NEW l \in Seq(1 .. n), Ascending(l)
    PROVE  /\ Len(l) <= n
           /\ \A b \in 1 .. Len(l) : b <= l[b]
           /\ Len(l) = n => \A b \in 1 .. n : l[b] = b
<1> DEFINE m == Len(l)
<1>1. m \in Nat /\ \A b \in 1 .. m : l[b] \in Nat /\ l[b] >= 1 /\ l[b] <= n
  <2>1. \A b \in 1 .. m : l[b] \in 1 .. n
    OBVIOUS
  <2> QED BY <2>1
<1>2. \A i, j \in 1 .. m : i < j => l[i] < l[j]
  BY DEF Ascending
<1> HIDE DEF m
<1> DEFINE I == {j \in 0 .. m : j = 0 \/ l[j] >= j}
<1>3. I \in SUBSET (0 .. m) /\ 0 \in I
  BY <1>1
<1>4. ASSUME NEW j \in 1 .. m, j - 1 \in I PROVE j \in I
  <2>1. CASE j = 1
    BY <1>1, <2>1
  <2>2. CASE j # 1
    <3>1. j - 1 \in 1 .. m /\ j - 1 < j /\ j \in 0 .. m
      BY <1>1, <2>2
    <3>2. l[j - 1] < l[j] /\ l[j - 1] >= j - 1 /\ l[j] \in Nat /\ l[j - 1] \in Nat
      BY <1>1, <1>2, <1>4, <3>1
    <3>3. l[j] >= j
      BY <3>1, <3>2
    <3> QED BY <3>1, <3>3
  <2> QED BY <2>1, <2>2
<1> HIDE DEF I
<1>5. I = 0 .. m
  BY <1>1, <1>3, <1>4, UpTo
<1>6. \A j \in 1 .. m : l[j] >= j
  BY <1>1, <1>5 DEF I
<1>7. m <= n
  BY <1>1, <1>6
<1>8. ASSUME m = n PROVE \A b \in 1 .. n : l[b] = b
  <2> DEFINE J == {j \in 0 .. m : j = m \/ l[m - j] <= m - j}
  <2>1. J \in SUBSET (0 .. m) /\ 0 \in J
    <3>1. 0 \in 0 .. m /\ m - 0 = m
      BY <1>1
    <3>2. m # 0 => l[m] <= m
      BY <1>1, <1>8
    <3> QED BY <3>1, <3>2
  <2>2. ASSUME NEW j \in 1 .. m, j - 1 \in J PROVE j \in J
    <3>1. CASE j = m
      BY <1>1, <3>1
    <3>2. CASE j # m
      <4>1. /\ m - j \in 1 .. m /\ m - (j - 1) \in 1 .. m /\ m - (j - 1) = (m - j) + 1
            /\ j \in 0 .. m /\ m - j \in Nat
        BY <1>1, <3>2
      <4>2. l[m - j] < l[m - (j - 1)]
        BY <1>2, <4>1
      <4>3. l[m - (j - 1)] <= m - (j - 1)
        BY <1>1, <2>2
      <4>4. l[m - j] \in Nat /\ l[m - (j - 1)] \in Nat
        BY <1>1, <4>1
      <4>5. l[m - j] <= m - j
        BY <4>1, <4>2, <4>3, <4>4
      <4> QED BY <4>1, <4>5
    <3> QED BY <3>1, <3>2
  <2> HIDE DEF J
  <2>3. J = 0 .. m
    BY <1>1, <2>1, <2>2, UpTo
  <2> SUFFICES ASSUME NEW b \in 1 .. n PROVE l[b] = b
    OBVIOUS
  <2>4. m - b \in 0 .. m /\ m - b # m /\ m - (m - b) = b /\ b \in 1 .. m
    BY <1>1, <1>8
  <2>5. m - b \in J
    BY <2>3, <2>4
  <2>6. l[m - (m - b)] <= m - (m - b)
    BY <2>4, <2>5 DEF J
  <2>7. l[b] <= b /\ l[b] >= b /\ l[b] \in Nat /\ b \in Nat
    BY <1>1, <1>6, <2>4, <2>6
  <2> QED BY <2>7
<1>9. \A b \in 1 .. m : b <= l[b]
  BY <1>1, <1>6
<1> QED BY <1>7, <1>8, <1>9 DEF m

\* Then all bits are picked.
LEMMA AllPicked ==
    ASSUME NEW a \in Nat, NEW l \in Seq(1 .. a * ByteBits), Ascending(l),
           Len(l) = a * ByteBits, NEW s \in WordOf(a)
    PROVE  Picked(l, s) = s
<1> DEFINE N == a * ByteBits
<1>1. N \in Nat /\ s \in SUBSET (0 .. N - 1)
  BY Widths DEF WordOf
<1>3. DOMAIN l = 1 .. N /\ l \in Seq(1 .. N) /\ Len(l) = N
  OBVIOUS
<1> HIDE DEF N
<1>4. \A b \in 1 .. N : l[b] = b
  BY <1>1, <1>3, AllListed
<1>5. Picked(l, s) = {b - 1 : b \in {b \in 1 .. N : l[b] - 1 \in s}}
  BY <1>3 DEF Picked
<1>6. ASSUME NEW x \in Picked(l, s) PROVE x \in s
  BY <1>4, <1>5
<1>7. ASSUME NEW x \in s PROVE x \in Picked(l, s)
  <2>1. x + 1 \in 1 .. N /\ (x + 1) - 1 = x
    BY <1>1
  <2>2. l[x + 1] - 1 \in s
    BY <1>4, <2>1
  <2> QED BY <1>5, <2>1, <2>2
<1> QED BY <1>6, <1>7

-----------------------------------------------------------------------------
(* What the variables hold *)

TypeInv ==
    /\ plan \in Plans /\ k \in DOMAIN plan
    /\ pc \in {"start", "ready", "header", "feed", "ended", "left", "failed",
               "crashed"}
    /\ source \in {"", "device", "scope", "session", "binary", "chronovu-la8"}
    /\ in_unitsize \in Nat /\ unitsize \in Nat /\ pos \in Nat
    /\ received_samples \in Nat /\ fed \in Nat
    /\ triggered \in BOOLEAN /\ ragged \in BOOLEAN /\ torn \in BOOLEAN
    /\ origin \in 0 .. k /\ (pc # "left" => origin < k)
    /\ marked \in Int
    /\ given \in [DOMAIN plan -> Seq(Byte)] /\ DOMAIN labels = DOMAIN plan
    /\ logic_probelist \in Seq(1 .. Len(dev.probes))

\* A command begins with nothing.
Fresh ==
    /\ \A c \in DOMAIN plan : c > k => given[c] = <<>>
    /\ pc = "start" => source = ""
    /\ pc \in {"start", "ready", "header"} =>
          /\ logic_probelist = <<>> /\ unitsize = 0 /\ store = NoStore
          /\ fed = 0 /\ pos = 0 /\ received_samples = 0
          /\ ~triggered /\ ~ragged /\ ~torn /\ marked = -1 /\ given[k] = <<>>

Running == pc \in {"ready", "header", "feed", "ended"}
Fed == pc \in {"feed", "ended"}

\* Probes, and those of them that are enabled.
Chosen(probes) == {i \in DOMAIN probes : probes[i].enabled}
ProbesOf(probes) ==
    /\ probes \in Seq({probes[i] : i \in DOMAIN probes})
    /\ \A i \in DOMAIN probes : probes[i].enabled \in BOOLEAN

\* The samples of a device have room for the probes that are enabled, of which
\* there are some.
Roomy(probes, size) ==
    /\ size \in Nat \ {0} /\ ProbesOf(probes) /\ Chosen(probes) # {}
    /\ \A i \in Chosen(probes) :
          i <= size * ByteBits /\ (FewProbes => i < IntBits)

DevInv ==
    Running =>
        /\ source # "" /\ labels[k] = Labels(dev.probes)
        /\ source = "scope" => in_unitsize = 0
        /\ source # "scope" => Roomy(dev.probes, in_unitsize)
        /\ source = "device" => in_unitsize = DevUnitsize
        /\ source = "session" => /\ file.kind = "session"
                                 /\ in_unitsize = file.unitsize
                                 /\ dev.probes = Loaded(file)

ListInv ==
    Fed => IF source = "scope" THEN unitsize = 0
           ELSE /\ logic_probelist = PlacesOf(Len(dev.probes), Chosen(dev.probes))
                /\ unitsize = UnitsizeOf(Len(logic_probelist))

\* What a session file says of its samples.
SessionInv ==
    file.kind = "session" =>
        /\ file.unitsize \in Nat \ {0} /\ file.total \in Nat
        /\ file.probes = [i \in 1 .. Len(file.probes) |->
                             [name |-> file.probes[i].name,
                              trigger |-> file.probes[i].trigger]]
        /\ Len(file.probes) \in 1 .. file.total
        /\ Len(file.probes) <= file.unitsize * ByteBits
        /\ FewProbes => Len(file.probes) < IntBits

La8Trail == <<{0}, {}, {}, {}, {}>>

\* What the files hold is what was passed on.
FileInv ==
    /\ file.data \in Seq(Byte)
    /\ file.kind \in {"none", "session", "binary", "chronovu-la8", "text"}
    /\ origin # 0 =>
          /\ file.kind = "session" =>
                /\ file.probes = labels[origin]
                /\ Words(file.data, file.unitsize) = Words(given[origin], file.unitsize)
          /\ file.kind = "binary" => file.data = given[origin]
          /\ file.kind = "chronovu-la8" => file.data = given[origin] \o La8Trail

\* At the end of a packet a whole sample has been passed on.
Whole == fed % in_unitsize = 0 /\ ~LimitReached
WholeInv == Fed /\ source # "scope" /\ ~ragged /\ Whole => Len(given[k]) % unitsize = 0

\* Bytes in a datastore for samples of a size: the first units of them.
Stored(ds, u) ==
    /\ ds \in [unitsize : {u}, num_units : Nat, chunks : Seq(Byte)] /\ u \in Nat \ {0}
    /\ ds.num_units * u <= Len(ds.chunks)
Holds(ds, u, bytes) ==
    /\ ds.num_units = Len(bytes) \div u /\ Len(bytes) <= Len(ds.chunks)
    /\ \A i \in 1 .. Len(bytes) : ds.chunks[i] = bytes[i]
EndsWith(ds, u, bytes) ==
    Len(bytes) % u = 0 /\ Capacity(ds) - ChunkSize <= Len(bytes)

StoreInv ==
    /\ Fed /\ Saving => store # NoStore /\ source # "scope"
    /\ ~Saving => store = NoStore
    /\ store # NoStore =>
          /\ Stored(store, unitsize) /\ in_unitsize # 0
          /\ ~ragged => /\ Holds(store, unitsize, given[k])
                        /\ Whole => EndsWith(store, unitsize, given[k])

\* What has been read is what has been passed on.
ReadInv ==
    Fed /\ source \in {"session", "binary", "chronovu-la8"} =>
        /\ fed <= Len(file.data)
        /\ source = "chronovu-la8" =>
              \E j \in 0 .. La8Packets :
                 pos = j * La8PacketSize
                 /\ fed = IF pos <= Len(file.data) THEN pos ELSE Len(file.data)
        /\ source # "chronovu-la8" => fed = pos
        /\ pc = "ended" => AtEnd
        /\ FewProbes /\ ~ragged /\ cmd.limit = 0 /\ ~cmd.wait =>
              Passed = Selected(Words(SubSeq(file.data, 1, fed), in_unitsize))

\* What the raw formats have written.
RawInv ==
    (pc = "header" \/ Fed) /\ Format \in Raw =>
        /\ {"format", "out"} \subseteq DOMAIN o /\ o.format = Format
        /\ o.out = IF pc = "ended" /\ Format = "chronovu-la8"
                   THEN ByteItems(given[k] \o La8Trail) ELSE ByteItems(given[k])

Inv ==
    /\ TypeInv /\ Fresh /\ DevInv /\ ListInv /\ SessionInv /\ FileInv
    /\ WholeInv /\ StoreInv /\ ReadInv /\ RawInv

-----------------------------------------------------------------------------
(* What follows from it *)

\* The sizes of devices and packets.
LEMMA Sizes ==
    /\ DevUnitsize \in Nat \ {0} /\ MaxPacket \in Nat \ {0}
    /\ La8Packets \in Nat \ {0} /\ La8PacketSize \in Nat \ {0}
    /\ DefaultProbes \in Nat \ {0} /\ SamplesPerLine \in Nat \ {0}
    /\ DevProbes \in Seq(STRING) /\ Len(DevProbes) \in Nat \ {0}
    /\ Channels \in Seq(STRING) /\ Len(Channels) \in Nat \ {0}
    /\ Len(DevProbes) <= DevUnitsize * ByteBits
    /\ Signal \in Seq(WordOf(DevUnitsize))
<1>1. /\ DevProbes \in Seq(STRING) /\ DevProbes # <<>>
      /\ Channels \in Seq(STRING) /\ Channels # <<>>
  BY FilesAssumption
<1> QED BY <1>1, FilesAssumption DEF WordOf

\* The command line that runs.
LEMMA CmdIs ==
    ASSUME TypeInv
    PROVE  /\ plan \in Seq(Commands) /\ Len(plan) \in Nat
           /\ DOMAIN plan = 1 .. Len(plan)
           /\ k \in 1 .. Len(plan) /\ cmd \in Commands
           /\ cmd.probes \in Seq([n : Nat, name : STRING])
           /\ cmd.format \in Formats \cup {""} /\ cmd.save \in BOOLEAN
           /\ cmd.limit \in Nat /\ cmd.wait \in BOOLEAN /\ cmd.numprobes \in Int
           /\ cmd.input \in Devices \cup {"file"}
           /\ cmd.input_format \in {"", "binary", "chronovu-la8"}
           /\ FewProbes => cmd.numprobes < IntBits
           /\ Format \in Formats /\ given[k] \in Seq(Byte)
<1>1. plan \in Plans /\ k \in DOMAIN plan /\ given \in [DOMAIN plan -> Seq(Byte)]
  BY DEF TypeInv
<1>2. plan \in Seq(Commands)
  BY <1>1, FilesAssumption
<1>3. Len(plan) \in Nat /\ DOMAIN plan = 1 .. Len(plan)
  BY <1>2
<1>4. given[k] \in Seq(Byte)
  BY <1>1
<1>5. cmd \in Commands
  BY <1>1, <1>2, <1>3 DEF cmd
<1>6. /\ cmd.probes \in Seq([n : Nat, name : STRING])
      /\ cmd.format \in Formats \cup {""} /\ cmd.save \in BOOLEAN
      /\ cmd.limit \in Nat /\ cmd.wait \in BOOLEAN /\ cmd.numprobes \in Int
      /\ cmd.input \in Devices \cup {"file"}
      /\ cmd.input_format \in {"", "binary", "chronovu-la8"}
  BY <1>5 DEF Commands
<1>7. Format \in Formats
  BY <1>6 DEF Format, Formats, Text
<1>8. FewProbes => cmd.numprobes < IntBits
  BY <1>1 DEF FewProbes, cmd
<1> QED BY <1>1, <1>2, <1>3, <1>4, <1>5, <1>6, <1>7, <1>8

\* A sequence of elements of another set.
LEMMA OtherRange ==
    ASSUME NEW S, NEW T, NEW s \in Seq(S), \A i \in 1 .. Len(s) : s[i] \in T
    PROVE  s \in Seq(T)
<1>1. Len(s) \in Nat /\ s \in [1 .. Len(s) -> S]
  OBVIOUS
<1>2. s \in [1 .. Len(s) -> T]
  BY <1>1
<1> QED BY <1>1, <1>2

\* Dividing upwards: how many bytes some bits take.
LEMMA UnitsizeIs ==
    ASSUME NEW n \in Nat
    PROVE  /\ UnitsizeOf(n) \in Nat /\ n <= UnitsizeOf(n) * ByteBits
           /\ n > 0 => UnitsizeOf(n) # 0
           /\ \A a \in Nat : n <= a * ByteBits => UnitsizeOf(n) <= a
           /\ \A a \in Nat : n = a * ByteBits => UnitsizeOf(n) = a
<1> DEFINE u == UnitsizeOf(n)
<1>1. ByteBits \in Nat \ {0}
  BY Widths
<1>2. /\ u \in Nat /\ n <= u * ByteBits /\ u * ByteBits < n + ByteBits
      /\ u * ByteBits \in Nat
  BY <1>1, DivUp DEF UnitsizeOf
<1> HIDE DEF u
<1>3. n > 0 => u # 0
  <2>1. u = 0 => u * ByteBits = 0
    BY <1>1
  <2> QED BY <1>2, <2>1
<1>4. ASSUME NEW a \in Nat, n <= a * ByteBits PROVE u <= a
  <2>1. a + 1 <= u => (a + 1) * ByteBits <= u * ByteBits
    BY <1>1, <1>2, Multiples
  <2>2. (a + 1) * ByteBits = a * ByteBits + ByteBits /\ a * ByteBits \in Nat
    BY <1>1, Multiples
  <2>3. ~(a + 1 <= u)
    BY <1>1, <1>2, <1>4, <2>1, <2>2
  <2> QED BY <1>2, <2>3
<1>5. ASSUME NEW a \in Nat, n = a * ByteBits PROVE u = a
  <2>1. a * ByteBits \in Nat /\ n <= a * ByteBits
    BY <1>1, <1>5
  <2>2. u <= a
    BY <1>4, <2>1
  <2>3. u + 1 <= a => (u + 1) * ByteBits <= a * ByteBits
    BY <1>1, <1>2, Multiples
  <2>4. (u + 1) * ByteBits = u * ByteBits + ByteBits
    BY <1>1, <1>2, Multiples
  <2>5. ~(u + 1 <= a)
    BY <1>1, <1>2, <1>5, <2>3, <2>4
  <2> QED BY <1>2, <2>2, <2>5
<1> QED BY <1>2, <1>3, <1>4, <1>5 DEF u

\* The list of the probes that are enabled, and the size of a packed sample.
LEMMA ListIs ==
    ASSUME NEW probes, NEW size, Roomy(probes, size)
    PROVE  LET l == PlacesOf(Len(probes), Chosen(probes))
               u == UnitsizeOf(Len(l))
           IN /\ l \in Seq(1 .. Len(probes)) /\ l \in Seq(1 .. size * ByteBits)
              /\ Ascending(l) /\ Listed(l, Chosen(probes), Len(probes))
              /\ Len(l) \in Nat \ {0} /\ u \in Nat \ {0}
              /\ Len(l) <= u * ByteBits /\ u <= size
              /\ Len(l) = size * ByteBits => u = size
              /\ \A b \in 1 .. Len(l) : b <= l[b] /\ (FewProbes => l[b] < IntBits)
<1> DEFINE n == Len(probes)
           P == Chosen(probes)
           l == PlacesOf(n, P)
           N == size * ByteBits
<1>1. n \in Nat /\ DOMAIN probes = 1 .. n /\ size \in Nat /\ N \in Nat
  BY Widths DEF Roomy, ProbesOf
<1>2. l \in Seq(1 .. n) /\ Ascending(l) /\ Listed(l, P, n)
  BY <1>1, PlacesAre
<1>3. P # {} /\ \A i \in P : i \in 1 .. n /\ i <= N /\ (FewProbes => i < IntBits)
  BY <1>1 DEF Roomy, Chosen
<1> HIDE DEF n, P, l, N
<1>4. \A b \in 1 .. Len(l) : l[b] \in P /\ l[b] \in 1 .. N
      /\ (FewProbes => l[b] < IntBits)
  BY <1>1, <1>2, <1>3 DEF Listed
<1>5. l \in Seq(1 .. N)
  <2>1. l \in Seq(1 .. n)
    BY <1>2
  <2>2. \A b \in 1 .. Len(l) : l[b] \in 1 .. N
    BY <1>4
  <2> QED BY ONLY <2>1, <2>2, OtherRange
<1>6. Len(l) \in Nat /\ Len(l) # 0
  <2>1. PICK i \in P : TRUE
    BY <1>3
  <2>2. PICK b \in 1 .. Len(l) : l[b] = i
    BY <1>3, <2>1, <1>2 DEF Listed
  <2> QED BY <1>2, <2>2
<1>7. Len(l) <= N /\ \A b \in 1 .. Len(l) : b <= l[b]
  BY <1>1, <1>2, <1>5, AllListed
<1>8. /\ UnitsizeOf(Len(l)) \in Nat \ {0} /\ Len(l) <= UnitsizeOf(Len(l)) * ByteBits
      /\ UnitsizeOf(Len(l)) <= size
      /\ Len(l) = N => UnitsizeOf(Len(l)) = size
  BY <1>1, <1>6, <1>7, UnitsizeIs DEF N
<1> QED BY <1>2, <1>4, <1>5, <1>6, <1>7, <1>8 DEF n, P, l, N

\* The same of the command that runs.
LEMMA ListNow ==
    ASSUME TypeInv, DevInv, ListInv, Fed, source # "scope"
    PROVE  /\ in_unitsize \in Nat \ {0} /\ unitsize \in Nat \ {0}
           /\ unitsize <= in_unitsize
           /\ logic_probelist \in Seq(1 .. in_unitsize * ByteBits)
           /\ Ascending(logic_probelist)
           /\ Len(logic_probelist) \in Nat \ {0}
           /\ Len(logic_probelist) <= unitsize * ByteBits
           /\ Copied => unitsize = in_unitsize
           /\ \A b \in 1 .. Len(logic_probelist) :
                 b <= logic_probelist[b] /\ (FewProbes => logic_probelist[b] < IntBits)
<1>1. Roomy(dev.probes, in_unitsize)
  BY DEF DevInv, Running, Fed
<1>2. /\ logic_probelist = PlacesOf(Len(dev.probes), Chosen(dev.probes))
      /\ unitsize = UnitsizeOf(Len(logic_probelist))
  BY DEF ListInv
<1> QED BY <1>1, <1>2, ListIs DEF Copied, Roomy

\* The samples of the probes in the list.
LEMMA FilterIs ==
    ASSUME TypeInv, DevInv, ListInv, Fed, source # "scope",
           NEW bytes \in Seq(Byte), NEW garbage \in Garbage(in_unitsize)
    PROVE  LET f == Filtered(bytes, garbage)
               n == Len(bytes) \div in_unitsize
           IN /\ f \in Seq(Byte) /\ n \in Nat /\ Len(f) >= n
              /\ Len(f) \div unitsize = n
              /\ Len(bytes) % in_unitsize = 0 => Len(f) % unitsize = 0
              /\ FewProbes => Words(f, unitsize) = Selected(Words(bytes, in_unitsize))
<1> DEFINE a == in_unitsize
           u == unitsize
           l == logic_probelist
           n == Len(bytes) \div a
           w == Words(bytes, a)
           f == Filtered(bytes, garbage)
<1>1. /\ a \in Nat \ {0} /\ u \in Nat \ {0} /\ l \in Seq(1 .. a * ByteBits)
      /\ Ascending(l) /\ Len(l) <= u * ByteBits
      /\ Copied => u = a
      /\ \A b \in 1 .. Len(l) : b <= l[b] /\ (FewProbes => l[b] < IntBits)
  BY ListNow
<1>2. /\ w \in Seq(WordOf(a)) /\ Len(w) = n /\ n \in Nat
      /\ Len(bytes) \in Nat /\ n <= Len(bytes)
  <2>1. w \in Seq(WordOf(a)) /\ Len(w) = n /\ n \in Nat
    BY <1>1, WordsType
  <2>2. Len(bytes) \in Nat
    OBVIOUS
  <2>3. n <= Len(bytes)
    <3>1. n * a \in 0 .. Len(bytes)
      BY <1>1, <2>2, Division
    <3>2. n <= n * a
      <4>1. n * 1 <= n * a
        <5>1. a >= 1 /\ a \in Int /\ 1 \in Int
          BY <1>1
        <5>2. 1 * n <= a * n
          BY <2>1, <5>1, Multiples
        <5> QED BY <2>1, <5>1, <5>2
      <4> QED BY <2>1, <4>1
    <3> HIDE DEF n, a
    <3>3. n * a \in Int
      BY <3>1
    <3> QED BY <2>1, <2>2, <3>1, <3>2, <3>3
  <2> QED BY <2>1, <2>2, <2>3
<1>3. Selected(w) = [i \in 1 .. n |-> Picked(l, w[i])]
  BY <1>2 DEF Selected, Picked
<1>4. \A i \in 1 .. n : w[i] \in WordOf(a)
  BY <1>2
<1>5. CASE Copied
  <2>1. f = bytes /\ u = a
    BY <1>1, <1>5 DEF Filtered
  <2>2. \A i \in 1 .. n : Picked(l, w[i]) = w[i]
    <3>1. Len(l) = a * ByteBits
      BY <1>5 DEF Copied
    <3> HIDE DEF w, a, l, n
    <3> QED BY <1>1, <1>4, <3>1, AllPicked
  <2>3. Selected(w) = w
    <3>1. w = [i \in 1 .. n |-> w[i]]
      BY <1>2
    <3> QED BY <1>3, <2>2, <3>1
  <2> QED BY <1>2, <2>1, <2>3
<1>6. CASE ~Copied
  <2> DEFINE x(i) == Packed(w[i] \cup garbage, l, u)
             v == [i \in 1 .. n |-> x(i)]
  <2>1. f = ToBytes(v, u)
    <3>1. FilterProbes(a, u, l, w, garbage) = [i \in DOMAIN w |-> x(i)]
      BY <1>6 DEF FilterProbes, Copied
    <3>2. DOMAIN w = 1 .. n
      BY <1>2
    <3> QED BY <1>6, <3>1, <3>2 DEF Filtered
  <2>2. v \in [1 .. n -> WordOf(u)]
    <3>1. \A i \in 1 .. n : x(i) \in WordOf(u)
      BY DEF Packed, WordOf
    <3> QED BY <3>1
  <2>3. f \in Seq(Byte) /\ Len(f) = n * u
    <3> HIDE DEF v, n, u, f
    <3> QED BY <1>1, <1>2, <2>1, <2>2, ToBytesType
  <2>4. (n * u) \div u = n /\ (n * u) % u = 0 /\ n <= n * u
    <3>1. 0 \in 0 .. u - 1 /\ n * u + 0 = n * u
      BY <1>1, <1>2
    <3>2. (n * u + 0) \div u = n /\ (n * u + 0) % u = 0
      <4> HIDE DEF n
      <4> QED BY <1>1, <1>2, <3>1, Divided
    <3>3. 1 * n <= u * n
      <4>1. u >= 1 /\ u \in Int /\ 1 \in Int
        BY <1>1
      <4> HIDE DEF n, u
      <4> QED BY <1>2, <4>1, Multiples
    <3>4. n \in Nat /\ u \in Nat
      BY <1>1, <1>2
    <3> HIDE DEF n, u
    <3>5. 1 * n = n /\ u * n = n * u
      BY <3>4
    <3> QED BY <3>1, <3>2, <3>3, <3>5
  <2>5. ASSUME FewProbes PROVE Words(f, u) = Selected(w)
    <3>1. Words(f, u) = v
      <4> HIDE DEF v, n, u
      <4> QED BY <1>1, <1>2, <2>1, <2>2, WordsOfBytes
    <3>2. \A i \in 1 .. n : x(i) = Picked(l, w[i])
      <4>1. a \in Nat /\ u \in Nat /\ garbage \in Garbage(a)
            /\ \A b \in 1 .. Len(l) : b <= l[b] /\ l[b] < IntBits
        BY <1>1, <2>5
      <4> HIDE DEF w, a, l, u, n
      <4> QED BY <1>1, <1>4, <4>1, PackedIs
    <3> QED BY <1>3, <3>1, <3>2
  <2>6. Len(f) \div u = n /\ Len(f) % u = 0 /\ Len(f) >= n
    <3>1. n \in Nat /\ n * u \in Nat
      BY <1>1, <1>2
    <3> HIDE DEF f, n, u
    <3> QED BY <2>3, <2>4, <3>1
  <2> QED BY <1>2, <2>3, <2>5, <2>6
<1> QED BY <1>5, <1>6

-----------------------------------------------------------------------------
(* Every step keeps it: the start of a command *)

\* Records that say whether a probe is enabled.
Probed(probes, n) ==
    /\ probes = [i \in 1 .. n |-> probes[i]]
    /\ \A i \in 1 .. n : "enabled" \in DOMAIN probes[i]

\* The probes selected are as many as before, and some of them are enabled.
LEMMA SelectIs ==
    ASSUME TypeInv, NEW n \in Nat \ {0}, NEW probes, Probed(probes, n),
           \A i \in 1 .. n : probes[i].enabled = TRUE
    PROVE  LET s == Select(probes)
           IN /\ Probed(s, n) /\ \A i \in 1 .. n : s[i].enabled \in BOOLEAN
              /\ \E i \in 1 .. n : s[i].enabled
<1> DEFINE s == Select(probes)
<1>1. DOMAIN probes = 1 .. n
  BY DEF Probed
<1>2. cmd.probes \in Seq([n : Nat, name : STRING])
  BY CmdIs
<1>3. CASE cmd.probes = <<>> \/ ~ProbesOk(probes)
  <2>1. s = probes
    BY <1>3 DEF Select
  <2>2. 1 \in 1 .. n
    OBVIOUS
  <2>3. Probed(s, n) /\ \A i \in 1 .. n : s[i].enabled = TRUE
    BY <2>1
  <2> HIDE DEF s
  <2>4. \E i \in 1 .. n : s[i].enabled
    BY <2>2, <2>3
  <2> QED BY <2>3, <2>4 DEF s
<1>4. CASE cmd.probes # <<>> /\ ProbesOk(probes)
  <2> DEFINE at(i) == {j \in DOMAIN cmd.probes : cmd.probes[j].n = i}
             x(i) == IF at(i) = {} THEN [probes[i] EXCEPT !.enabled = FALSE]
                     ELSE [probes[i] EXCEPT !.name = cmd.probes[Max(at(i))].name]
  <2>1. s = [i \in 1 .. n |-> x(i)]
    BY <1>1, <1>4 DEF Select
  <2>2. ASSUME NEW i \in 1 .. n
        PROVE  "enabled" \in DOMAIN x(i) /\ x(i).enabled = (at(i) # {})
    <3>1. "enabled" \in DOMAIN probes[i] /\ probes[i].enabled = TRUE
      BY DEF Probed
    <3> HIDE DEF at
    <3> QED BY <3>1
  <2>3. 1 \in DOMAIN cmd.probes
    BY <1>2, <1>4
  <2>4. cmd.probes[1].n \in 1 .. n /\ at(cmd.probes[1].n) # {}
    BY <1>1, <1>4, <2>3 DEF ProbesOk
  <2> HIDE DEF x, at, s
  <2>5. \A i \in 1 .. n : s[i] = x(i)
    BY <2>1
  <2>6. Probed(s, n)
    BY <2>1, <2>2, <2>5 DEF Probed
  <2>7. \A i \in 1 .. n : s[i].enabled = (at(i) # {})
    BY <2>2, <2>5
  <2>8. \E i \in 1 .. n : s[i].enabled
    BY <2>4, <2>7
  <2>9. \A i \in 1 .. n : s[i].enabled \in BOOLEAN
    BY <2>7
  <2> QED BY <2>6, <2>8, <2>9 DEF s
<1> QED BY <1>3, <1>4

\* The triggers leave the probes enabled that were.
LEMMA WithTriggersIs ==
    ASSUME NEW n \in Nat, NEW s, Probed(s, n)
    PROVE  LET t == WithTriggers(s)
           IN Probed(t, n) /\ \A i \in 1 .. n : t[i].enabled = s[i].enabled
<1> DEFINE v(i) == IF i \in DOMAIN cmd.triggers THEN cmd.triggers[i] ELSE s[i].trigger
           x(i) == [s[i] EXCEPT !.trigger = v(i)]
           t == WithTriggers(s)
<1>1. DOMAIN s = 1 .. n
  BY DEF Probed
<1>2. t = [i \in 1 .. n |-> x(i)]
  BY <1>1 DEF WithTriggers
<1>3. ASSUME NEW i \in 1 .. n
      PROVE  "enabled" \in DOMAIN x(i) /\ x(i).enabled = s[i].enabled
  <2>1. "enabled" \in DOMAIN s[i]
    BY DEF Probed
  <2> HIDE DEF v
  <2> QED BY <2>1
<1> HIDE DEF x, t
<1>4. \A i \in 1 .. n : t[i] = x(i)
  BY <1>2
<1>5. Probed(t, n)
  BY <1>2, <1>3, <1>4 DEF Probed
<1> QED BY <1>3, <1>4, <1>5 DEF t

\* When there is room for all probes there is for those enabled.
LEMMA RoomyIs ==
    ASSUME NEW n \in Nat, NEW s, Probed(s, n), NEW size \in Nat \ {0},
           \A i \in 1 .. n : s[i].enabled \in BOOLEAN,
           \E i \in 1 .. n : s[i].enabled,
           \A i \in 1 .. n : s[i].enabled =>
               i <= size * ByteBits /\ (FewProbes => i < IntBits)
    PROVE  Roomy(s, size)
<1>1. DOMAIN s = 1 .. n
  BY DEF Probed
<1>2. s \in [1 .. n -> {s[i] : i \in DOMAIN s}]
  BY <1>1 DEF Probed
<1> DEFINE S == {s[i] : i \in DOMAIN s}
<1>3. s \in Seq(S)
  <2>1. s \in [1 .. n -> S] /\ n \in Nat
    BY <1>2
  <2> HIDE DEF S
  <2> QED BY ONLY <2>1
<1> QED BY <1>1, <1>3 DEF Roomy, ProbesOf, Chosen

\* Nothing has been sent yet: what Begin leaves alone.
LEMMA NotYet ==
    ASSUME Inv, pc = "start", pc' \in {"ready", "failed"},
           UNCHANGED <<plan, k, file, origin, pos, o, store, feedVars, history>>,
           source' \in {"", "device", "scope", "session", "binary", "chronovu-la8"},
           in_unitsize' \in Nat, DOMAIN labels' = DOMAIN labels,
           \A c \in DOMAIN labels : c # k => labels'[c] = labels[c], DevInv'
    PROVE  Inv'
<1> USE DEF feedVars, history
<1>1. TypeInv'
  <2>1. logic_probelist' = <<>>
    BY DEF Inv, Fresh
  <2>2. logic_probelist' \in Seq((1 .. Len(dev.probes))')
    BY ONLY <2>1
  <2> QED BY <2>2 DEF Inv, TypeInv
<1>2. Fresh'
  BY DEF Inv, Fresh
<1>3. ListInv' /\ WholeInv' /\ ReadInv' /\ RawInv'
  BY DEF ListInv, WholeInv, ReadInv, RawInv, Fed
<1>4. SessionInv'
  BY DEF Inv, SessionInv
<1>5. FileInv'
  <2>1. origin # 0 => labels'[origin] = labels[origin]
        /\ labels'[origin] = labels[origin]'
    <3>1. origin \in 0 .. k /\ origin < k /\ k \in DOMAIN plan
          /\ DOMAIN labels = DOMAIN plan
      BY DEF Inv, TypeInv
    <3>2. DOMAIN plan = 1 .. Len(plan) /\ Len(plan) \in Nat /\ k \in Nat
      <4>1. TypeInv
        BY DEF Inv
      <4>2. DOMAIN plan = 1 .. Len(plan) /\ Len(plan) \in Nat /\ k \in 1 .. Len(plan)
        BY <4>1, CmdIs
      <4> QED BY ONLY <4>2
    <3>3. origin # 0 => origin \in DOMAIN labels /\ origin # k
      BY ONLY <3>1, <3>2
    <3> QED BY <3>3
  <2> QED BY <2>1 DEF Inv, FileInv
<1>6. StoreInv'
  <2>1. store' = NoStore
    BY DEF Inv, Fresh
  <2> QED BY <2>1 DEF StoreInv, Fed
<1> QED BY <1>1, <1>2, <1>3, <1>4, <1>5, <1>6 DEF Inv

Sources == {"device", "scope", "session", "binary", "chronovu-la8"}

\* What a command needs to begin.
LEMMA Ready ==
    ASSUME Inv, pc = "start", NEW from \in Sources, NEW driver, NEW rate, NEW probes,
           NEW size \in Nat, Uses(from, driver, rate, probes, size),
           labels' = [labels EXCEPT ![k] = Labels(dev'.probes)],
           from = "scope" => size = 0, from # "scope" => Roomy(probes, size),
           from = "device" => size = DevUnitsize,
           from = "session" => /\ file.kind = "session" /\ size = file.unitsize
                               /\ probes = Loaded(file),
           UNCHANGED <<plan, k, file, origin, pos, o, store, feedVars, history>>
    PROVE  Inv'
<1>1. /\ source' = from /\ in_unitsize' = size /\ dev'.probes = probes /\ pc' = "ready"
      /\ file' = file /\ k' = k
  BY DEF Uses
<1>2. k \in DOMAIN labels
  BY DEF Inv, TypeInv
<1>3. /\ DOMAIN labels' = DOMAIN labels /\ labels'[k] = Labels(probes)
      /\ \A c \in DOMAIN labels : c # k => labels'[c] = labels[c]
  BY <1>1, <1>2
<1>4. DevInv'
  <2>1. from # "" /\ (labels[k])' = Labels(dev.probes)'
    BY <1>1, <1>3 DEF Sources
  <2>2. (source # "scope" => Roomy(dev.probes, in_unitsize))'
    BY <1>1
  <2>3. (source = "session" => /\ file.kind = "session" /\ in_unitsize = file.unitsize
                               /\ dev.probes = Loaded(file))'
    BY <1>1
  <2> QED BY <1>1, <2>1, <2>2, <2>3 DEF DevInv
<1>5. source' \in {"", "device", "scope", "session", "binary", "chronovu-la8"}
  BY <1>1 DEF Sources
<1> QED BY <1>1, <1>3, <1>4, <1>5, NotYet

\* A command that opens a device or a file, or fails to, keeps the invariant:
\* the samples have room for the probes.
LEMMA BeginKeeps ==
    ASSUME Inv, Begin
    PROVE  Inv'
<1> USE DEF Inv
<1>1. /\ pc = "start"
      /\ labels' = IF pc' = "ready" THEN [labels EXCEPT ![k] = Labels(dev'.probes)]
                                  ELSE labels
      /\ UNCHANGED <<plan, k, file, origin, pos, o, store, feedVars, history>>
  BY DEF Begin
<1>2. ASSUME Fails PROVE Inv'
  <2>1. pc' = "failed" /\ source' = source /\ in_unitsize' = in_unitsize
        /\ labels' = labels
    BY <1>1, <1>2 DEF Fails, inputVars
  <2>2. DevInv'
    BY <2>1 DEF DevInv, Running
  <2>3. /\ source' \in {"", "device", "scope", "session", "binary", "chronovu-la8"}
        /\ in_unitsize' \in Nat
    BY <2>1 DEF TypeInv
  <2> HIDE DEF Inv
  <2> QED BY <1>1, <2>1, <2>2, <2>3, NotYet
<1>3. CASE OpenDevice
  <2> DEFINE P == [i \in DOMAIN DevProbes |-> Probe(DevProbes[i], "")]
             C == [i \in DOMAIN Channels |-> Probe(Channels[i], "")]
             n == Len(DevProbes)
             s == Select(P)
             t == WithTriggers(s)
  <2>1. CASE cmd.input = "scope"
    <3>1. Uses("scope", "hw", FALSE, Select(C), 0)
      BY <1>3, <2>1 DEF OpenDevice
    <3>2. labels' = [labels EXCEPT ![k] = Labels(dev'.probes)] /\ "scope" \in Sources
          /\ 0 \in Nat
      BY <1>1, <3>1 DEF Uses, Sources
    <3> HIDE DEF Inv, C
    <3> QED BY <1>1, <3>1, <3>2, Ready
  <2>2. CASE cmd.input # "scope" /\ ~ProbesOk(P)
    <3>1. Fails
      BY <1>3, <2>2 DEF OpenDevice
    <3> QED BY <1>2, <3>1
  <2>3. CASE cmd.input # "scope" /\ ProbesOk(P)
    <3>1. Uses("device", "hw", TRUE, t, DevUnitsize)
      BY <1>3, <2>3 DEF OpenDevice
    <3>2. n \in Nat \ {0} /\ DOMAIN DevProbes = 1 .. n
      BY Sizes
    <3>3. Probed(P, n) /\ \A i \in 1 .. n : P[i].enabled = TRUE
      BY <3>2 DEF Probed, Probe
    <3>4. /\ Probed(s, n) /\ \A i \in 1 .. n : s[i].enabled \in BOOLEAN
          /\ \E i \in 1 .. n : s[i].enabled
      <4> HIDE DEF P, n
      <4> QED BY <3>2, <3>3, SelectIs
    <3>5. Probed(t, n) /\ \A i \in 1 .. n : t[i].enabled = s[i].enabled
      <4> HIDE DEF s, n
      <4> QED BY <3>2, <3>4, WithTriggersIs
    <3>6. \A i \in 1 .. n : i <= DevUnitsize * ByteBits /\ (FewProbes => i < IntBits)
      <4>1. /\ n \in Nat /\ n <= DevUnitsize * ByteBits /\ DevUnitsize * ByteBits \in Nat
            /\ IntBits \in Nat /\ (FewProbes => n < IntBits)
        BY <3>2, Sizes, Widths DEF FewProbes
      <4> HIDE DEF n
      <4> QED BY <4>1
    <3>7. Roomy(t, DevUnitsize) /\ DevUnitsize \in Nat
      <4>1. /\ \A i \in 1 .. n : t[i].enabled \in BOOLEAN
            /\ \E i \in 1 .. n : t[i].enabled
        BY <3>4, <3>5
      <4> HIDE DEF t, n
      <4> QED BY <3>2, <3>5, <3>6, <4>1, Sizes, RoomyIs
    <3>8. labels' = [labels EXCEPT ![k] = Labels(dev'.probes)] /\ "device" \in Sources
      BY <1>1, <3>1 DEF Uses, Sources
    <3> HIDE DEF Inv, t
    <3> QED BY <1>1, <3>1, <3>7, <3>8, Ready
  <2> QED BY <2>1, <2>2, <2>3
<1>4. CASE OpenSession
  <2> DEFINE f == file
             n == f.total
             s == Loaded(f)
  <2>1. f.kind = "session" /\ Uses("session", "session", FALSE, s, f.unitsize)
    BY <1>4 DEF OpenSession, Vdev
  <2>2. /\ f.unitsize \in Nat \ {0} /\ n \in Nat
        /\ Len(f.probes) \in 1 .. n /\ Len(f.probes) <= f.unitsize * ByteBits
        /\ FewProbes => Len(f.probes) < IntBits
        /\ DOMAIN f.probes = 1 .. Len(f.probes)
    BY <2>1 DEF SessionInv
  <2>3. /\ Probed(s, n)
        /\ \A i \in 1 .. n :
              s[i].enabled = IF i \in DOMAIN f.probes THEN TRUE ELSE FALSE
    <3> DEFINE x(i) == IF i \in DOMAIN f.probes
                       THEN Probe(f.probes[i].name, f.probes[i].trigger)
                       ELSE [Numbered(n)[i] EXCEPT !.enabled = FALSE]
    <3>1. s = [i \in 1 .. n |-> x(i)]
      BY DEF Loaded
    <3>2. ASSUME NEW i \in 1 .. n
          PROVE  /\ "enabled" \in DOMAIN x(i)
                 /\ x(i).enabled = IF i \in DOMAIN f.probes THEN TRUE ELSE FALSE
      <4>1. CASE i \in DOMAIN f.probes
        <5>1. x(i) = Probe(f.probes[i].name, f.probes[i].trigger)
          BY <4>1
        <5> HIDE DEF x
        <5> QED BY <4>1, <5>1 DEF Probe
      <4>2. CASE i \notin DOMAIN f.probes
        <5>1. x(i) = [Probe(ToString(i - 1), "") EXCEPT !.enabled = FALSE]
          BY <4>2 DEF Numbered
        <5> HIDE DEF x
        <5> QED BY <4>2, <5>1 DEF Probe
      <4> QED BY <4>1, <4>2
    <3> HIDE DEF x, s, n, f
    <3> QED BY <3>1, <3>2 DEF Probed
  <2>4. Roomy(s, f.unitsize)
    <3>1. /\ \A i \in 1 .. n : s[i].enabled \in BOOLEAN
          /\ \E i \in 1 .. n : s[i].enabled
      <4>1. 1 \in 1 .. n /\ 1 \in DOMAIN f.probes
        BY <2>2
      <4> HIDE DEF s, n, f
      <4> QED BY <2>3, <4>1
    <3>2. \A i \in 1 .. n : s[i].enabled =>
             i <= f.unitsize * ByteBits /\ (FewProbes => i < IntBits)
      <4> DEFINE q == Len(f.probes)
                 z == f.unitsize * ByteBits
      <4>1. z \in Nat /\ IntBits \in Nat /\ n \in Nat /\ q \in 1 .. n /\ q <= z
            /\ (FewProbes => q < IntBits) /\ DOMAIN f.probes = 1 .. q
        BY <2>2, Widths
      <4> HIDE DEF s, n, f, q, z
      <4>2. \A i \in 1 .. n : s[i].enabled => i \in 1 .. q
        BY <2>3, <4>1
      <4>3. \A i \in 1 .. q : i <= z /\ (FewProbes => i < IntBits)
        BY <4>1
      <4>4. \A i \in 1 .. n : s[i].enabled => i <= z /\ (FewProbes => i < IntBits)
        BY <4>2, <4>3
      <4> QED BY <4>4 DEF z
    <3> HIDE DEF s, n, f
    <3> QED BY <2>2, <2>3, <3>1, <3>2, RoomyIs
  <2>5. labels' = [labels EXCEPT ![k] = Labels(dev'.probes)] /\ "session" \in Sources
        /\ f.unitsize \in Nat
    BY <1>1, <2>1, <2>2 DEF Uses, Sources
  <2> HIDE DEF Inv
  <2> QED BY <1>1, <2>1, <2>4, <2>5, Ready
<1>5. CASE OpenRaw
  <2> DEFINE n == IF cmd.numprobes = -1 THEN DefaultProbes ELSE cmd.numprobes
             P == Numbered(n)
             s == Select(P)
             u == UnitsizeOf(n)
  <2>1. CASE file.kind = "none" \/ n < 1
    <3>1. Fails
      BY <1>5, <2>1 DEF OpenRaw
    <3> QED BY <1>2, <3>1
  <2>2. CASE ~(file.kind = "none" \/ n < 1)
    <3>1. Uses(InputFormat, "none", FALSE, s, u)
      BY <1>5, <2>2 DEF OpenRaw
    <3>2. n \in Nat \ {0} /\ (FewProbes => n < IntBits)
      <4>1. cmd.numprobes \in Int /\ (FewProbes => cmd.numprobes < IntBits)
        BY CmdIs
      <4>2. DefaultProbes \in Nat \ {0} /\ (FewProbes => DefaultProbes < IntBits)
        BY Sizes DEF FewProbes
      <4>3. n \in Int /\ ~(n < 1)
        BY <2>2, <4>1, <4>2
      <4> QED BY <4>1, <4>2, <4>3
    <3>3. Probed(P, n) /\ \A i \in 1 .. n : P[i].enabled = TRUE
      <4> HIDE DEF n
      <4> QED BY DEF Probed, Probe, Numbered
    <3>4. /\ Probed(s, n) /\ \A i \in 1 .. n : s[i].enabled \in BOOLEAN
          /\ \E i \in 1 .. n : s[i].enabled
      <4> HIDE DEF P, n
      <4> QED BY <3>2, <3>3, SelectIs
    <3>5. u \in Nat \ {0} /\ n <= u * ByteBits
      <4> HIDE DEF n
      <4> QED BY <3>2, UnitsizeIs
    <3>6. \A i \in 1 .. n : i <= u * ByteBits /\ (FewProbes => i < IntBits)
      <4>1. u * ByteBits \in Nat /\ IntBits \in Nat
        BY <3>5, Widths
      <4> HIDE DEF n, u
      <4> QED BY <3>2, <3>5, <4>1
    <3>7. Roomy(s, u)
      <4> HIDE DEF s, n, u
      <4> QED BY <3>2, <3>4, <3>5, <3>6, RoomyIs
    <3>8. labels' = [labels EXCEPT ![k] = Labels(dev'.probes)]
      BY <1>1, <3>1 DEF Uses
    <3>9. InputFormat \in {"binary", "chronovu-la8"} /\ InputFormat \in Sources
      BY CmdIs DEF InputFormat, Sources
    <3> HIDE DEF Inv, s, u, n
    <3> QED BY <1>1, <3>1, <3>5, <3>7, <3>8, <3>9, Ready
  <2> QED BY <2>1, <2>2
<1> QED BY <1>3, <1>4, <1>5 DEF Begin

-----------------------------------------------------------------------------
(* Every step keeps it: the header and the metadata *)

\* The steps of a command do not change it.
LEMMA SameCmd ==
    ASSUME UNCHANGED <<plan, k>>
    PROVE  cmd' = cmd /\ Format' = Format /\ Saving' = Saving
BY DEF cmd, Format, Saving

\* So does the header, with which the output begins,
LEMMA HeaderKeeps ==
    ASSUME Inv, Header
    PROVE  Inv'
<1> USE DEF Inv, inputVars, feedVars, history
<1>1. /\ pc = "ready" /\ pc' = IF o' = NoContext THEN "failed" ELSE "header"
      /\ o' = Open(Format, Names(dev.probes), SamplesPerLine, dev.rate, dev.driver)
      /\ UNCHANGED <<plan, k, file, origin, inputVars, pos, store, feedVars, history,
                     labels>>
  BY DEF Header
<1>2. cmd' = cmd /\ Format' = Format /\ Saving' = Saving
  BY <1>1, SameCmd
<1>3. TypeInv'
  BY <1>1 DEF TypeInv
<1>4. Fresh'
  BY <1>1 DEF Fresh
<1>5. DevInv'
  BY <1>1 DEF DevInv, Running
<1>6. ListInv' /\ WholeInv' /\ ReadInv'
  BY <1>1 DEF ListInv, WholeInv, ReadInv, Fed
<1>7. SessionInv' /\ FileInv'
  BY <1>1 DEF SessionInv, FileInv
<1>8. store' = NoStore /\ given'[k'] = <<>>
  BY <1>1 DEF Fresh
<1>9. StoreInv'
  BY <1>1, <1>8 DEF StoreInv, Fed
<1>10. RawInv'
  <2>1. SUFFICES ASSUME o' # NoContext, Format \in Raw
                 PROVE  RawInv'
    BY <1>1, <1>2 DEF RawInv, Fed
  <2> DEFINE N == Names(dev.probes)
  <2>2. o' = Context(Format, N, FALSE)
    BY <1>1, <2>1 DEF Open, Raw, Text, InitLa8
  <2>3. (given[k])' = <<>> /\ ByteItems(<<>>) = <<>>
    BY <1>8 DEF ByteItems
  <2> HIDE DEF N
  <2>4. {"format", "out"} \subseteq DOMAIN o' /\ o'.format = Format /\ o'.out = <<>>
    BY <2>2 DEF Context
  <2> QED BY <1>1, <1>2, <2>1, <2>3, <2>4 DEF RawInv, Fed
<1> QED BY <1>3, <1>4, <1>5, <1>6, <1>7, <1>9, <1>10

\* As many probes as the device has.
LEMMA NumProbesIs ==
    ASSUME Inv, Running, source # "scope"
    PROVE  LET n == Len(dev.probes)
           IN /\ n \in Nat /\ DOMAIN dev.probes = 1 .. n /\ NumProbes = n
              /\ Roomy(dev.probes, in_unitsize)
<1> DEFINE n == Len(dev.probes)
<1>1. Roomy(dev.probes, in_unitsize)
  BY DEF Inv, DevInv
<1>2. n \in Nat /\ DOMAIN dev.probes = 1 .. n
  BY <1>1 DEF Roomy, ProbesOf
<1>3. NumProbes = n
  <2>1. CASE source = "session"
    <3>1. /\ NumProbes = file.total /\ dev.probes = Loaded(file) /\ file.kind = "session"
      BY <2>1 DEF NumProbes, VdevProbes, Vdev, Inv, DevInv
    <3>2. file.total \in Nat
      BY <3>1 DEF Inv, SessionInv
    <3>3. Len(dev.probes) = file.total
      BY <3>1, <3>2 DEF Loaded
    <3> QED BY <3>1, <3>3
  <2>2. CASE source # "session"
    BY <2>2 DEF NumProbes
  <2> QED BY <2>1, <2>2
<1> QED BY <1>1, <1>2, <1>3

\* Nothing at all is a number of whole samples.
LEMMA Nothing ==
    ASSUME NEW a \in Nat \ {0}
    PROVE  0 \div a = 0 /\ 0 % a = 0 /\ Words(<<>>, a) = <<>>
<1>1. 0 \in 0 .. a - 1 /\ 0 * a + 0 = 0
  OBVIOUS
<1>2. 0 \div a = 0 /\ 0 % a = 0
  <2>1. (0 * a + 0) \div a = 0 /\ (0 * a + 0) % a = 0
    BY <1>1, Divided
  <2> QED BY <1>1, <2>1
<1>3. Words(<<>>, a) = <<>>
  <2>1. Len(<<>>) \div a = 0
    BY <1>2
  <2> QED BY <2>1 DEF Words
<1> QED BY <1>2, <1>3

\* A datastore holds nothing at first.
LEMMA NewStore ==
    ASSUME NEW u \in Nat \ {0}
    PROVE  Stored(New(u), u) /\ Holds(New(u), u, <<>>) /\ EndsWith(New(u), u, <<>>)
<1>1. New(u) = [unitsize |-> u, num_units |-> 0, chunks |-> <<>>]
  BY DEF New, NoStore
<1>2. 0 \div u = 0 /\ 0 % u = 0 /\ 0 * u = 0 /\ Len(<<>>) = 0 /\ <<>> \in Seq(Byte)
  BY Nothing
<1>3. Capacity(New(u)) = ChunkSize /\ ChunkSize \in Nat
  BY <1>1, FilesAssumption DEF Capacity, DatastoreAssumption
<1>4. Stored(New(u), u)
  BY <1>1, <1>2 DEF Stored
<1>5. Holds(New(u), u, <<>>) /\ EndsWith(New(u), u, <<>>)
  BY <1>1, <1>2, <1>3 DEF Holds, EndsWith
<1> QED BY <1>4, <1>5

\* and the meta packet: the probes to filter are listed, and a datastore made.
LEMMA MetaKeeps ==
    ASSUME Inv, Meta
    PROVE  Inv'
<1> USE DEF Inv, inputVars, history
<1> DEFINE n == Len(dev.probes)
<1>1. /\ pc = "header" /\ pc' = IF Saving /\ unitsize' = 0 THEN "failed" ELSE "feed"
      /\ store' = IF Saving THEN New(unitsize') ELSE store
      /\ UNCHANGED <<plan, k, file, origin, inputVars, pos, o, triggered,
                     received_samples, history, labels>>
  BY DEF Meta
<1>2. cmd' = cmd /\ Format' = Format /\ Saving' = Saving
  BY <1>1, SameCmd
<1>3. /\ logic_probelist = <<>> /\ unitsize = 0 /\ store = NoStore
      /\ fed = 0 /\ pos = 0 /\ received_samples = 0
      /\ ~triggered /\ ~ragged /\ ~torn /\ marked = -1 /\ given[k] = <<>>
  BY <1>1 DEF Fresh
<1>4. source = "scope" => logic_probelist' = <<>> /\ unitsize' = 0
  BY <1>3 DEF Meta
<1>5. ASSUME source # "scope"
      PROVE  /\ logic_probelist' = PlacesOf(n, Chosen(dev.probes))
             /\ unitsize' = UnitsizeOf(Len(logic_probelist'))
             /\ logic_probelist' \in Seq(1 .. n) /\ unitsize' \in Nat \ {0}
             /\ in_unitsize \in Nat \ {0}
  <2>1. /\ n \in Nat /\ DOMAIN dev.probes = 1 .. n /\ NumProbes = n
        /\ Roomy(dev.probes, in_unitsize)
    BY <1>1, <1>5, NumProbesIs DEF Running
  <2>2. /\ logic_probelist' = Kept([i \in 1 .. n |-> i],
                                   {i \in 1 .. n : dev.probes[i].enabled})
        /\ unitsize' = UnitsizeOf(Len(logic_probelist'))
    BY <1>5, <2>1 DEF Meta
  <2>3. logic_probelist' = PlacesOf(n, Chosen(dev.probes))
    BY <2>1, <2>2 DEF PlacesOf, Chosen
  <2> HIDE DEF n
  <2>4. in_unitsize \in Nat \ {0}
    BY <2>1 DEF Roomy
  <2> QED BY <2>1, <2>2, <2>3, <2>4, ListIs DEF n
<1>6. TypeInv'
  <2>1. logic_probelist' \in Seq((1 .. Len(dev.probes))') /\ unitsize' \in Nat
    <3>1. CASE source = "scope"
      BY <1>4, <3>1
    <3>2. CASE source # "scope"
      BY <1>1, <1>5, <3>2
    <3> QED BY <3>1, <3>2
  <2>2. (logic_probelist \in Seq(1 .. Len(dev.probes)))' /\ (unitsize \in Nat)'
    BY <2>1
  <2> QED BY <1>1, <2>2 DEF TypeInv
<1>7. Fresh'
  BY <1>1 DEF Fresh
<1>8. DevInv'
  BY <1>1 DEF DevInv, Running
<1>9. ListInv'
  BY <1>1, <1>4, <1>5 DEF ListInv
<1>10. SessionInv' /\ FileInv'
  BY <1>1 DEF SessionInv, FileInv
<1>11. /\ (given[k])' = <<>> /\ Len(<<>>) = 0 /\ fed' = 0 /\ pos' = 0
       /\ dev' = dev /\ source' = source /\ in_unitsize' = in_unitsize /\ file' = file
  BY <1>1, <1>3
<1>12. source # "scope" => /\ 0 \div unitsize' = 0 /\ 0 % unitsize' = 0
                           /\ Words(<<>>, unitsize') = <<>>
                           /\ Words(<<>>, in_unitsize) = <<>>
  BY <1>5, Nothing
<1>13. WholeInv'
  BY <1>11, <1>12 DEF WholeInv
<1>14. StoreInv'
  <2>1. (Fed /\ Saving => store # NoStore /\ source # "scope")'
    <3>1. SUFFICES ASSUME Fed', Saving
                   PROVE  store' # NoStore /\ source # "scope"
      BY <1>2, <1>11
    <3>2. unitsize' # 0
      BY <1>1, <3>1 DEF Fed
    <3>3. store'.unitsize = unitsize'
      BY <1>1, <3>1 DEF New, NoStore
    <3> QED BY <1>4, <3>2, <3>3 DEF NoStore
  <2>2. (~Saving => store = NoStore)'
    BY <1>1, <1>2, <1>3
  <2>3. ASSUME store' # NoStore
        PROVE  store' = New(unitsize') /\ unitsize' # 0
    BY <1>1, <1>3, <2>3 DEF New, NoStore
  <2>4. SUFFICES ASSUME store' # NoStore
                 PROVE  /\ Stored(store', unitsize') /\ in_unitsize' # 0
                        /\ Holds(store', unitsize', <<>>)
                        /\ EndsWith(store', unitsize', <<>>)
    BY <1>11, <2>1, <2>2 DEF StoreInv
  <2>5. unitsize' \in Nat \ {0} /\ in_unitsize \in Nat \ {0}
    BY <1>4, <1>5, <2>3, <2>4
  <2> QED BY <1>11, <2>3, <2>4, <2>5, NewStore
<1>15. ReadInv'
  <2>1. SUFFICES ASSUME Fed', source \in {"session", "binary", "chronovu-la8"}
                 PROVE  ReadInv'
    BY <1>11 DEF ReadInv
  <2>2. 0 <= Len(file.data)
    BY DEF FileInv
  <2>3. source = "chronovu-la8" =>
           0 \in 0 .. La8Packets /\ 0 = 0 * La8PacketSize
    BY Sizes
  <2>4. Passed' = <<>>
    BY <1>11, <1>12, <2>1 DEF Passed
  <2>5. (Selected(Words(SubSeq(file.data, 1, fed), in_unitsize)))' = <<>>
    <3>1. SubSeq(file.data, 1, 0) = <<>>
      BY DEF FileInv
    <3>2. (Words(SubSeq(file.data, 1, fed), in_unitsize))' = <<>>
      BY <1>11, <1>12, <2>1, <3>1
    <3>3. DOMAIN <<>> = {}
      OBVIOUS
    <3> QED BY <3>2, <3>3 DEF Selected
  <2>6. pc' # "ended"
    BY <1>1
  <2> HIDE DEF Inv
  <2>7. (\E j \in 0 .. La8Packets :
           /\ pos = j * La8PacketSize
           /\ fed = IF pos <= Len(file.data) THEN pos ELSE Len(file.data))'
        \/ source # "chronovu-la8"
    BY <1>11, <2>2, <2>3
  <2> QED BY <1>11, <2>1, <2>2, <2>4, <2>5, <2>6, <2>7 DEF ReadInv
<1>16. RawInv'
  BY <1>1, <1>2 DEF RawInv, Fed
<1> QED BY <1>6, <1>7, <1>8, <1>9, <1>10, <1>13, <1>14, <1>15, <1>16

-----------------------------------------------------------------------------
(* Every step keeps it: a packet of samples *)

\* sr_datastore_put() has the room, and puts the bytes behind those it holds.
LEMMA PutHolds ==
    ASSUME NEW u, NEW ds, Stored(ds, u), NEW data \in Seq(Byte)
    PROVE  LET new == Put(ds, data)
           IN /\ Stored(new, u) /\ new # NoStore
              /\ \A bytes \in Seq(Byte) :
                    Holds(ds, u, bytes) /\ EndsWith(ds, u, bytes) =>
                        /\ Holds(new, u, bytes \o data)
                        /\ Len(data) % u = 0 => EndsWith(new, u, bytes \o data)
<1> DEFINE new == Put(ds, data)
           c == ds.chunks
           len == Len(data)
           m == ds.num_units
           at == u * m
           cap == Capacity(ds)
           free == cap - at
           more == NewChunks(ds, len)
           size == cap + ChunkSize * more
           x(i) == IF i \in at + 1 .. at + len THEN data[i - at]
                   ELSE IF i \in DOMAIN c THEN c[i] ELSE {}
           q == [i \in 1 .. size |-> x(i)]
<1>1. /\ u \in Nat \ {0} /\ m \in Nat /\ c \in Seq(Byte) /\ ds.unitsize = u
      /\ ds = [unitsize |-> u, num_units |-> m, chunks |-> c]
      /\ m * u <= Len(c)
  BY DEF Stored
<1>2. ChunkSize \in Nat \ {0} /\ len \in Nat /\ Len(c) \in Nat /\ DOMAIN c = 1 .. Len(c)
  BY <1>1, Widths
<1>3. at \in Nat /\ m * u = at /\ at <= Len(c)
  <2> HIDE DEF m, c
  <2> QED BY <1>1
<1>4. cap \in Nat /\ Len(c) <= cap /\ cap >= 1 /\ free \in Nat
      /\ (c # <<>> => cap = Len(c)) /\ (c = <<>> => cap = ChunkSize)
  <2>1. cap = IF c = <<>> THEN ChunkSize ELSE Len(c)
    BY DEF Capacity
  <2>2. c = <<>> => Len(c) = 0
    OBVIOUS
  <2>3. c # <<>> => Len(c) # 0
    <3> HIDE DEF c
    <3> QED BY <1>1
  <2>4. CASE c = <<>>
    <3> HIDE DEF c, cap, at
    <3> QED BY <1>2, <1>3, <2>1, <2>2, <2>4
  <2>5. CASE c # <<>>
    <3>1. cap = Len(c)
      BY <2>1, <2>5
    <3> HIDE DEF c, cap, at
    <3>2. Len(c) \in Nat /\ Len(c) # 0
      BY <1>2, <2>3, <2>5
    <3> QED BY <1>3, <2>5, <3>1, <3>2
  <2> QED BY <2>4, <2>5
<1>5. /\ more \in Nat /\ size \in Nat /\ at + len <= size
      /\ size - ChunkSize <= at + len \/ size = cap
  <2>1. more = IF len <= free THEN 0 ELSE ((len - free) + ChunkSize - 1) \div ChunkSize
    BY <1>1 DEF NewChunks, BytesFree
  <2> HIDE DEF at, cap, len, more
  <2>2. CASE len <= free
    <3>1. more = 0 /\ ChunkSize * more = 0
      BY <1>2, <2>1, <2>2
    <3> QED BY <1>2, <1>3, <1>4, <2>2, <3>1
  <2>3. CASE ~(len <= free)
    <3> DEFINE over == len - free
    <3>1. over \in Nat
      BY <1>2, <1>3, <1>4, <2>3
    <3> HIDE DEF over
    <3>2. /\ more \in Nat /\ over <= more * ChunkSize
          /\ more * ChunkSize < over + ChunkSize /\ more * ChunkSize \in Nat
      <4>1. more = (over + ChunkSize - 1) \div ChunkSize
        BY <2>1, <2>3 DEF over
      <4> QED BY <1>2, <3>1, <4>1, DivUp
    <3> DEFINE z == more * ChunkSize
    <3>3. size = cap + z /\ z \in Nat /\ over <= z /\ z < over + ChunkSize
      <4>1. ChunkSize * more = more * ChunkSize
        BY <1>2, <3>2
      <4> QED BY <3>2, <4>1
    <3> HIDE DEF z
    <3> QED BY <1>2, <1>3, <1>4, <3>2, <3>3 DEF over
  <2> QED BY <2>2, <2>3
<1>6. /\ new = [ds EXCEPT !.num_units = m + len \div u, !.chunks = q]
      /\ new.unitsize = u /\ new.num_units = m + len \div u /\ new.chunks = q
  <2>1. new = [ds EXCEPT !.num_units = m + len \div u, !.chunks = q]
    BY <1>1 DEF Put
  <2>2. {"unitsize", "num_units", "chunks"} \subseteq DOMAIN ds
    BY DEF Stored
  <2> DEFINE d == len \div u
  <2> HIDE DEF q, m, d, new
  <2>3. new = [ds EXCEPT !.num_units = m + d, !.chunks = q]
    BY <2>1 DEF d
  <2>4. new.unitsize = ds.unitsize /\ new.num_units = m + d /\ new.chunks = q
    BY <2>2, <2>3
  <2> QED BY <1>1, <2>1, <2>4 DEF d
<1>7. q \in Seq(Byte) /\ Len(q) = size
  <2>1. ASSUME NEW i \in 1 .. size PROVE x(i) \in Byte
    <3>1. CASE i \in at + 1 .. at + len
      <4>1. i - at \in 1 .. len /\ x(i) = data[i - at]
        <5> HIDE DEF at, len
        <5> QED BY <1>2, <1>3, <3>1
      <4> QED BY <4>1
    <3>2. CASE i \notin at + 1 .. at + len /\ i \in DOMAIN c
      <4>1. x(i) = c[i]
        BY <3>2
      <4> HIDE DEF x, c
      <4> QED BY <1>1, <3>2, <4>1
    <3>3. CASE i \notin at + 1 .. at + len /\ i \notin DOMAIN c
      BY <3>3 DEF Byte
    <3> QED BY <3>1, <3>2, <3>3
  <2> HIDE DEF x, size
  <2>2. q \in [1 .. size -> Byte]
    BY <2>1
  <2> QED BY <1>5, <2>2
<1>8. /\ len \div u \in Nat /\ len % u \in 0 .. u - 1
      /\ (len \div u) * u \in 0 .. len
  BY <1>1, <1>2, Division
<1>9. (m + len \div u) * u <= size /\ m + len \div u \in Nat
  <2> DEFINE d == len \div u
             z == d * u
  <2>1. d \in Nat /\ z \in 0 .. len /\ (m + d) * u = m * u + z
    <3> HIDE DEF m, len
    <3> QED BY <1>1, <1>8, Multiples
  <2> HIDE DEF d, z, size, at, m, len
  <2>2. (m + d) * u <= size /\ m + d \in Nat
    <3>1. (m + d) * u = at + z /\ z \in 0 .. len
      BY <1>3, <2>1
    <3> DEFINE p == (m + d) * u
    <3> HIDE DEF p
    <3>2. p <= size
      BY <1>2, <1>3, <1>5, <3>1 DEF p
    <3> QED BY <1>1, <2>1, <3>2 DEF p
  <2> QED BY <2>2 DEF d
<1>10. Stored(new, u)
  <2> DEFINE d == m + len \div u
  <2>1. d \in Nat /\ d * u <= size
    BY <1>9
  <2>2. new = [ds EXCEPT !.num_units = d, !.chunks = q] /\ new.num_units = d
        /\ new.chunks = q
    BY <1>6
  <2> HIDE DEF m, len, q, new, d
  <2>3. new \in [unitsize : {u}, num_units : Nat, chunks : Seq(Byte)]
    BY <1>7, <2>1, <2>2 DEF Stored
  <2> QED BY <1>1, <1>7, <2>1, <2>2, <2>3 DEF Stored
<1>11. new # NoStore
  <2>1. new.unitsize = u /\ NoStore.unitsize = 0
    BY <1>6 DEF NoStore
  <2> HIDE DEF new
  <2> QED BY <1>1, <2>1
<1>12. ASSUME NEW bytes \in Seq(Byte), Holds(ds, u, bytes), EndsWith(ds, u, bytes)
       PROVE  /\ Holds(new, u, bytes \o data)
              /\ len % u = 0 => EndsWith(new, u, bytes \o data)
  <2> DEFINE b == Len(bytes)
             all == bytes \o data
  <2>1. /\ b \in Nat /\ Len(all) = b + len /\ all \in Seq(Byte)
        /\ \A i \in 1 .. b : all[i] = bytes[i]
        /\ \A i \in b + 1 .. b + len : all[i] = data[i - b]
    OBVIOUS
  <2>2. /\ m = b \div u /\ b <= Len(c) /\ \A i \in 1 .. b : c[i] = bytes[i]
        /\ b % u = 0 /\ cap - ChunkSize <= b
    BY <1>12 DEF Holds, EndsWith
  <2>3. at = b
    <3> HIDE DEF m, b, c
    <3>1. b = (b \div u) * u + (b % u)
      BY <1>1, <2>1, Division
    <3>2. b = m * u + 0
      BY <2>2, <3>1
    <3>3. m * u \in Int
      BY <1>3
    <3>4. b = m * u
      BY <3>2, <3>3
    <3> QED BY <1>3, <3>4
  <2>4. (b + len) \div u = m + len \div u /\ (b + len) % u = len % u
    <3> HIDE DEF m, b, len, at
    <3>1. (m * u + len) \div u = m + len \div u /\ (m * u + len) % u = len % u
      BY <1>1, <1>2, DividedSum
    <3> QED BY <1>3, <2>3, <3>1
  <2>5. ASSUME NEW i \in 1 .. b + len PROVE q[i] = all[i]
    <3>1. i \in 1 .. size /\ q[i] = x(i)
      <4>1. i \in 1 .. size
        <5> HIDE DEF size, b, len, at
        <5> QED BY <1>2, <1>5, <2>1, <2>3
      <4> HIDE DEF x, size
      <4> QED BY <4>1
    <3>2. CASE i <= b
      <4>1. i \in 1 .. b /\ i \in DOMAIN c /\ i \notin at + 1 .. at + len
        <5> HIDE DEF b, at, len, c
        <5> QED BY <1>2, <2>1, <2>2, <2>3, <3>2
      <4>2. x(i) = c[i]
        BY <4>1
      <4>3. c[i] = bytes[i] /\ all[i] = bytes[i]
        <5> HIDE DEF c, b, all
        <5> QED BY <2>1, <2>2, <4>1
      <4> HIDE DEF x, q, c, all
      <4> QED BY <3>1, <4>2, <4>3
    <3>3. CASE ~(i <= b)
      <4>1. i \in b + 1 .. b + len /\ i \in at + 1 .. at + len
        <5> HIDE DEF b, at, len
        <5> QED BY <1>2, <2>1, <2>3, <3>3
      <4>2. x(i) = data[i - b]
        <5> HIDE DEF b, len
        <5> QED BY <2>3, <4>1
      <4>3. all[i] = data[i - b]
        <5>1. i \in b + 1 .. b + len
          BY <4>1
        <5> QED BY <5>1
      <4> HIDE DEF x, q, all
      <4> QED BY <3>1, <4>2, <4>3
    <3> QED BY <3>2, <3>3
  <2>6. b + len <= size
    <3> HIDE DEF size, b, len, at
    <3> QED BY <1>5, <2>3
  <2>7. Holds(new, u, all)
    <3> HIDE DEF q, all, m, len, size, b
    <3> QED BY <1>6, <1>7, <2>1, <2>4, <2>5, <2>6 DEF Holds
  <2>8. ASSUME len % u = 0 PROVE EndsWith(new, u, all)
    <3>1. size - ChunkSize <= b + len
      <4> HIDE DEF size, b, len, at, cap
      <4> QED BY <1>2, <1>4, <1>5, <2>1, <2>2, <2>3
    <3>2. q # <<>>
      <4>1. size >= cap
        <5> DEFINE z == ChunkSize * more
        <5>1. z \in Nat
          <6> HIDE DEF more
          <6> QED BY <1>2, <1>5
        <5>2. size = cap + z
          OBVIOUS
        <5> HIDE DEF z, cap, size
        <5> QED BY <1>4, <5>1, <5>2
      <4> HIDE DEF size, cap, q
      <4> QED BY <1>4, <1>5, <1>7, <4>1
    <3>3. Capacity(new) = size
      <4> HIDE DEF q, m, len, size
      <4> QED BY <1>6, <1>7, <3>2 DEF Capacity
    <3>4. Len(all) % u = 0
      BY <2>1, <2>4, <2>8
    <3> HIDE DEF all, new, size, b, len
    <3> QED BY <2>1, <3>1, <3>3, <3>4 DEF EndsWith
  <2> QED BY <2>7, <2>8
<1> HIDE DEF new
<1> QED BY <1>10, <1>11, <1>12 DEF new

\* Samples of the probes in the list.
OfProbes(samples) ==
    \A i \in 1 .. Len(samples) : samples[i] \subseteq 0 .. Len(logic_probelist) - 1

\* A packet is left aside, or the samples of it are passed on.
Leaves(bytes) ==
    /\ UNCHANGED <<o, store, received_samples, given, torn>>
    /\ pc' = "crashed" \/ (pc' = "feed" /\ (bytes = <<>> \/ Ignored))

Passes(bytes, out, garbage) ==
    /\ pc' = "feed" /\ bytes # <<>> /\ ~Ignored /\ ~Overruns(bytes, out)
    /\ PassOn(out, garbage)
    /\ received_samples' = received_samples + Len(bytes) \div in_unitsize
    /\ /\ cmd.limit = 0 \/ received_samples' < cmd.limit
       /\ Len(bytes) % in_unitsize = 0
       => Len(out) % unitsize = 0
    /\ cmd.limit = 0 /\ FewProbes =>
          Words(out, unitsize) = Selected(Words(bytes, in_unitsize))
    /\ FewProbes => OfProbes(Words(out, unitsize))

\* A packet is ignored, or overruns, or its samples are passed on.
LEMMA LogicIs ==
    ASSUME Inv, pc = "feed", source # "scope", NEW bytes \in Seq(Byte),
           NEW garbage \in Garbage(in_unitsize), Logic(bytes, garbage)
    PROVE  /\ fed' = fed + Len(bytes) /\ ragged' = (ragged \/ (fed % in_unitsize) # 0)
           /\ Leaves(bytes) \/ \E out \in Seq(Byte) : Passes(bytes, out, garbage)
<1> DEFINE n == Len(bytes) \div in_unitsize
           f == Filtered(bytes, garbage)
           out == Cut(f, n)
           L == cmd.limit
           r == received_samples
<1>1. fed' = fed + Len(bytes) /\ ragged' = (ragged \/ (fed % in_unitsize) # 0)
  BY DEF Logic
<1>2. CASE bytes = <<>> \/ Ignored
  <2>1. UNCHANGED <<pc, o, store, received_samples, given, torn>>
    BY <1>2 DEF Logic
  <2>2. Leaves(bytes)
    BY <1>2, <2>1 DEF Leaves
  <2> QED BY <1>1, <2>2
<1>3. CASE ~(bytes = <<>> \/ Ignored) /\ Overruns(bytes, out)
  <2>1. pc' = "crashed" /\ UNCHANGED <<o, store, received_samples, given, torn>>
    BY <1>3 DEF Logic
  <2>2. Leaves(bytes)
    BY <2>1 DEF Leaves
  <2> QED BY <1>1, <2>2
<1>4. CASE ~(bytes = <<>> \/ Ignored) /\ ~Overruns(bytes, out)
  <2>1. \/ PassOn(out, garbage) /\ received_samples' = received_samples + n /\ pc' = pc
        \/ pc' = "crashed" /\ UNCHANGED <<o, store, received_samples, given, torn>>
    BY <1>4 DEF Logic
  <2>2. CASE pc' = "crashed" /\ UNCHANGED <<o, store, received_samples, given, torn>>
    BY <1>1, <2>2 DEF Leaves
  <2>3. CASE PassOn(out, garbage) /\ received_samples' = received_samples + n /\ pc' = pc
    <3>1. /\ TypeInv /\ DevInv /\ ListInv /\ Fed
      BY DEF Inv, Fed
    <3>2. /\ f \in Seq(Byte) /\ n \in Nat /\ Len(f) >= n
          /\ Len(bytes) % in_unitsize = 0 => Len(f) % unitsize = 0
          /\ FewProbes => Words(f, unitsize) = Selected(Words(bytes, in_unitsize))
      BY <3>1, FilterIs
    <3>3. in_unitsize \in Nat \ {0} /\ unitsize \in Nat \ {0}
      BY <3>1, ListNow
    <3>4. L \in Nat /\ r \in Nat
      BY <3>1, CmdIs DEF TypeInv
    <3>10. FewProbes => OfProbes(Words(f, unitsize))
      <4> DEFINE w == Words(bytes, in_unitsize)
                 x == Selected(w)
      <4>1. Len(w) \in Nat /\ DOMAIN w = 1 .. Len(w)
        <5>1. w \in Seq(WordOf(in_unitsize))
          BY <3>3, WordsType
        <5> QED BY <5>1
      <4>2. logic_probelist \in Seq(1 .. Len(dev.probes))
        BY <3>1 DEF TypeInv
      <4> HIDE DEF w
      <4>3. Len(x) = Len(w) /\ \A i \in 1 .. Len(w) : x[i] \subseteq 0 .. Len(logic_probelist) - 1
        BY <4>1, <4>2 DEF Selected
      <4>4. FewProbes => Words(f, unitsize) = x
        BY <3>2 DEF w
      <4> HIDE DEF x, f
      <4> QED BY <4>3, <4>4 DEF OfProbes
    <3> DEFINE z == L * in_unitsize
    <3>5. z \in Nat /\ L <= z
      <4>1. 1 * L <= in_unitsize * L
        <5>1. in_unitsize >= 1 /\ in_unitsize \in Int /\ 1 \in Int
          BY <3>3
        <5> HIDE DEF L
        <5> QED BY <3>4, <5>1, Multiples
      <4>2. 1 * L = L /\ in_unitsize * L = z /\ z \in Nat
        <5> HIDE DEF L
        <5> QED BY <3>3, <3>4
      <4> QED BY <4>1, <4>2
    <3>6. out = IF L # 0 /\ r + n > z THEN SubSeq(f, 1, z - r) ELSE f
      BY DEF Cut
    <3>7. L = 0 \/ r < L
      BY <1>4, <3>4 DEF Ignored, LimitReached
    <3> HIDE DEF n, f, out, L, r, z
    <3>8. CASE L # 0 /\ r + n > z
      <4>1. z - r \in 0 .. Len(f)
        <5>1. Len(f) \in Nat
          BY <3>2
        <5> QED BY <3>2, <3>4, <3>5, <3>7, <3>8, <5>1
      <4>2. out \in Seq(Byte)
        BY <3>2, <3>6, <3>8, <4>1
      <4>3. ~(L = 0 \/ r + n < L)
        BY <3>2, <3>4, <3>5, <3>8
      <4>5. FewProbes => OfProbes(Words(out, unitsize))
        <5> DEFINE m == z - r
                   first == Words(SubSeq(f, 1, m), unitsize)
        <5>1. /\ Len(first) <= Len(Words(f, unitsize))
              /\ \A i \in 1 .. Len(first) : first[i] = Words(f, unitsize)[i]
          <6> HIDE DEF m
          <6>1. m \in 0 .. Len(f)
            BY <4>1 DEF m
          <6> QED BY <3>2, <3>3, <6>1, WordsFirst
        <5>2. out = SubSeq(f, 1, m)
          BY <3>6, <3>8
        <5>3. Len(first) \in Nat /\ Len(Words(f, unitsize)) \in Nat
          <6> HIDE DEF first
          <6>1. first = Words(out, unitsize)
            BY <5>2 DEF first
          <6> QED BY <3>2, <3>3, <4>2, <6>1, WordsType
        <5> HIDE DEF m
        <5>4. first = Words(out, unitsize)
          BY <5>2
        <5> HIDE DEF first
        <5> QED BY <3>10, <5>1, <5>3, <5>4 DEF OfProbes
      <4>4. Passes(bytes, out, garbage)
        BY <1>4, <2>3, <3>8, <4>3, <4>5 DEF Passes, L, r, n
      <4> QED BY <1>1, <4>2, <4>4
    <3>9. CASE ~(L # 0 /\ r + n > z)
      <4>1. out = f
        BY <3>6, <3>9
      <4>2. Passes(bytes, out, garbage)
        BY <1>4, <2>3, <3>2, <3>10, <4>1 DEF Passes, n
      <4> QED BY <1>1, <3>2, <4>1, <4>2
    <3> QED BY <3>8, <3>9
  <2> QED BY <2>1, <2>2, <2>3
<1> QED BY <1>2, <1>3, <1>4

\* A function on the numbers up to one is a sequence.
LEMMA AsSeq ==
    ASSUME NEW S, NEW n \in Nat, NEW f \in [1 .. n -> S]
    PROVE  f \in Seq(S) /\ Len(f) = n
OBVIOUS

\* What becomes of each element of two sequences, one after the other.
Mapped(F, s) == [i \in DOMAIN s |-> F[s[i]]]

\* A sequence is mapped part by part.
LEMMA MappedConcat ==
    ASSUME NEW S, NEW F, NEW x \in Seq(S), NEW y \in Seq(S)
    PROVE  Mapped(F, x \o y) = Mapped(F, x) \o Mapped(F, y)
<1> DEFINE T == {F[s] : s \in S}
           n == Len(x)
           m == Len(y)
           p == Mapped(F, x)
           q == Mapped(F, y)
           r == Mapped(F, x \o y)
<1>1. /\ n \in Nat /\ m \in Nat /\ DOMAIN x = 1 .. n /\ DOMAIN y = 1 .. m
      /\ x \o y \in Seq(S) /\ DOMAIN (x \o y) = 1 .. n + m
      /\ \A i \in 1 .. n : x[i] \in S /\ (x \o y)[i] = x[i]
      /\ \A i \in 1 .. m : y[i] \in S
      /\ \A i \in 1 .. n + m : (x \o y)[i] \in S /\ (i > n => (x \o y)[i] = y[i - n])
  OBVIOUS
<1>2. /\ p \in [1 .. n -> T] /\ \A i \in 1 .. n : p[i] = F[x[i]]
      /\ q \in [1 .. m -> T] /\ \A i \in 1 .. m : q[i] = F[y[i]]
      /\ r \in [1 .. n + m -> T] /\ \A i \in 1 .. n + m : r[i] = F[(x \o y)[i]]
  <2> HIDE DEF n, m
  <2> QED BY <1>1 DEF Mapped
<1> HIDE DEF n, m, p, q, r, T
<1>3. /\ p \in Seq(T) /\ Len(p) = n /\ q \in Seq(T) /\ Len(q) = m
      /\ r \in Seq(T) /\ Len(r) = n + m
  <2>1. n + m \in Nat
    BY <1>1
  <2> QED BY <1>1, <1>2, <2>1, AsSeq
<1>4. /\ p \o q \in Seq(T) /\ Len(p \o q) = n + m
      /\ \A i \in 1 .. n + m : (p \o q)[i] = IF i <= n THEN p[i] ELSE q[i - n]
  <2>1. p \in Seq(T) /\ q \in Seq(T)
    BY <1>3
  <2>2. /\ p \o q \in Seq(T) /\ Len(p \o q) = Len(p) + Len(q)
        /\ \A i \in 1 .. Len(p) + Len(q) :
              (p \o q)[i] = IF i <= Len(p) THEN p[i] ELSE q[i - Len(p)]
    BY ONLY <2>1, ConcatProperties
  <2> QED BY <1>3, <2>2
<1>5. ASSUME NEW i \in 1 .. n + m PROVE (p \o q)[i] = r[i]
  <2>1. r[i] = F[(x \o y)[i]]
    BY <1>2
  <2>2. CASE i <= n
    <3>1. i \in 1 .. n /\ (x \o y)[i] = x[i]
      BY <1>1, <2>2
    <3>2. (p \o q)[i] = p[i]
      BY <1>4, <2>2
    <3> QED BY <1>2, <2>1, <3>1, <3>2
  <2>3. CASE ~(i <= n)
    <3>1. i - n \in 1 .. m /\ (x \o y)[i] = y[i - n]
      BY <1>1, <2>3
    <3>2. (p \o q)[i] = q[i - n]
      BY <1>4, <2>3
    <3>3. q[i - n] = F[y[i - n]]
      BY <1>2, <3>1
    <3> QED BY <2>1, <3>1, <3>2, <3>3
  <2> QED BY <2>2, <2>3
<1>6. p \o q = r
  <2>1. /\ p \o q \in Seq(T) /\ r \in Seq(T) /\ Len(p \o q) = Len(r)
        /\ \A i \in 1 .. Len(p \o q) : (p \o q)[i] = r[i]
    BY <1>3, <1>4, <1>5
  <2> QED BY <2>1, SeqEqual
<1> QED BY <1>6 DEF p, q, r

\* The bytes of a raw format follow one another.
LEMMA MoreItems ==
    ASSUME NEW a \in Seq(Byte), NEW b \in Seq(Byte)
    PROVE  ByteItems(a) \o ByteItems(b) = ByteItems(a \o b)
<1> DEFINE F == [c \in Byte |-> [kind |-> "byte", byte |-> c]]
<1>2. ASSUME NEW s \in Seq(Byte) PROVE ByteItems(s) = Mapped(F, s)
  BY DEF ByteItems, Mapped
<1>3. a \o b \in Seq(Byte)
  OBVIOUS
<1> HIDE DEF F
<1>4. Mapped(F, a \o b) = Mapped(F, a) \o Mapped(F, b)
  <2>1. a \in Seq(Byte) /\ b \in Seq(Byte)
    OBVIOUS
  <2> QED BY ONLY <2>1, MappedConcat
<1> QED BY <1>2, <1>3, <1>4

\* When the samples are whole after a packet that begins with one, it holds
\* whole samples.
LEMMA WholePacket ==
    ASSUME NEW a \in Nat \ {0}, NEW x \in Nat, NEW y \in Nat, x % a = 0
    PROVE  (x + y) % a = y % a
<1>1. x = (x \div a) * a + (x % a) /\ x \div a \in Nat
  BY Division
<1>2. ((x \div a) * a + y) % a = y % a /\ (x \div a) * a \in Nat
  BY <1>1, DividedSum
<1>3. x = (x \div a) * a
  BY <1>1, <1>2
<1> QED BY <1>2, <1>3

\* Samples after samples, and what is selected of them.
LEMMA SelectMore ==
    ASSUME NEW S, NEW x \in Seq(S), NEW y \in Seq(S)
    PROVE  Selected(x \o y) = Selected(x) \o Selected(y)
<1> DEFINE Sel(s) == {b - 1 : b \in {b \in DOMAIN logic_probelist :
                                        logic_probelist[b] - 1 \in s}}
           F == [s \in S |-> Sel(s)]
<1>2. ASSUME NEW s \in Seq(S) PROVE Selected(s) = Mapped(F, s)
  <2>1. Selected(s) = [i \in DOMAIN s |-> Sel(s[i])]
    BY DEF Selected
  <2> HIDE DEF Sel
  <2>2. \A i \in DOMAIN s : F[s[i]] = Sel(s[i])
    OBVIOUS
  <2> HIDE DEF F
  <2> QED BY <2>1, <2>2 DEF Mapped
<1>3. x \o y \in Seq(S)
  OBVIOUS
<1> HIDE DEF F
<1>4. Mapped(F, x \o y) = Mapped(F, x) \o Mapped(F, y)
  <2>1. x \in Seq(S) /\ y \in Seq(S)
    OBVIOUS
  <2> QED BY ONLY <2>1, MappedConcat
<1> QED BY <1>2, <1>3, <1>4

\* A packet that is not passed on changes nothing else, and no invariant.
LEMMA LogicKeeps ==
    ASSUME Inv, pc = "feed", source # "scope", NEW bytes \in Seq(Byte),
           NEW garbage \in Garbage(in_unitsize), Logic(bytes, garbage), pos' \in Nat,
           UNCHANGED <<plan, k, file, origin, inputVars, logic_probelist, unitsize,
                       triggered, marked, labels>>
    PROVE  /\ TypeInv' /\ Fresh' /\ DevInv' /\ ListInv' /\ SessionInv' /\ FileInv'
           /\ WholeInv' /\ StoreInv' /\ RawInv'
           /\ fed' = fed + Len(bytes) /\ pc' \in {"feed", "crashed"}
           /\ pc' = "feed" /\ FewProbes /\ ~ragged' /\ cmd.limit = 0 /\ ~cmd.wait =>
                 /\ ~ragged /\ fed % in_unitsize = 0
                 /\ Passed' = Passed \o Selected(Words(bytes, in_unitsize))
<1> USE DEF Inv, inputVars
<1> DEFINE a == in_unitsize
           u == unitsize
           g == given[k]
<1>1. /\ cmd' = cmd /\ Format' = Format /\ Saving' = Saving
      /\ file' = file /\ origin' = origin /\ source' = source /\ dev' = dev /\ k' = k
      /\ in_unitsize' = a /\ unitsize' = u /\ logic_probelist' = logic_probelist
  BY SameCmd
<1>2. /\ fed' = fed + Len(bytes) /\ ragged' = (ragged \/ (fed % a) # 0)
      /\ Leaves(bytes) \/ \E out \in Seq(Byte) : Passes(bytes, out, garbage)
  <2> HIDE DEF Inv, a
  <2> QED BY LogicIs DEF a
<1>3. /\ a \in Nat \ {0} /\ u \in Nat \ {0} /\ fed \in Nat /\ Len(bytes) \in Nat
      /\ received_samples \in Nat /\ cmd.limit \in Nat /\ g \in Seq(Byte)
  <2>1. in_unitsize \in Nat \ {0} /\ unitsize \in Nat \ {0}
    <3>1. TypeInv /\ DevInv /\ ListInv /\ Fed
      BY DEF Fed
    <3> QED BY <3>1, ListNow
  <2>2. cmd.limit \in Nat /\ given[k] \in Seq(Byte)
    BY CmdIs
  <2>3. fed \in Nat /\ received_samples \in Nat
    BY DEF TypeInv
  <2>4. Len(bytes) \in Nat
    OBVIOUS
  <2> QED BY <2>1, <2>2, <2>3, <2>4
<1>4. pc' \in {"feed", "crashed"}
  BY <1>2 DEF Leaves, Passes
<1>5. ~ragged' => ~ragged /\ fed % a = 0 /\ fed' % a = Len(bytes) % a
  <2>1. fed % a = 0 => (fed + Len(bytes)) % a = Len(bytes) % a
    <3> HIDE DEF a
    <3> QED BY <1>3, WholePacket
  <2>2. ragged \in BOOLEAN
    BY DEF TypeInv
  <2> QED BY <1>2, <2>1, <2>2
<1>6. \A c \in DOMAIN plan : c # k => given'[c] = given[c]
  BY <1>2 DEF Leaves, Passes, PassOn, TypeInv
<1>7. given' \in [DOMAIN plan -> Seq(Byte)] /\ received_samples' \in Nat
      /\ torn' \in BOOLEAN
  <2>0. /\ given \in [DOMAIN plan -> Seq(Byte)] /\ received_samples \in Nat
        /\ torn \in BOOLEAN
        /\ k \in DOMAIN plan
    BY DEF TypeInv
  <2>1. CASE Leaves(bytes)
    <3>1. given' = given /\ received_samples' = received_samples /\ torn' = torn
      BY <2>1 DEF Leaves
    <3> QED BY <2>0, <3>1
  <2>2. ASSUME NEW out \in Seq(Byte), Passes(bytes, out, garbage)
        PROVE  given' \in [DOMAIN plan -> Seq(Byte)] /\ received_samples' \in Nat
               /\ torn' \in BOOLEAN
    <3>1. /\ given' = [given EXCEPT ![k] = @ \o out]
          /\ torn' = (torn \/ (Format = "hex" /\ o.off # 0))
          /\ received_samples' = received_samples + Len(bytes) \div a
      BY <2>2 DEF Passes, PassOn
    <3>2. g \o out \in Seq(Byte)
      <4>1. g \in Seq(Byte) /\ out \in Seq(Byte)
        BY <1>3
      <4> HIDE DEF g
      <4> QED BY ONLY <4>1
    <3>3. Len(bytes) \div a \in Nat
      BY <1>3, Division
    <3>4. received_samples' \in Nat
      BY <1>3, <3>1, <3>3
    <3>5. given' \in [DOMAIN plan -> Seq(Byte)]
      <4>1. given' = [given EXCEPT ![k] = g \o out]
        BY <3>1
      <4> HIDE DEF g
      <4> QED BY <2>0, <3>2, <4>1
    <3> QED BY <3>1, <3>4, <3>5
  <2> QED BY <1>2, <2>1, <2>2
<1>8. TypeInv'
  <2>1. fed' \in Nat /\ ragged' \in BOOLEAN
    BY <1>2, <1>3
  <2> QED BY <1>1, <1>4, <1>7, <2>1 DEF TypeInv
<1>9. Fresh'
  <2>1. \A c \in DOMAIN plan : c > k => given'[c] = <<>>
    <3>1. ASSUME NEW c \in DOMAIN plan, c > k PROVE given'[c] = <<>>
      <4>1. c # k
        <5>1. k \in 1 .. Len(plan) /\ Len(plan) \in Nat /\ DOMAIN plan = 1 .. Len(plan)
          BY CmdIs
        <5> QED BY <3>1, <5>1
      <4>2. given[c] = <<>>
        BY <3>1 DEF Fresh
      <4> QED BY <1>6, <4>1, <4>2
    <3> QED BY <3>1
  <2> QED BY <1>1, <1>4, <2>1 DEF Fresh
<1>10. DevInv' /\ ListInv' /\ SessionInv'
  BY <1>1, <1>4 DEF DevInv, ListInv, SessionInv, Running, Fed
<1>11. FileInv'
  <2>1. origin # 0 => origin \in DOMAIN plan /\ origin # k
    <3>1. origin \in 0 .. k /\ origin < k /\ k \in 1 .. Len(plan) /\ Len(plan) \in Nat
          /\ DOMAIN plan = 1 .. Len(plan)
      BY CmdIs DEF TypeInv
    <3> QED BY ONLY <3>1
  <2>2. origin # 0 => given'[origin] = given[origin]
    BY <1>6, <2>1
  <2> QED BY <1>1, <2>2 DEF FileInv
<1>12. CASE Leaves(bytes)
  <2>1. UNCHANGED <<o, store, received_samples, given, torn>>
    BY <1>12 DEF Leaves
  <2>2. /\ LimitReached' = LimitReached /\ g' = g
        /\ (pc' = "feed" /\ ~cmd.wait => bytes = <<>> \/ LimitReached)
    BY <1>1, <1>12, <2>1 DEF LimitReached, Leaves, Ignored
  <2>3. ~ragged' /\ Whole' => ~ragged /\ Whole
    <3>1. ~ragged' => ~ragged /\ fed % a = 0
      BY <1>5
    <3> QED BY <2>2, <3>1 DEF Whole
  <2>4. WholeInv'
    BY <1>1, <1>4, <2>2, <2>3 DEF WholeInv, Fed
  <2>5. StoreInv'
    <3>1. store' = store /\ Fed
      BY <2>1 DEF Fed
    <3>2. ~ragged' => ~ragged
      BY <1>5
    <3> QED BY <1>1, <2>2, <2>3, <3>1, <3>2 DEF StoreInv, Fed
  <2>6. RawInv'
    BY <1>1, <1>4, <2>1, <2>2 DEF RawInv, Fed
  <2>7. ASSUME pc' = "feed", ~ragged', cmd.limit = 0, ~cmd.wait
        PROVE  /\ ~ragged /\ fed % a = 0
               /\ Passed' = Passed \o Selected(Words(bytes, a))
    <3>1. bytes = <<>>
      BY <2>2, <2>7 DEF LimitReached
    <3>2. Words(bytes, a) = <<>>
      <4> HIDE DEF a
      <4> QED BY <1>3, <3>1, Nothing
    <3>3. Selected(Words(bytes, a)) = <<>>
      <4>1. DOMAIN <<>> = {}
        OBVIOUS
      <4> QED BY <3>2, <4>1 DEF Selected
    <3>4. Passed' = Passed
      BY <1>1, <2>2 DEF Passed
    <3>5. Passed \in Seq(WordOf(u))
      <4> HIDE DEF g, u
      <4>1. Words(g, u) \in Seq(WordOf(u))
        BY <1>3, WordsType
      <4> QED BY <4>1 DEF g, u, Passed
    <3>6. Passed \o <<>> = Passed
      BY <3>5
    <3> QED BY <1>5, <2>7, <3>3, <3>4, <3>6
  <2> QED BY <1>2, <1>4, <1>8, <1>9, <1>10, <1>11, <2>4, <2>5, <2>6, <2>7
<1>13. ASSUME NEW out \in Seq(Byte), Passes(bytes, out, garbage)
       PROVE  /\ WholeInv' /\ StoreInv' /\ RawInv'
              /\ FewProbes /\ ~ragged' /\ cmd.limit = 0 =>
                    /\ ~ragged /\ fed % a = 0
                    /\ Passed' = Passed \o Selected(Words(bytes, a))
  <2>1. /\ pc' = "feed" /\ ~LimitReached /\ PassOn(out, garbage)
        /\ received_samples' = received_samples + Len(bytes) \div a
        /\ /\ cmd.limit = 0 \/ received_samples' < cmd.limit
           /\ Len(bytes) % a = 0
           => Len(out) % u = 0
        /\ cmd.limit = 0 /\ FewProbes => Words(out, u) = Selected(Words(bytes, a))
    BY <1>13 DEF Passes, Ignored
  <2>2. (given[k])' = g \o out /\ g \o out \in Seq(Byte)
    <3>1. given' = [given EXCEPT ![k] = g \o out] /\ k \in DOMAIN given
      BY <2>1 DEF PassOn, TypeInv
    <3>2. (given[k])' = g \o out
      BY <1>1, <3>1
    <3> QED BY <1>3, <3>2
  <2>3. ASSUME ~ragged'
        PROVE  ~ragged /\ Whole /\ Len(g) % u = 0
    BY <1>5, <2>1, <2>3 DEF Whole, WholeInv, Fed
  <2>4. ASSUME ~ragged', Whole'
        PROVE  Len(out) % u = 0
    <3>1. Len(bytes) % a = 0
      BY <1>1, <1>5, <2>4 DEF Whole
    <3>2. cmd.limit = 0 \/ received_samples' < cmd.limit
      BY <1>1, <1>3, <1>7, <2>4 DEF Whole, LimitReached
    <3> QED BY <2>1, <3>1, <3>2
  <2>5. ASSUME Len(g) % u = 0
        PROVE  /\ Words(g \o out, u) = Words(g, u) \o Words(out, u)
               /\ (Len(g) + Len(out)) % u = Len(out) % u
    <3> HIDE DEF g, u
    <3> QED BY <1>3, <2>5, WordsConcat
  <2>6. Len(g \o out) = Len(g) + Len(out)
    BY <1>3
  <2>7. WholeInv'
    <3>1. ASSUME ~ragged', Whole'
          PROVE  Len(g \o out) % u = 0
      <4> HIDE DEF g, u
      <4> QED BY <2>3, <2>4, <2>5, <2>6, <3>1
    <3>2. ~ragged' /\ Whole' => (Len(given[k]) % unitsize = 0)'
      <4> HIDE DEF g
      <4> QED BY <1>1, <2>2, <3>1
    <3> QED BY <3>2 DEF WholeInv
  <2>8. StoreInv'
    <3>1. CASE ~Saving
      <4>1. store' = store /\ store = NoStore
        BY <2>1, <3>1 DEF PassOn, StoreInv
      <4> QED BY <1>1, <3>1, <4>1 DEF StoreInv
    <3>2. CASE Saving
      <4>1. /\ store' = Put(store, out) /\ store # NoStore
            /\ Stored(store, u) /\ a # 0
            /\ ~ragged => /\ Holds(store, u, g)
                          /\ Whole => EndsWith(store, u, g)
        BY <2>1, <3>2 DEF PassOn, StoreInv, Fed
      <4>2. /\ Stored(store', u) /\ store' # NoStore
            /\ Holds(store, u, g) /\ EndsWith(store, u, g) =>
                  /\ Holds(store', u, g \o out)
                  /\ Len(out) % u = 0 => EndsWith(store', u, g \o out)
        <5> HIDE DEF u, g
        <5> QED BY <1>3, <4>1, PutHolds
      <4>3. ASSUME ~ragged'
            PROVE  /\ Holds(store', u, g \o out)
                   /\ Whole' => EndsWith(store', u, g \o out)
        <5>0. ~ragged /\ Whole
          BY <2>3, <4>3
        <5>1. Holds(store, u, g) /\ EndsWith(store, u, g)
          BY <4>1, <5>0
        <5> QED BY <2>4, <4>2, <4>3, <5>1
      <4>4. /\ Stored(store, unitsize)' /\ (in_unitsize # 0)'
            /\ ~ragged' => /\ Holds(store, unitsize, given[k])'
                           /\ Whole' => EndsWith(store, unitsize, given[k])'
        <5>1. Stored(store, unitsize)' /\ (in_unitsize # 0)'
          BY <1>1, <4>1, <4>2
        <5>2. ASSUME ~ragged'
              PROVE  /\ Holds(store, unitsize, given[k])'
                     /\ Whole' => EndsWith(store, unitsize, given[k])'
          <6>1. Holds(store', u, g \o out) /\ (Whole' => EndsWith(store', u, g \o out))
            BY <4>3, <5>2
          <6> HIDE DEF g
          <6> QED BY <1>1, <2>2, <6>1
        <5> QED BY <5>1, <5>2
      <4> QED BY <1>1, <3>2, <4>2, <4>4 DEF StoreInv
    <3> QED BY <3>1, <3>2
  <2>9. RawInv'
    <3>1. SUFFICES ASSUME Format \in Raw PROVE RawInv'
      BY <1>1 DEF RawInv
    <3>2. ~Saving /\ Format # "float"
      BY <3>1 DEF Saving, Format, Raw
    <3>3. {"format", "out"} \subseteq DOMAIN o /\ o.format = Format
          /\ o.out = ByteItems(g)
      BY <3>1 DEF RawInv, Fed
    <3>4. o' = [o EXCEPT !.out = @ \o ByteItems(out)]
      BY <2>1, <3>1, <3>2, <3>3 DEF PassOn, Data, Emit
    <3>5. ByteItems(g) \o ByteItems(out) = ByteItems(g \o out)
      <4> HIDE DEF g
      <4> QED BY <1>3, MoreItems
    <3> HIDE DEF g
    <3>6. /\ {"format", "out"} \subseteq DOMAIN o' /\ o'.format = Format
          /\ o'.out = ByteItems(g \o out)
      BY <3>3, <3>4, <3>5
    <3> QED BY <1>1, <2>1, <2>2, <3>6 DEF RawInv, Fed
  <2>10. ASSUME FewProbes, ~ragged', cmd.limit = 0
         PROVE  Passed' = Passed \o Selected(Words(bytes, a))
    <3>1. Passed' = Words(g \o out, u) /\ Passed = Words(g, u)
      BY <1>1, <2>2 DEF Passed
    <3> QED BY <2>1, <2>3, <2>5, <2>10, <3>1
  <2>11. ragged \in BOOLEAN /\ ragged' \in BOOLEAN
    BY <1>8 DEF TypeInv
  <2> QED BY <2>3, <2>7, <2>8, <2>9, <2>10, <2>11, <1>5
<1> QED BY <1>2, <1>4, <1>8, <1>9, <1>10, <1>11, <1>12, <1>13

-----------------------------------------------------------------------------
(* Every step keeps it: the inputs *)

\* The lesser of two numbers.
LEMMA MinOf ==
    ASSUME NEW x \in Int, NEW y \in Int
    PROVE  Min({x, y}) = IF x <= y THEN x ELSE y
BY DEF Min

\* The next bytes of the file, if there are any.
LEMMA ChunkIs ==
    ASSUME TypeInv, FileInv, NEW size \in Nat
    PROVE  LET len == Len(file.data)
               from == IF pos <= len THEN pos ELSE len
               to == IF pos + size <= len THEN pos + size ELSE len
           IN /\ Chunk(size) \in Seq(Byte) /\ len \in Nat
              /\ from \in 0 .. len /\ to \in from .. len
              /\ Len(Chunk(size)) = to - from
              /\ SubSeq(file.data, 1, to) = SubSeq(file.data, 1, from) \o Chunk(size)
<1> DEFINE d == file.data
           len == Len(d)
           from == IF pos <= len THEN pos ELSE len
           to == IF pos + size <= len THEN pos + size ELSE len
           c == Chunk(size)
<1>1. d \in Seq(Byte) /\ len \in Nat /\ pos \in Nat
  <2>1. d \in Seq(Byte)
    BY DEF FileInv
  <2>2. pos \in Nat
    BY DEF TypeInv
  <2> QED BY <2>1, <2>2
<1> HIDE DEF d
<1>2. c = SubSeq(d, pos + 1, to)
  <2>1. Min({pos + size, len}) = to
    <3> HIDE DEF len
    <3> QED BY <1>1, MinOf
  <2> HIDE DEF to
  <2> QED BY <2>1 DEF Chunk, d
<1>3. from \in 0 .. len /\ to \in from .. len /\ to \in 0 .. len
  <2> HIDE DEF len
  <2> QED BY <1>1
<1>4. c \in Seq(Byte) /\ Len(c) = to - from
      /\ \A i \in 1 .. to - from : c[i] = d[from + i]
  <2>1. CASE pos <= len
    <3>1. from = pos
      BY <2>1
    <3> HIDE DEF len, from, to, c
    <3>2. pos + 1 \in 1 .. len + 1 /\ to \in pos .. len
      BY <1>1, <1>3, <3>1
    <3>3. /\ SubSeq(d, pos + 1, to) \in Seq(Byte)
          /\ Len(SubSeq(d, pos + 1, to)) = to - pos
          /\ \A i \in 1 .. to - pos : SubSeq(d, pos + 1, to)[i] = d[pos + i]
      BY <1>1, <1>3, <3>2 DEF len
    <3> QED BY <1>2, <3>1, <3>3
  <2>2. CASE ~(pos <= len)
    <3>1. from = len /\ to = len /\ pos + 1 > to
      <4> HIDE DEF len
      <4> QED BY <1>1, <2>2
    <3>2. c = <<>>
      <4>1. to \in Nat /\ to < pos + 1
        <5> HIDE DEF from, to, len
        <5> QED BY <1>1, <3>1
      <4> HIDE DEF from, to, len, c
      <4> QED BY <1>1, <1>2, <4>1
    <3>3. to - from = 0
      <4> HIDE DEF from, to, len
      <4> QED BY <1>1, <3>1
    <3> HIDE DEF from, to, c
    <3> QED BY <3>2, <3>3
  <2> QED BY <2>1, <2>2
<1> HIDE DEF from, to, c, len
<1>5. SubSeq(d, 1, to) = SubSeq(d, 1, from) \o c
  <2> DEFINE x == SubSeq(d, 1, from)
             y == SubSeq(d, 1, to)
  <2>1. /\ x \in Seq(Byte) /\ Len(x) = from /\ \A i \in 1 .. from : x[i] = d[i]
        /\ y \in Seq(Byte) /\ Len(y) = to /\ \A i \in 1 .. to : y[i] = d[i]
    BY <1>1, <1>3 DEF len
  <2> HIDE DEF x, y
  <2>2. x \in Seq(Byte) /\ c \in Seq(Byte)
    BY <1>4, <2>1
  <2>3. /\ x \o c \in Seq(Byte) /\ Len(x \o c) = Len(x) + Len(c)
        /\ \A i \in 1 .. Len(x) + Len(c) :
              (x \o c)[i] = IF i <= Len(x) THEN x[i] ELSE c[i - Len(x)]
    BY ONLY <2>2, ConcatProperties
  <2>4. from \in Nat /\ to \in Nat /\ Len(x) + Len(c) = to /\ from <= to
    BY <1>1, <1>3, <1>4, <2>1
  <2>5. ASSUME NEW i \in 1 .. to PROVE (x \o c)[i] = y[i]
    <3>1. CASE i <= from
      <4>1. i \in 1 .. from
        BY <2>4, <3>1
      <4> QED BY <2>1, <2>3, <2>4, <3>1, <4>1
    <3>2. CASE ~(i <= from)
      <4>1. i - from \in 1 .. to - from /\ from + (i - from) = i
        BY <2>4, <3>2
      <4>2. c[i - from] = d[i]
        BY <1>4, <4>1
      <4> QED BY <2>1, <2>3, <2>4, <3>2, <4>2
    <3> QED BY <3>1, <3>2
  <2>6. x \o c = y
    <3>1. /\ x \o c \in Seq(Byte) /\ y \in Seq(Byte) /\ Len(x \o c) = Len(y)
          /\ \A i \in 1 .. Len(x \o c) : (x \o c)[i] = y[i]
      BY <2>1, <2>3, <2>4, <2>5
    <3> QED BY ONLY <3>1, SeqEqual
  <2> QED BY <2>6 DEF x, y
<1> QED BY <1>1, <1>3, <1>4, <1>5 DEF d, len, from, to, c

\* The samples passed on go on to be those read.
LEMMA ReadMore ==
    ASSUME NEW a \in Nat \ {0}, NEW s \in Seq(Byte), NEW c \in Seq(Byte), Len(s) % a = 0
    PROVE  Selected(Words(s \o c, a)) = Selected(Words(s, a)) \o Selected(Words(c, a))
<1>1. Words(s \o c, a) = Words(s, a) \o Words(c, a)
  BY WordsConcat
<1>2. Words(s, a) \in Seq(WordOf(a)) /\ Words(c, a) \in Seq(WordOf(a))
  BY WordsType
<1> QED BY <1>1, <1>2, SelectMore

\* What is read from a file, chunk by chunk, is what has been passed on.
LEMMA ReadKeeps ==
    ASSUME Inv, ReadChunk \/ ReadLa8
    PROVE  Inv'
<1> USE DEF Inv, inputVars
<1> DEFINE a == in_unitsize
           d == file.data
           len == Len(d)
           size == IF source = "chronovu-la8" THEN La8PacketSize ELSE ChunkSize
           c == Chunk(size)
           from == IF pos <= len THEN pos ELSE len
           to == IF pos + size <= len THEN pos + size ELSE len
<1>1. /\ pc = "feed" /\ source \in {"session", "binary", "chronovu-la8"}
      /\ UNCHANGED <<plan, k, file, origin, inputVars, logic_probelist, unitsize,
                     triggered, marked, labels>>
      /\ \E garbage \in Garbage(in_unitsize) : Logic(c, garbage)
      /\ IF source = "chronovu-la8"
         THEN pos' = pos + La8PacketSize /\ pos < La8Packets * La8PacketSize
         ELSE pos' = pos + Len(c) /\ pos < len
  BY DEF ReadChunk, ReadLa8
<1>2. PICK garbage \in Garbage(in_unitsize) : Logic(c, garbage)
  BY <1>1
<1>3. size \in Nat \ {0} /\ La8PacketSize \in Nat \ {0} /\ La8Packets \in Nat \ {0}
  BY Sizes, Widths
<1>4. /\ c \in Seq(Byte) /\ len \in Nat /\ from \in 0 .. len /\ to \in from .. len
      /\ Len(c) = to - from /\ SubSeq(d, 1, to) = SubSeq(d, 1, from) \o c
      /\ d \in Seq(Byte) /\ pos \in Nat
  <2>1. d \in Seq(Byte) /\ pos \in Nat
    BY DEF FileInv, TypeInv
  <2> HIDE DEF size
  <2> QED BY <1>3, <2>1, ChunkIs
<1>5. pos' \in Nat
  <2> HIDE DEF size, from, to, c
  <2> QED BY <1>1, <1>3, <1>4
<1>6. /\ TypeInv' /\ Fresh' /\ DevInv' /\ ListInv' /\ SessionInv' /\ FileInv'
      /\ WholeInv' /\ StoreInv' /\ RawInv'
      /\ fed' = fed + Len(c) /\ pc' \in {"feed", "crashed"}
      /\ pc' = "feed" /\ FewProbes /\ ~ragged' /\ cmd.limit = 0 /\ ~cmd.wait =>
            /\ ~ragged /\ fed % a = 0
            /\ Passed' = Passed \o Selected(Words(c, a))
  <2> HIDE DEF Inv, c
  <2>1. source # "scope" /\ c \in Seq(Byte)
    BY <1>1, <1>4
  <2> QED BY <1>1, <1>2, <1>5, <2>1, LogicKeeps
<1>7. fed = from /\ fed' = to
  <2>1. fed = from
    <3>1. CASE source = "chronovu-la8"
      BY <1>1, <3>1 DEF ReadInv, Fed
    <3>2. CASE source # "chronovu-la8"
      <4>1. fed = pos /\ pos < len
        BY <1>1, <3>2 DEF ReadInv, Fed
      <4> HIDE DEF len
      <4> QED BY <1>4, <4>1
    <3> QED BY <3>1, <3>2
  <2> HIDE DEF from, to, c, len
  <2> QED BY <1>4, <1>6, <2>1
<1>8. cmd' = cmd /\ file' = file /\ source' = source /\ in_unitsize' = a
  BY <1>1, SameCmd
<1>9. fed' \in 0 .. len
  <2> HIDE DEF from, to, len
  <2> QED BY <1>4, <1>7
<1>10. ASSUME source = "chronovu-la8"
       PROVE  \E j \in 0 .. La8Packets :
                 pos' = j * La8PacketSize
                 /\ fed' = IF pos' <= len THEN pos' ELSE len
  <2>1. PICK j \in 0 .. La8Packets : pos = j * La8PacketSize
    BY <1>1, <1>10 DEF ReadInv, Fed
  <2>2. j # La8Packets
    BY <1>1, <1>10, <2>1
  <2>3. j + 1 \in 0 .. La8Packets /\ pos' = (j + 1) * La8PacketSize
    <3>1. (j + 1) * La8PacketSize = j * La8PacketSize + La8PacketSize
      BY <1>3, <2>1, Multiples
    <3> QED BY <1>1, <1>3, <1>10, <2>1, <2>2, <3>1
  <2>4. to = IF pos' <= len THEN pos' ELSE len
    BY <1>1, <1>10
  <2> QED BY <1>7, <2>3, <2>4
<1>11. ASSUME source # "chronovu-la8" PROVE fed' = pos'
  <2>1. pos' = pos + Len(c) /\ fed = pos
    BY <1>1, <1>11 DEF ReadInv, Fed
  <2> QED BY <1>6, <2>1
<1>12. ASSUME pc' = "feed", FewProbes, ~ragged', cmd.limit = 0, ~cmd.wait
       PROVE  Passed' = Selected(Words(SubSeq(d, 1, fed'), a))
  <2>1. ~ragged /\ fed % a = 0 /\ Passed' = Passed \o Selected(Words(c, a))
    BY <1>6, <1>12
  <2>2. Passed = Selected(Words(SubSeq(d, 1, fed), a))
    BY <1>1, <1>12, <2>1 DEF ReadInv, Fed
  <2> DEFINE s == SubSeq(d, 1, fed)
  <2>3. s \in Seq(Byte) /\ Len(s) = fed
    <3> HIDE DEF len, from, to
    <3>1. fed \in 0 .. len
      BY <1>4, <1>7
    <3> HIDE DEF d
    <3> QED BY <1>4, <3>1 DEF len
  <2>4. a \in Nat \ {0}
    BY <1>1, ListNow DEF Fed
  <2>5. Selected(Words(s \o c, a)) = Selected(Words(s, a)) \o Selected(Words(c, a))
    <3> HIDE DEF s, c, a
    <3> QED BY <1>4, <2>1, <2>3, <2>4, ReadMore
  <2>6. SubSeq(d, 1, fed') = s \o c
    BY <1>4, <1>7
  <2> QED BY <2>1, <2>2, <2>5, <2>6
<1>13. Selected(Words(SubSeq(file.data, 1, fed), in_unitsize))'
       = Selected(Words(SubSeq(d, 1, fed'), a))
  <2>1. logic_probelist' = logic_probelist
    BY <1>1
  <2> QED BY <1>8, <2>1 DEF Selected
<1>14. ReadInv'
  <2> HIDE DEF len, from, to, c, size
  <2>1. fed' <= Len(file.data)' /\ pc' # "ended" /\ Len(file.data)' = len
    BY <1>4, <1>6, <1>8, <1>9 DEF len
  <2>2. Fed' => pc' = "feed"
    BY <1>6 DEF Fed
  <2> QED BY <1>8, <1>10, <1>11, <1>12, <1>13, <2>1, <2>2 DEF ReadInv
<1> QED BY <1>6, <1>14

\* What a device sends is of bytes.
LEMMA SentIs ==
    ASSUME Inv, NEW n \in 1 .. MaxPacket, pos + n <= Len(Signal)
    PROVE  ToBytes(SubSeq(Signal, pos + 1, pos + n), DevUnitsize) \in Seq(Byte)
<1> DEFINE s == SubSeq(Signal, pos + 1, pos + n)
<1>1. pos \in Nat /\ DevUnitsize \in Nat \ {0} /\ Signal \in Seq(WordOf(DevUnitsize))
      /\ n \in Nat
  <2>1. pos \in Nat
    BY DEF Inv, TypeInv
  <2>2. DevUnitsize \in Nat \ {0} /\ Signal \in Seq(WordOf(DevUnitsize))
        /\ MaxPacket \in Nat
    BY Sizes
  <2> QED BY <2>1, <2>2
<1>2. s \in [1 .. n -> WordOf(DevUnitsize)]
  <2>1. pos + 1 \in 1 .. Len(Signal) + 1 /\ pos + n \in pos .. Len(Signal)
    BY <1>1
  <2>2. s = [i \in 1 .. n |-> Signal[pos + i]]
        /\ \A i \in 1 .. n : Signal[pos + i] \in WordOf(DevUnitsize)
    BY <1>1, <2>1
  <2> HIDE DEF s
  <2> QED BY <2>2
<1> HIDE DEF s
<1>3. ToBytes(s, DevUnitsize) \in Seq(Byte)
  BY <1>1, <1>2, ToBytesType
<1> QED BY <1>3 DEF s

\* The packets of a device keep the invariant, however it cuts them,
LEMMA DeviceSendsKeeps ==
    ASSUME Inv, DeviceSends
    PROVE  Inv'
<1>1. PICK n \in 1 .. MaxPacket, garbage \in Garbage(in_unitsize) :
         /\ pos + n <= Len(Signal)
         /\ Logic(ToBytes(SubSeq(Signal, pos + 1, pos + n), DevUnitsize), garbage)
         /\ pos' = pos + n
  BY DEF DeviceSends
<1>2. /\ pc = "feed" /\ source = "device"
      /\ UNCHANGED <<plan, k, file, origin, inputVars, logic_probelist, unitsize,
                     triggered, marked, labels>>
  BY DEF DeviceSends
<1> DEFINE bytes == ToBytes(SubSeq(Signal, pos + 1, pos + n), DevUnitsize)
<1>3. pos \in Nat /\ n \in Nat
  <2>1. pos \in Nat
    BY DEF Inv, TypeInv
  <2>2. MaxPacket \in Nat
    BY Sizes
  <2> QED BY <2>1, <2>2
<1>4. bytes \in Seq(Byte)
  BY <1>1, SentIs
<1>5. pos' \in Nat /\ source # "scope"
  BY <1>1, <1>2, <1>3
<1>6. /\ TypeInv' /\ Fresh' /\ DevInv' /\ ListInv' /\ SessionInv' /\ FileInv'
      /\ WholeInv' /\ StoreInv' /\ RawInv'
  <2> HIDE DEF bytes
  <2>1. Logic(bytes, garbage)
    BY <1>1 DEF bytes
  <2> QED BY <1>2, <1>4, <1>5, <2>1, LogicKeeps
<1>7. ReadInv'
  BY <1>2 DEF ReadInv, inputVars
<1> QED BY <1>6, <1>7 DEF Inv

\* The trigger moves the mark of the text formats.
LEMMA DeviceTriggersKeeps ==
    ASSUME Inv, DeviceTriggers
    PROVE  Inv'
<1> USE DEF Inv, inputVars
<1>1. /\ pc = "feed" /\ source = "device" /\ triggered' = TRUE /\ o' = Event(o, "trigger")
      /\ marked' = Len(given[k]) \div unitsize
      /\ UNCHANGED <<plan, k, pc, file, origin, inputVars, pos, store, logic_probelist,
                     unitsize, received_samples, fed, given, ragged, torn, labels>>
  BY DEF DeviceTriggers
<1>2. cmd' = cmd /\ Format' = Format /\ Saving' = Saving /\ LimitReached' = LimitReached
  BY <1>1, SameCmd DEF LimitReached
<1>3. marked' \in Int
  <2>1. unitsize \in Nat \ {0}
    BY <1>1, ListNow DEF Fed
  <2>2. given[k] \in Seq(Byte)
    BY CmdIs
  <2> DEFINE n == Len(given[k])
  <2>3. n \in Nat
    BY <2>2
  <2> HIDE DEF n
  <2>4. n \div unitsize \in Nat
    BY <2>1, <2>3, Division
  <2> QED BY <1>1, <2>4 DEF n
<1>4. TypeInv'
  BY <1>1, <1>3 DEF TypeInv
<1>5. Fresh'
  BY <1>1 DEF Fresh
<1>6. DevInv' /\ ListInv' /\ SessionInv' /\ FileInv'
  BY <1>1 DEF DevInv, ListInv, SessionInv, FileInv, Running, Fed
<1>7. Whole' = Whole
  BY <1>1, <1>2 DEF Whole
<1>8. WholeInv' /\ StoreInv'
  BY <1>1, <1>2, <1>7 DEF WholeInv, StoreInv, Fed
<1>9. ReadInv'
  BY <1>1 DEF ReadInv
<1>10. RawInv'
  <2>1. ASSUME Format \in Raw PROVE o' = o
    <3>1. o.format = Format
      BY <1>1, <2>1 DEF RawInv, Fed
    <3> QED BY <1>1, <2>1, <3>1 DEF Event, Raw, Text, La8Event
  <2> QED BY <1>1, <1>2, <2>1 DEF RawInv, Fed
<1> QED BY <1>4, <1>5, <1>6, <1>8, <1>9, <1>10

\* and so do those of an oscilloscope, which have no samples for a datastore.
LEMMA ScopeSendsKeeps ==
    ASSUME Inv, ScopeSends
    PROVE  Inv'
<1> USE DEF Inv, inputVars
<1>1. PICK m \in 1 .. MaxPacket : pos + m <= Len(Signal) /\ pos' = pos + m /\ Analog(m)
  BY DEF ScopeSends
<1>2. /\ pc = "feed" /\ source = "scope"
      /\ UNCHANGED <<plan, k, pc, file, origin, inputVars, store, logic_probelist,
                     unitsize, triggered, given, marked, ragged, torn, labels>>
  BY DEF ScopeSends
<1>3. cmd' = cmd /\ Format' = Format /\ Saving' = Saving
  BY <1>2, SameCmd
<1>4. m \in Nat /\ pos' \in Nat /\ fed' \in Nat /\ received_samples' \in Nat
  <2>1. MaxPacket \in Nat
    BY Sizes
  <2>2. pos \in Nat /\ fed \in Nat /\ received_samples \in Nat
    BY DEF TypeInv
  <2>3. fed' = fed + m /\ received_samples' \in {received_samples, received_samples + m}
    BY <1>1 DEF Analog
  <2> QED BY <1>1, <2>1, <2>2, <2>3
<1>5. TypeInv'
  BY <1>2, <1>4 DEF TypeInv
<1>6. Fresh'
  BY <1>2 DEF Fresh
<1>7. DevInv' /\ ListInv' /\ SessionInv' /\ FileInv'
  BY <1>2 DEF DevInv, ListInv, SessionInv, FileInv, Running, Fed
<1>8. store = NoStore /\ ~Saving
  BY <1>2 DEF StoreInv, Fed
<1>9. WholeInv' /\ StoreInv' /\ ReadInv'
  BY <1>2, <1>3, <1>8 DEF WholeInv, StoreInv, ReadInv
<1>10. RawInv'
  <2>1. ASSUME Format \in Raw PROVE o' = o
    <3>1. o.format = Format
      BY <1>2, <2>1 DEF RawInv, Fed
    <3>2. Event(o, "frame-begin") = o /\ Event(o, "frame-end") = o
      BY <2>1, <3>1 DEF Event, Raw, Text, La8Event
    <3>3. Format # "float"
      BY <2>1 DEF Raw
    <3> QED BY <1>1, <3>2, <3>3 DEF Analog
  <2> QED BY <1>2, <1>3, <2>1 DEF RawInv, Fed
<1> QED BY <1>5, <1>6, <1>7, <1>9, <1>10

-----------------------------------------------------------------------------
(* Every step keeps it: the end *)

\* The trailer of an LA8 file is of bytes.
LEMMA TrailType == La8Trail \in Seq(Byte)
<1>1. {} \in Byte /\ {0} \in Byte
  <2>1. 0 \in 0 .. ByteBits - 1
    BY Widths
  <2> QED BY <2>1 DEF Byte
<1>2. <<{0}, {}, {}, {}, {}>> \in Seq(Byte)
  BY <1>1
<1> QED BY <1>2 DEF La8Trail

\* At the end of the feed the file of an LA8 has its trailer.
LEMMA EndOfFeedKeeps ==
    ASSUME Inv, EndOfFeed
    PROVE  Inv'
<1> USE DEF Inv, inputVars, feedVars, history
<1>1. /\ pc = "feed" /\ AtEnd /\ pc' = "ended" /\ o' = Event(o, "end")
      /\ UNCHANGED <<plan, k, file, origin, inputVars, pos, store, feedVars, history,
                     labels>>
  BY DEF EndOfFeed
<1>2. cmd' = cmd /\ Format' = Format /\ Saving' = Saving /\ LimitReached' = LimitReached
  BY <1>1, SameCmd DEF LimitReached
<1>3. TypeInv' /\ Fresh'
  BY <1>1 DEF TypeInv, Fresh
<1>4. DevInv' /\ ListInv' /\ SessionInv' /\ FileInv'
  BY <1>1 DEF DevInv, ListInv, SessionInv, FileInv, Running, Fed
<1>5. Whole' = Whole /\ Fed /\ Fed'
  BY <1>1, <1>2 DEF Whole, Fed
<1>6. WholeInv' /\ StoreInv'
  BY <1>1, <1>2, <1>5 DEF WholeInv, StoreInv
<1>7. AtEnd' /\ Passed' = Passed
      /\ Selected(Words(SubSeq(file.data, 1, fed), in_unitsize))'
         = Selected(Words(SubSeq(file.data, 1, fed), in_unitsize))
  BY <1>1 DEF AtEnd, Passed, Selected
<1>8. ReadInv'
  BY <1>1, <1>2, <1>5, <1>7 DEF ReadInv
<1>9. RawInv'
  <2>1. SUFFICES ASSUME Format \in Raw PROVE RawInv'
    BY <1>2 DEF RawInv
  <2> DEFINE g == given[k]
  <2>2. {"format", "out"} \subseteq DOMAIN o /\ o.format = Format /\ o.out = ByteItems(g)
    BY <1>1, <2>1 DEF RawInv, Fed
  <2>3. g \in Seq(Byte)
    BY CmdIs
  <2>4. CASE Format = "binary"
    <3>1. o' = o
      BY <1>1, <2>2, <2>4 DEF Event, Text
    <3> QED BY <1>1, <1>2, <2>2, <2>4, <3>1 DEF RawInv, Fed
  <2>5. CASE Format = "chronovu-la8"
    <3>1. o' = [[o EXCEPT !.out = @ \o ByteItems(La8Trail)] EXCEPT !.open = FALSE]
      BY <1>1, <2>2, <2>5 DEF Event, Text, La8Event, La8Trail, Closed, Emit
    <3>2. ByteItems(g) \o ByteItems(La8Trail) = ByteItems(g \o La8Trail)
      <4> HIDE DEF g
      <4> QED BY <2>3, TrailType, MoreItems
    <3> HIDE DEF g
    <3>3. /\ {"format", "out"} \subseteq DOMAIN o' /\ o'.format = Format
          /\ o'.out = ByteItems(g \o La8Trail)
      BY <2>2, <3>1, <3>2
    <3>4. (given[k])' = g /\ La8Trail' = La8Trail
      BY <1>1 DEF g, La8Trail
    <3> QED BY <1>1, <1>2, <2>5, <3>3, <3>4 DEF RawInv, Fed
  <2> QED BY <2>1, <2>4, <2>5 DEF Raw
<1> QED BY <1>3, <1>4, <1>6, <1>8, <1>9

\* What sr_session_save() dumps: the bytes of the whole units.
LEMMA ContentsIs ==
    ASSUME NEW u, NEW ds, Stored(ds, u), NEW bytes \in Seq(Byte), Holds(ds, u, bytes)
    PROVE  /\ Contents(ds) = SubSeq(bytes, 1, (Len(bytes) \div u) * u)
           /\ Words(Contents(ds), u) = Words(bytes, u)
           /\ Contents(ds) = ToBytes(Words(bytes, u), u)
<1> DEFINE c == ds.chunks
           n == Len(bytes)
           m == (n \div u) * u
<1>1. u \in Nat \ {0} /\ c \in Seq(Byte) /\ ds.unitsize = u /\ ds.num_units * u <= Len(c)
  BY DEF Stored
<1>2. /\ ds.num_units = n \div u /\ n <= Len(c) /\ n \in Nat /\ Len(c) \in Nat
      /\ \A i \in 1 .. n : c[i] = bytes[i]
  BY <1>1 DEF Holds
<1>3. m \in 0 .. n
  <2> HIDE DEF n
  <2> QED BY <1>1, <1>2, Division
<1>4. Contents(ds) = SubSeq(c, 1, m)
  BY <1>1, <1>2 DEF Contents
<1>5. SubSeq(c, 1, m) = SubSeq(bytes, 1, m)
  <2> DEFINE x == SubSeq(c, 1, m)
             y == SubSeq(bytes, 1, m)
  <2> HIDE DEF m, c
  <2>1. m \in 0 .. Len(c) /\ m \in 0 .. Len(bytes)
    BY <1>2, <1>3
  <2>2. /\ x \in Seq(Byte) /\ Len(x) = m /\ \A i \in 1 .. m : x[i] = c[i]
        /\ y \in Seq(Byte) /\ Len(y) = m /\ \A i \in 1 .. m : y[i] = bytes[i]
    BY <1>1, <2>1
  <2> HIDE DEF x, y
  <2>3. \A i \in 1 .. Len(x) : x[i] = y[i]
    BY <1>2, <1>3, <2>2
  <2>4. x \in Seq(Byte) /\ y \in Seq(Byte) /\ Len(x) = Len(y)
    BY <2>2
  <2>5. x = y
    BY ONLY <2>3, <2>4, SeqEqual
  <2> QED BY <2>5 DEF x, y
<1> HIDE DEF m, c
<1>6. Contents(ds) = SubSeq(bytes, 1, m)
  BY <1>4, <1>5
<1> QED BY <1>1, <1>6, WordsWhole, BytesOfWords DEF m

\* The labels are those of the probes in the list.
LEMMA LabelsIs ==
    ASSUME NEW probes, NEW size, Roomy(probes, size)
    PROVE  /\ Len(Labels(probes)) = Len(PlacesOf(Len(probes), Chosen(probes)))
           /\ Labels(probes) = [i \in 1 .. Len(Labels(probes)) |->
                                   [name |-> Labels(probes)[i].name,
                                    trigger |-> Labels(probes)[i].trigger]]
<1> DEFINE S == {probes[i] : i \in DOMAIN probes}
           e == EnabledOf(probes)
           n == Len(PlacesOf(Len(probes), Chosen(probes)))
           l == Labels(probes)
<1>1. probes \in Seq(S)
  BY DEF Roomy, ProbesOf
<1>2. e = Kept(probes, Chosen(probes))
  BY DEF EnabledOf, Chosen
<1> HIDE DEF S, e
<1>3. e \in Seq(S) /\ Len(e) = n
  BY <1>1, <1>2, KeptAt
<1>4. l = [i \in 1 .. n |-> [name |-> e[i].name, trigger |-> e[i].trigger]]
  <2>1. DOMAIN e = 1 .. n
    BY <1>3
  <2> QED BY <2>1 DEF Labels, e
<1>5. n \in Nat
  BY <1>3
<1> HIDE DEF n, l
<1>6. Len(l) = n
  BY <1>4, <1>5
<1>7. \A i \in 1 .. n : l[i].name = e[i].name /\ l[i].trigger = e[i].trigger
  BY <1>4
<1>8. l = [i \in 1 .. n |-> [name |-> l[i].name, trigger |-> l[i].trigger]]
  BY <1>4, <1>7
<1> QED BY <1>6, <1>8 DEF n, l

\* The labels of a session loaded are those saved.
LEMMA LoadedLabels ==
    ASSUME SessionInv, file.kind = "session"
    PROVE  Labels(Loaded(file)) = file.probes
<1> DEFINE f == file
           n == f.total
           m == Len(f.probes)
           s == Loaded(f)
           S == {s[i] : i \in 1 .. n}
           P == {i \in DOMAIN s : s[i].enabled}
<1>1. /\ n \in Nat /\ m \in 1 .. n /\ DOMAIN f.probes = 1 .. m
      /\ f.probes = [i \in 1 .. m |-> [name |-> f.probes[i].name,
                                       trigger |-> f.probes[i].trigger]]
  <2>1. /\ n \in Nat /\ m \in 1 .. n
        /\ f.probes = [i \in 1 .. m |-> [name |-> f.probes[i].name,
                                         trigger |-> f.probes[i].trigger]]
    BY DEF SessionInv
  <2> HIDE DEF f, n, m
  <2> QED BY <2>1
<1> HIDE DEF m
<1>2. s = [i \in 1 .. n |->
              IF i \in 1 .. m THEN Probe(f.probes[i].name, f.probes[i].trigger)
              ELSE [Numbered(n)[i] EXCEPT !.enabled = FALSE]]
  BY <1>1 DEF Loaded
<1>3. \A i \in 1 .. n : i \in 1 .. m =>
         s[i] = Probe(f.probes[i].name, f.probes[i].trigger)
  <2> HIDE DEF s, n
  <2> QED BY <1>2
<1>4. \A i \in 1 .. n : i \notin 1 .. m =>
         s[i] = [Probe(ToString(i - 1), "") EXCEPT !.enabled = FALSE]
  <2> HIDE DEF s, n
  <2>1. \A i \in 1 .. n : Numbered(n)[i] = Probe(ToString(i - 1), "")
    BY DEF Numbered
  <2> QED BY <1>2, <2>1
<1>5. \A i \in 1 .. n : i \in P <=> i <= m
  <2>1. DOMAIN s = 1 .. n
    BY <1>2
  <2>2. ASSUME NEW i \in 1 .. n, i \in 1 .. m PROVE s[i].enabled = TRUE
    <3> HIDE DEF s, n, m, f
    <3>1. s[i] = Probe(f.probes[i].name, f.probes[i].trigger)
      BY <1>3, <2>2
    <3> QED BY <3>1 DEF Probe
  <2>3. ASSUME NEW i \in 1 .. n, i \notin 1 .. m PROVE s[i].enabled = FALSE
    <3> HIDE DEF s
    <3> QED BY <1>4, <2>3 DEF Probe
  <2> HIDE DEF s, n
  <2>4. \A i \in 1 .. n : i \in 1 .. m <=> i <= m
    BY <1>1
  <2> QED BY <2>1, <2>2, <2>3, <2>4
<1>6. s \in Seq(S) /\ Len(s) = n
  <2>1. s \in [1 .. n -> S]
    <3>1. s = [i \in 1 .. n |-> s[i]]
      BY <1>2
    <3> HIDE DEF s, n
    <3> QED BY <3>1
  <2> HIDE DEF s, S, n
  <2> QED BY <1>1, <2>1
<1>7. EnabledOf(s) = SubSeq(s, 1, m)
  <2> HIDE DEF s, n, S, P
  <2>1. m \in 0 .. Len(s)
    BY <1>1, <1>6
  <2>2. Kept(s, P) = SubSeq(s, 1, m)
    BY <1>5, <1>6, <2>1, KeptFirst
  <2> QED BY <2>2 DEF EnabledOf, P
<1>8. /\ DOMAIN SubSeq(s, 1, m) = 1 .. m
      /\ \A i \in 1 .. m : SubSeq(s, 1, m)[i] = s[i]
  <2> HIDE DEF s, n, S
  <2> QED BY <1>1, <1>6
<1>9. \A i \in 1 .. m : SubSeq(s, 1, m)[i] = Probe(f.probes[i].name, f.probes[i].trigger)
  <2> HIDE DEF s, n
  <2> QED BY <1>1, <1>3, <1>8
<1>10. Labels(s) = [i \in 1 .. m |-> [name |-> f.probes[i].name,
                                      trigger |-> f.probes[i].trigger]]
  <2> DEFINE w == SubSeq(s, 1, m)
  <2>1. Labels(s) = [i \in 1 .. m |-> [name |-> w[i].name, trigger |-> w[i].trigger]]
    <3> HIDE DEF s, f
    <3> QED BY <1>7, <1>8 DEF Labels
  <2> HIDE DEF s, f, w
  <2>2. ASSUME NEW i \in 1 .. m
        PROVE  w[i].name = f.probes[i].name /\ w[i].trigger = f.probes[i].trigger
    <3>1. w[i] = Probe(f.probes[i].name, f.probes[i].trigger)
      BY <1>9 DEF w
    <3> QED BY <3>1 DEF Probe
  <2> QED BY <2>1, <2>2
<1> QED BY <1>1, <1>10

\* What the raw formats write are the bytes.
LEMMA BytesOfItems ==
    ASSUME NEW bytes \in Seq(Byte)
    PROVE  BytesOf(ByteItems(bytes)) = bytes
<1> DEFINE x == ByteItems(bytes)
<1>1. x = [i \in DOMAIN bytes |-> [kind |-> "byte", byte |-> bytes[i]]]
  BY DEF ByteItems
<1>2. \A i \in DOMAIN bytes : x[i].byte = bytes[i]
  BY <1>1
<1>3. DOMAIN x = DOMAIN bytes
  BY <1>1
<1>4. bytes = [i \in DOMAIN bytes |-> bytes[i]]
  OBVIOUS
<1> HIDE DEF x
<1>5. BytesOf(x) = [i \in DOMAIN bytes |-> bytes[i]]
  BY <1>2, <1>3 DEF BytesOf
<1> QED BY <1>4, <1>5 DEF x

\* A process that ends leaves a file that holds what it passed on.
LEMMA ExitKeeps ==
    ASSUME Inv, Exit
    PROVE  Inv'
<1> USE DEF Inv, inputVars, feedVars, history
<1> DEFINE g == given[k]
           u == unitsize
           p == dev.probes
<1>1. /\ pc = "ended" /\ pc' = "left" /\ file' = Written
      /\ origin' = IF ~Writes THEN origin ELSE IF Saving /\ ragged THEN 0 ELSE k
      /\ UNCHANGED <<plan, k, inputVars, pos, o, store, feedVars, history, labels>>
  BY DEF Exit
<1>2. cmd' = cmd /\ Format' = Format /\ Saving' = Saving /\ LimitReached' = LimitReached
  BY <1>1, SameCmd DEF LimitReached
<1>3. k \in Nat \ {0} /\ origin \in 0 .. k /\ g \in Seq(Byte) /\ Format \in Formats
  <2>1. TypeInv
    OBVIOUS
  <2>2. k \in 1 .. Len(plan) /\ Len(plan) \in Nat /\ g \in Seq(Byte) /\ Format \in Formats
    BY <2>1, CmdIs
  <2>3. origin \in 0 .. k
    BY <2>1 DEF TypeInv
  <2> QED BY <2>2, <2>3
<1>4. TypeInv'
  <2>1. origin' \in 0 .. k
    BY <1>1, <1>3
  <2> QED BY <1>1, <2>1 DEF TypeInv
<1>5. Fresh' /\ DevInv' /\ ListInv' /\ WholeInv' /\ ReadInv' /\ RawInv'
  BY <1>1 DEF Fresh, DevInv, ListInv, WholeInv, ReadInv, RawInv, Running, Fed
<1>6. StoreInv'
  <2>1. Whole' = Whole
    BY <1>1, <1>2 DEF Whole
  <2> QED BY <1>1, <1>2, <2>1 DEF StoreInv, Fed
<1>7. CASE ~Writes
  <2>1. file' = file /\ origin' = origin
    <3>1. Written = file
      BY <1>7 DEF Written
    <3> QED BY <1>1, <1>7, <3>1
  <2>2. given' = given /\ labels' = labels
    BY <1>1
  <2>3. SessionInv'
    BY <2>1 DEF SessionInv
  <2>4. FileInv'
    BY <2>1, <2>2 DEF FileInv, La8Trail
  <2> QED BY <1>4, <1>5, <1>6, <2>3, <2>4
<1>8. CASE Writes /\ Saving
  <2>1. file' = Saved(p, store) /\ origin' = IF ragged THEN 0 ELSE k
    <3>1. Written = Saved(p, store)
      BY <1>8 DEF Written
    <3> QED BY <1>1, <1>8, <3>1
  <2>2. file' = [kind |-> "session", data |-> Contents(store),
                 unitsize |-> store.unitsize, total |-> Len(p), rate |-> dev.rate,
                 probes |-> Labels(p)]
    BY <2>1 DEF Saved
  <2>3. /\ source # "scope" /\ Stored(store, u)
        /\ ~ragged => Holds(store, u, g)
    BY <1>1, <1>8 DEF StoreInv, Fed
  <2>4. Roomy(p, in_unitsize) /\ labels[k] = Labels(p)
    BY <1>1, <2>3 DEF DevInv, Running
  <2>5. /\ logic_probelist = PlacesOf(Len(p), Chosen(p))
        /\ u = UnitsizeOf(Len(logic_probelist))
    BY <1>1, <2>3 DEF ListInv, Fed
  <2> DEFINE l == PlacesOf(Len(p), Chosen(p))
  <2>6. /\ l \in Seq(1 .. Len(p)) /\ Len(l) \in Nat \ {0} /\ Len(l) <= u * ByteBits
        /\ u \in Nat \ {0}
        /\ \A b \in 1 .. Len(l) : b <= l[b] /\ (FewProbes => l[b] < IntBits)
    <3> HIDE DEF p
    <3> QED BY <2>4, <2>5, ListIs
  <2>7. Len(Labels(p)) = Len(l)
        /\ Labels(p) = [i \in 1 .. Len(Labels(p)) |->
                           [name |-> Labels(p)[i].name, trigger |-> Labels(p)[i].trigger]]
    <3> HIDE DEF p
    <3> QED BY <2>4, LabelsIs
  <2>8. Len(p) \in Nat
    BY <2>4 DEF Roomy, ProbesOf
  <2>9. Len(l) \in 1 .. Len(p) /\ (FewProbes => Len(l) < IntBits)
    <3> HIDE DEF l, p
    <3>1. Len(l) \in 1 .. Len(l) /\ l[Len(l)] \in 1 .. Len(p)
      BY <2>6
    <3>2. Len(l) <= l[Len(l)] /\ (FewProbes => l[Len(l)] < IntBits) /\ l[Len(l)] \in Nat
      BY <2>6, <2>8, <3>1
    <3> QED BY <2>6, <2>8, <3>1, <3>2, Widths
  <2>10. /\ file'.kind = "session" /\ file'.data = Contents(store) /\ file'.unitsize = u
         /\ file'.total = Len(p) /\ file'.probes = Labels(p)
    <3>1. store.unitsize = u
      BY <2>3 DEF Stored
    <3> HIDE DEF p
    <3> QED BY <2>2, <3>1
  <2>11. SessionInv'
    <3> HIDE DEF p, l, u
    <3> QED BY <2>6, <2>7, <2>8, <2>9, <2>10 DEF SessionInv
  <2>12. Contents(store) \in Seq(Byte)
    <3> DEFINE c == store.chunks
               m == store.num_units * u
    <3>1. c \in Seq(Byte) /\ store.unitsize = u /\ store.num_units \in Nat
          /\ m <= Len(c)
      BY <2>3 DEF Stored
    <3>2. m \in Nat
      BY <2>6, <3>1
    <3>3. Contents(store) = SubSeq(c, 1, m)
      BY <3>1 DEF Contents
    <3> HIDE DEF c, m
    <3>4. m \in 0 .. Len(c)
      BY <3>1, <3>2
    <3> QED BY <3>1, <3>3, <3>4
  <2>13. FileInv'
    <3>1. ~ragged => Words(Contents(store), u) = Words(g, u)
      <4> HIDE DEF g, u
      <4> QED BY <1>3, <2>3, ContentsIs
    <3>2. origin' # 0 => /\ labels'[origin'] = Labels(p)
                         /\ Words(Contents(store), u) = Words(given'[origin'], u)
      BY <1>1, <2>1, <2>4, <3>1
    <3> HIDE DEF p, u
    <3> QED BY <2>10, <2>12, <3>2 DEF FileInv
  <2> QED BY <1>4, <1>5, <1>6, <2>11, <2>13
<1>9. CASE Writes /\ ~Saving /\ Format \in Raw
  <2>1. file' = RawFile(Format, BytesOf(o.out)) /\ origin' = k
    BY <1>1, <1>9 DEF Written
  <2>2. file'.kind = Format /\ file'.data = BytesOf(o.out)
    BY <2>1 DEF RawFile, NoFile
  <2> DEFINE w == IF Format = "chronovu-la8" THEN g \o La8Trail ELSE g
  <2>3. w \in Seq(Byte) /\ o.out = ByteItems(w)
    <3>1. o.out = ByteItems(w)
      BY <1>1, <1>9 DEF RawInv, Fed
    <3>2. g \o La8Trail \in Seq(Byte)
      <4>1. g \in Seq(Byte) /\ La8Trail \in Seq(Byte)
        BY <1>3, TrailType
      <4> HIDE DEF g
      <4> QED BY ONLY <4>1
    <3> QED BY <1>3, <3>1, <3>2
  <2>4. file'.data = w
    <3> HIDE DEF w
    <3> QED BY <2>2, <2>3, BytesOfItems
  <2>5. Format \in {"binary", "chronovu-la8"}
    BY <1>9 DEF Raw
  <2>6. given'[origin'] = g
    BY <1>1, <2>1
  <2>7. SessionInv'
    BY <2>2, <2>5 DEF SessionInv
  <2>8. FileInv'
    <3>1. file'.data \in Seq(Byte)
      BY <2>3, <2>4
    <3>2. file'.kind = "binary" => file'.data = g
      BY <2>2, <2>4
    <3>3. file'.kind = "chronovu-la8" => file'.data = g \o La8Trail
      BY <2>2, <2>4
    <3>4. La8Trail' = La8Trail
      BY DEF La8Trail
    <3> HIDE DEF g
    <3> QED BY <2>2, <2>5, <2>6, <3>1, <3>2, <3>3, <3>4 DEF FileInv
  <2> QED BY <1>4, <1>5, <1>6, <2>7, <2>8
<1>10. CASE Writes /\ ~Saving /\ Format \notin Raw
  <2>1. file' = RawFile("text", <<>>)
    BY <1>1, <1>10 DEF Written
  <2>2. file'.kind = "text" /\ file'.data = <<>>
    BY <2>1 DEF RawFile, NoFile
  <2>3. <<>> \in Seq(Byte)
    OBVIOUS
  <2> QED BY <1>4, <1>5, <1>6, <2>2, <2>3 DEF SessionInv, FileInv
<1> QED BY <1>7, <1>8, <1>9, <1>10

\* The next one starts afresh, and the file stays.
LEMMA NextCommandKeeps ==
    ASSUME Inv, NextCommand
    PROVE  Inv'
<1> USE DEF Inv
<1>1. /\ pc = "left" /\ k < Len(plan) /\ k' = k + 1 /\ pc' = "start"
      /\ source' = "" /\ in_unitsize' = 0 /\ pos' = 0 /\ store' = NoStore
      /\ logic_probelist' = <<>> /\ unitsize' = 0
      /\ triggered' = FALSE /\ received_samples' = 0
      /\ fed' = 0 /\ marked' = -1 /\ ragged' = FALSE /\ torn' = FALSE
      /\ plan' = plan /\ file' = file /\ origin' = origin /\ given' = given
         /\ labels' = labels
  BY DEF NextCommand
<1>2. k \in 1 .. Len(plan) /\ Len(plan) \in Nat /\ DOMAIN plan = 1 .. Len(plan)
      /\ origin \in 0 .. k
  BY CmdIs DEF TypeInv
<1>3. k' \in DOMAIN plan /\ origin \in 0 .. k' /\ origin < k' /\ k' > k
  <2> DEFINE n == Len(plan)
  <2>1. k < n /\ k' = k + 1 /\ k \in 1 .. n /\ n \in Nat /\ origin \in 0 .. k
    BY <1>1, <1>2
  <2> HIDE DEF n
  <2>2. k' \in 1 .. n /\ origin \in 0 .. k' /\ origin < k' /\ k' > k
    BY ONLY <2>1
  <2> QED BY <1>2, <2>2 DEF n
<1>4. TypeInv'
  <2>1. logic_probelist' \in Seq((1 .. Len(dev.probes))')
    <3>1. logic_probelist' = <<>>
      BY <1>1
    <3> QED BY ONLY <3>1
  <2>2. given' \in [DOMAIN plan' -> Seq(Byte)] /\ DOMAIN labels' = DOMAIN plan'
        /\ plan' \in Plans
    BY <1>1 DEF TypeInv
  <2>3. /\ k' \in DOMAIN plan' /\ origin' \in 0 .. k' /\ origin' < k'
        /\ pc' = "start" /\ source' = "" /\ in_unitsize' \in Nat /\ unitsize' \in Nat
        /\ pos' \in Nat /\ received_samples' \in Nat /\ fed' \in Nat /\ marked' \in Int
        /\ triggered' \in BOOLEAN /\ ragged' \in BOOLEAN /\ torn' \in BOOLEAN
    <3>1. /\ k' \in DOMAIN plan /\ plan' = plan /\ origin \in 0 .. k' /\ origin < k'
          /\ origin' = origin /\ pc' = "start" /\ source' = ""
          /\ in_unitsize' = 0 /\ unitsize' = 0 /\ pos' = 0 /\ received_samples' = 0
          /\ fed' = 0 /\ marked' = -1
      BY <1>1, <1>3
    <3>2. triggered' = FALSE /\ ragged' = FALSE /\ torn' = FALSE
      BY <1>1
    <3>3. -1 \in Int /\ 0 \in Nat
      OBVIOUS
    <3> QED BY ONLY <3>1, <3>2, <3>3, Zenon
  <2> QED BY <2>1, <2>2, <2>3 DEF TypeInv
<1>5. Fresh'
  <2>1. \A c \in DOMAIN plan : c > k' => given'[c] = <<>>
    <3>1. ASSUME NEW c \in DOMAIN plan, c > k' PROVE c > k
      BY <1>2, <1>3, <3>1
    <3> QED BY <1>1, <3>1 DEF Fresh
  <2>2. given'[k'] = <<>>
    BY <1>1, <1>3 DEF Fresh
  <2> QED BY <1>1, <2>1, <2>2 DEF Fresh
<1>6. DevInv' /\ ListInv' /\ WholeInv' /\ ReadInv' /\ RawInv' /\ StoreInv'
  BY <1>1 DEF DevInv, ListInv, WholeInv, ReadInv, RawInv, StoreInv, Running, Fed
<1>7. SessionInv' /\ FileInv'
  BY <1>1 DEF SessionInv, FileInv
<1> QED BY <1>4, <1>5, <1>6, <1>7

\* The first one starts with no file.
LEMMA InitInv == Init => Inv
<1> SUFFICES ASSUME Init PROVE Inv
  OBVIOUS
<1>1. /\ plan \in Plans /\ k = 1 /\ pc = "start" /\ file = NoFile /\ origin = 0
      /\ source = "" /\ in_unitsize = 0 /\ pos = 0 /\ store = NoStore
      /\ logic_probelist = <<>> /\ unitsize = 0
      /\ triggered = FALSE /\ received_samples = 0
      /\ fed = 0 /\ marked = -1 /\ ragged = FALSE /\ torn = FALSE
      /\ given = [c \in DOMAIN plan |-> <<>>] /\ labels = [c \in DOMAIN plan |-> <<>>]
  BY DEF Init
<1>2. plan \in Seq(Commands) /\ plan # <<>>
  BY <1>1, FilesAssumption
<1>3. k \in DOMAIN plan
  <2>1. Len(plan) \in Nat \ {0} /\ DOMAIN plan = 1 .. Len(plan)
    BY ONLY <1>2
  <2>2. k = 1
    BY <1>1
  <2> QED BY ONLY <2>1, <2>2
<1>4. <<>> \in Seq(Byte) /\ <<>> \in Seq(1 .. Len(dev.probes))
  BY ONLY TRUE
<1>5. given \in [DOMAIN plan -> Seq(Byte)] /\ DOMAIN labels = DOMAIN plan
      /\ \A c \in DOMAIN plan : given[c] = <<>>
  BY <1>1, <1>4
<1>6. TypeInv
  <2>1. logic_probelist \in Seq(1 .. Len(dev.probes))
    BY <1>1, <1>4
  <2>2. origin \in 0 .. k /\ origin < k
    <3>1. origin = 0 /\ k = 1
      BY <1>1
    <3> QED BY ONLY <3>1
  <2>3. /\ in_unitsize \in Nat /\ unitsize \in Nat /\ pos \in Nat
        /\ received_samples \in Nat /\ fed \in Nat /\ marked \in Int
        /\ triggered \in BOOLEAN /\ ragged \in BOOLEAN /\ torn \in BOOLEAN
    <3>1. /\ in_unitsize = 0 /\ unitsize = 0 /\ pos = 0 /\ received_samples = 0
          /\ fed = 0 /\ marked = -1
      BY <1>1
    <3>2. triggered = FALSE /\ ragged = FALSE /\ torn = FALSE
      BY <1>1
    <3>3. -1 \in Int /\ 0 \in Nat
      OBVIOUS
    <3> QED BY ONLY <3>1, <3>2, <3>3, Zenon
  <2>4. plan \in Plans /\ pc = "start" /\ source = ""
    BY <1>1
  <2> QED BY <1>3, <1>5, <2>1, <2>2, <2>3, <2>4 DEF TypeInv
<1>7. Fresh
  BY <1>1, <1>3, <1>5 DEF Fresh
<1>8. DevInv /\ ListInv /\ WholeInv /\ ReadInv /\ RawInv /\ StoreInv
  BY <1>1 DEF DevInv, ListInv, WholeInv, ReadInv, RawInv, StoreInv, Running, Fed
<1>9. file.kind = "none" /\ file.data = <<>>
  BY <1>1 DEF NoFile
<1>10. SessionInv /\ FileInv
  BY <1>1, <1>4, <1>9 DEF SessionInv, FileInv
<1> QED BY <1>6, <1>7, <1>8, <1>10 DEF Inv

\* Where nothing changes, nothing is lost.
LEMMA StutterKeeps == Inv /\ UNCHANGED vars => Inv'
<1> SUFFICES ASSUME Inv, UNCHANGED vars PROVE Inv'
  OBVIOUS
<1> USE DEF Inv
<1>0. /\ plan' = plan /\ k' = k /\ pc' = pc /\ file' = file /\ origin' = origin
      /\ source' = source /\ dev' = dev /\ in_unitsize' = in_unitsize /\ pos' = pos
      /\ o' = o /\ store' = store /\ logic_probelist' = logic_probelist
      /\ unitsize' = unitsize /\ triggered' = triggered
      /\ received_samples' = received_samples /\ fed' = fed /\ given' = given
      /\ marked' = marked /\ ragged' = ragged /\ torn' = torn /\ labels' = labels
  BY DEF vars, inputVars, feedVars, history
<1>1. cmd' = cmd /\ Format' = Format /\ Saving' = Saving /\ LimitReached' = LimitReached
  BY <1>0, SameCmd DEF LimitReached
<1>2. TypeInv'
  BY <1>0 DEF TypeInv
<1>3. Fresh' /\ DevInv' /\ ListInv'
  BY <1>0 DEF Fresh, DevInv, ListInv, Running, Fed
<1>4. SessionInv' /\ FileInv'
  BY <1>0 DEF SessionInv, FileInv, La8Trail
<1>5. Whole' = Whole
  BY <1>0, <1>1 DEF Whole
<1>6. WholeInv' /\ StoreInv'
  BY <1>0, <1>1, <1>5 DEF WholeInv, StoreInv, Fed
<1>7. AtEnd' = AtEnd /\ Passed' = Passed
      /\ Selected(Words(SubSeq(file.data, 1, fed), in_unitsize))'
         = Selected(Words(SubSeq(file.data, 1, fed), in_unitsize))
  BY <1>0 DEF AtEnd, Passed, Selected
<1>8. ReadInv'
  BY <1>0, <1>1, <1>7 DEF ReadInv, Fed
<1>9. RawInv'
  BY <1>0, <1>1 DEF RawInv, Fed, La8Trail
<1> QED BY <1>2, <1>3, <1>4, <1>6, <1>8, <1>9

\* Every step of a command, and from one to the next, keeps the invariant.
LEMMA NextKeeps == Inv /\ [Next]_vars => Inv'
BY BeginKeeps, HeaderKeeps, MetaKeeps, ReadKeeps, DeviceSendsKeeps,
   DeviceTriggersKeeps, ScopeSendsKeeps, EndOfFeedKeeps, ExitKeeps,
   NextCommandKeeps, StutterKeeps DEF Next

\* So the invariant always holds.
LEMMA Invariant == Spec => []Inv
BY InitInv, NextKeeps, PTL DEF Spec

-----------------------------------------------------------------------------
(* What the theorems say *)

\* The variables have their types: what datafeed_in(), the datastore, the
\* inputs and the end of a process leave behind.
THEOREM TypeCorrect == Spec => []TypeOK
<1>1. Inv => TypeOK
  <2> SUFFICES ASSUME TypeInv PROVE TypeOK
    BY DEF Inv
  <2>1. \A i \in DOMAIN logic_probelist : logic_probelist[i] \in 1 .. Len(dev.probes)
    <3>1. logic_probelist \in Seq(1 .. Len(dev.probes))
      BY DEF TypeInv
    <3> QED BY ONLY <3>1
  <2>2. \A c \in DOMAIN given : given[c] \in Seq(SUBSET (0 .. ByteBits - 1))
    BY DEF TypeInv, Byte
  <2> QED BY <2>1, <2>2 DEF TypeInv, TypeOK
<1> QED BY <1>1, Invariant, PTL

\* What sr_datastore_put() has stored, packet after packet and chunk after
\* chunk, are the samples that datafeed_in() has passed on.
LEMMA InOrder == Inv => StoredInOrder
<1> SUFFICES ASSUME Inv, store # NoStore, ~ragged
             PROVE  /\ fed % in_unitsize = 0 /\ ~LimitReached =>
                          ChunkOffset(store) \in 0 .. ChunkSize
                    /\ Contents(store) = ToBytes(Passed, unitsize)
  BY DEF StoredInOrder
<1> DEFINE g == given[k]
           u == unitsize
           m == store.num_units * u
           c == store.chunks
           cap == Capacity(store)
<1>1. /\ Stored(store, u) /\ Holds(store, u, g)
      /\ Whole => EndsWith(store, u, g)
  BY DEF Inv, StoreInv
<1>2. g \in Seq(Byte)
  BY CmdIs DEF Inv
<1>3. Contents(store) = ToBytes(Passed, u)
  <2>1. Contents(store) = ToBytes(Words(g, u), u)
    <3> HIDE DEF g, u
    <3> QED BY <1>1, <1>2, ContentsIs
  <2> QED BY <2>1 DEF Passed
<1>4. ASSUME Whole PROVE ChunkOffset(store) \in 0 .. ChunkSize
  <2>1. /\ u \in Nat \ {0} /\ c \in Seq(Byte) /\ store.unitsize = u
        /\ store.num_units \in Nat /\ m <= Len(c)
        /\ store.num_units = Len(g) \div u
        /\ Len(g) % u = 0 /\ cap - ChunkSize <= Len(g)
    BY <1>1, <1>4 DEF Stored, Holds, EndsWith
  <2>2. Len(g) \in Nat /\ Len(c) \in Nat /\ ChunkSize \in Nat \ {0}
    BY <1>2, <2>1, Widths
  <2>3. m = Len(g) /\ u * store.num_units = m
    <3> DEFINE q == Len(g) \div u
               r == Len(g) % u
    <3>1. q \in Nat /\ Len(g) = q * u + r
      <4> HIDE DEF g, u
      <4> QED BY <2>1, <2>2, Division
    <3>2. store.num_units = q /\ r = 0
      BY <2>1
    <3> HIDE DEF q, r
    <3>3. u \in Nat
      BY <2>1
    <3> HIDE DEF u, g
    <3> QED BY <2>2, <3>1, <3>2, <3>3 DEF m
  <2>4. cap \in Nat /\ Len(c) <= cap
    <3>1. cap = IF c = <<>> THEN ChunkSize ELSE Len(c)
      BY DEF Capacity
    <3>2. c = <<>> => Len(c) = 0
      OBVIOUS
    <3> HIDE DEF c, cap
    <3> QED BY <2>2, <3>1, <3>2
  <2>5. ChunkOffset(store) = ChunkSize - (cap - u * store.num_units)
    BY <2>1 DEF ChunkOffset, BytesFree
  <2> HIDE DEF g, u, m, c, cap
  <2> QED BY <2>1, <2>2, <2>3, <2>4, <2>5
<1> QED BY <1>3, <1>4 DEF Whole

\* A command that has read to the end what an earlier one wrote has passed on
\* its samples, of the probes that were selected.
LEMMA ReadBack == Inv /\ FewProbes => RoundTrip
<1> SUFFICES ASSUME Inv, FewProbes, pc = "ended", source = file.kind, origin # 0,
                    ~ragged, cmd.limit = 0, ~cmd.wait,
                    source = "chronovu-la8" =>
                        Len(given[origin]) = La8Packets * La8PacketSize
             PROVE  /\ Passed = Selected(Words(given[origin], in_unitsize))
                    /\ source = "session" => labels[k] = labels[origin]
  BY DEF RoundTrip
<1> DEFINE d == file.data
           w == given[origin]
           a == in_unitsize
<1>1. /\ source \in {"session", "binary", "chronovu-la8"}
      /\ source # "scope"
  BY DEF Inv, FileInv, TypeInv, DevInv, Running
<1>2. /\ d \in Seq(Byte) /\ Len(d) \in Nat /\ fed \in Nat /\ fed <= Len(d)
      /\ Passed = Selected(Words(SubSeq(d, 1, fed), a))
      /\ AtEnd /\ pos \in Nat
  <2>1. ReadInv /\ d \in Seq(Byte)
    BY DEF Inv, FileInv
  <2>2. fed \in Nat /\ pos \in Nat
    BY DEF Inv, TypeInv
  <2>3. /\ fed <= Len(d) /\ AtEnd
        /\ Passed = Selected(Words(SubSeq(d, 1, fed), a))
    BY <1>1, <2>1 DEF ReadInv, Fed
  <2>4. Len(d) \in Nat
    <3> HIDE DEF d
    <3> QED BY <2>1
  <2> QED BY <2>1, <2>2, <2>3, <2>4
<1>3. SubSeq(d, 1, Len(d)) = d
  <2> HIDE DEF d
  <2> QED BY <1>2
<1>4. CASE source # "chronovu-la8"
  <2>1. fed = pos /\ pos >= Len(d)
    BY <1>1, <1>2, <1>4 DEF Inv, ReadInv, Fed, AtEnd, Devices
  <2>2. fed = Len(d)
    BY <1>2, <2>1
  <2>3. Passed = Selected(Words(d, a))
    BY <1>2, <1>3, <2>2
  <2>4. CASE source = "session"
    <3>1. /\ a = file.unitsize /\ dev.probes = Loaded(file)
          /\ labels[k] = Labels(dev.probes)
      BY <2>4 DEF Inv, DevInv, Running
    <3>2. file.probes = labels[origin]
          /\ Words(d, file.unitsize) = Words(w, file.unitsize)
      BY <2>4 DEF Inv, FileInv
    <3>3. Labels(Loaded(file)) = file.probes
      BY <2>4, LoadedLabels DEF Inv
    <3> QED BY <2>3, <3>1, <3>2, <3>3
  <2>5. CASE source = "binary"
    <3>1. d = w
      BY <2>5 DEF Inv, FileInv
    <3> QED BY <2>3, <2>5, <3>1
  <2> QED BY <1>1, <1>4, <2>4, <2>5
<1>5. CASE source = "chronovu-la8"
  <2> DEFINE m == La8Packets * La8PacketSize
  <2>1. m \in Nat
    BY Sizes
  <2>2. d = w \o La8Trail /\ Len(w) = m
    BY <1>5 DEF Inv, FileInv
  <2>3. w \in Seq(Byte)
    <3>1. origin \in DOMAIN plan /\ given \in [DOMAIN plan -> Seq(Byte)]
      <4>1. origin \in 0 .. k /\ given \in [DOMAIN plan -> Seq(Byte)]
        BY DEF Inv, TypeInv
      <4>2. k \in 1 .. Len(plan) /\ Len(plan) \in Nat /\ DOMAIN plan = 1 .. Len(plan)
        BY CmdIs DEF Inv
      <4>3. origin # 0
        OBVIOUS
      <4> QED BY ONLY <4>1, <4>2, <4>3
    <3> QED BY <3>1
  <2>4. pos >= m
    BY <1>2, <1>5 DEF AtEnd, Devices
  <2>5. PICK j \in 0 .. La8Packets :
           /\ pos = j * La8PacketSize
           /\ fed = IF pos <= Len(d) THEN pos ELSE Len(d)
    BY <1>5 DEF Inv, ReadInv, Fed
  <2>6. j * La8PacketSize <= m
    <3>1. j \in Int /\ La8Packets \in Int /\ j <= La8Packets /\ La8PacketSize \in Nat
      BY Sizes
    <3> QED BY <3>1, Multiples
  <2>7. pos = m
    <3> HIDE DEF m
    <3> QED BY <1>2, <2>1, <2>4, <2>5, <2>6
  <2>8. Len(d) = m + Len(La8Trail) /\ Len(La8Trail) \in Nat
    <3> HIDE DEF m, w, d
    <3> QED BY <2>2, <2>3, TrailType
  <2>9. fed = m
    <3> HIDE DEF m, d
    <3> QED BY <2>1, <2>5, <2>7, <2>8
  <2>10. SubSeq(d, 1, m) = w
    <3> HIDE DEF m, w, d
    <3>1. Len(w) = m /\ SubSeq(w \o La8Trail, 1, Len(w)) = w
      <4>1. w \in Seq(Byte) /\ La8Trail \in Seq(Byte)
        BY <2>3, TrailType
      <4> QED BY <2>2, <4>1, ConcatProperties
    <3> QED BY <2>2, <3>1
  <2> QED BY <1>2, <1>5, <2>9, <2>10
<1> QED BY <1>4, <1>5

\* What is saved is what was passed on, and what is loaded is what was saved,
\* for devices and files of fewer probes than an int has bits: beyond that,
\* the mask of sr_filter_probes() overflows.
THEOREM ReadsWhatWasStored ==
    ASSUME FewProbes
    PROVE  Spec => []StoredAndReadBack
<1>1. Inv => StoredAndReadBack
  BY InOrder, ReadBack DEF StoredAndReadBack
<1> QED BY <1>1, Invariant, PTL

\* What the datastore holds needs no such hypothesis.
THEOREM StoresInOrder == Spec => []StoredInOrder
BY InOrder, Invariant, PTL

-----------------------------------------------------------------------------
(* What an output holds of the samples: the formats' part of the invariant *)

\* A sequence, of whatever it holds.
IsSeq(s) == s \in Seq({s[i] : i \in DOMAIN s})

\* The items of a kind.
Of(out, kind) == Kept(out, {i \in DOMAIN out : out[i].kind = kind})

Fields == {"format", "names", "open", "header", "spl", "rate", "cnt", "off", "mark",
           "line", "values", "prev", "count", "out"}

\* A context that has written some items.
Shape(c) ==
    Fields \subseteq DOMAIN c /\ IsSeq(c.out) /\ IsSeq(c.names) /\ c.names # <<>>

\* One context goes on from the other.
GoesOn(c, d) ==
    /\ Shape(d) /\ d.format = c.format /\ d.names = c.names /\ d.open = c.open
    /\ d.header = c.header /\ d.spl = c.spl /\ d.rate = c.rate

\* The cells of a line show n samples, those of p behind the first b.
BitCells(cells, b, n, p) ==
    /\ IsSeq(cells) /\ Len(cells) = n
    /\ \A q \in 1 .. n : cells[q].sep /\ cells[q].high = p[b + q]

EdgeCells(cells, b, n, p) ==
    \A q \in 1 .. n :
        /\ cells[q].rise = p[b + q] \ (IF b + q = 1 THEN {} ELSE p[b + q - 1])
        /\ b + q < Len(p) => cells[q].fall = p[b + q] \ p[b + q + 1]

\* What a cell of a line of n samples shows of sample q (from 0).
HexShows(cells, n, q) ==
    LET x == q \div ByteBits
        held == Min({ByteBits, n - x * ByteBits})
    IN  cells[x + 1].bits[ByteBits - held + (q % ByteBits) + 1]

HexCells(cells, b, n, p) ==
    /\ IsSeq(cells) /\ Len(cells) = UnitsizeOf(n)
    /\ \A x \in 1 .. Len(cells) : x * ByteBits <= n => cells[x].sep
    /\ \A q \in 0 .. n - 1 : HexShows(cells, n, q) = p[b + q + 1]

Cells(format, cells, b, n, p) ==
    CASE format = "bits" -> BitCells(cells, b, n, p)
      [] format = "ascii" -> BitCells(cells, b, n, p) /\ EdgeCells(cells, b, n, p)
      [] format = "hex" -> HexCells(cells, b, n, p)

\* A line of n samples behind the first b has the mark of the sample m.
MarkOf(b, n, m) == IF m \in b .. b + n - 1 THEN m - b ELSE -1

\* The full lines show samples, and have the mark of one.
FullLines(format, lines, p) ==
    \A i \in 1 .. Len(lines) :
       Cells(format, lines[i].cells, (i - 1) * SamplesPerLine, SamplesPerLine, p)
MarkedLines(lines, m) ==
    \A i \in 1 .. Len(lines) :
       lines[i].mark = MarkOf((i - 1) * SamplesPerLine, SamplesPerLine, m)

\* The full lines, and the one that is being filled, show the first n samples.
TextLines(c, p, n) ==
    LET lines == Of(c.out, "line")
        b == Len(lines) * SamplesPerLine
    IN  /\ c.spl = SamplesPerLine /\ c.cnt \in 0 .. SamplesPerLine
        /\ n = b + c.cnt
        /\ Cells(c.format, c.line, b, c.cnt, p)
        /\ FullLines(c.format, lines, p)

\* What the context keeps of the samples besides.
AsciiRep(c, p) ==
    IF p = <<>> THEN c.prev = {} ELSE c.cnt > 0 /\ c.prev = p[Len(p)]

Window(v, p) ==
    /\ IsSeq(v) /\ Len(v) = ByteBits
    /\ \A j \in 0 .. ByteBits - 1 : j < Len(p) => v[ByteBits - j] = p[Len(p) - j]

HexRep(c, p) == c.off = c.cnt \div ByteBits /\ Window(c.values, p)

TextRep(c, p) ==
    /\ TextLines(c, p, Len(p))
    /\ c.format = "ascii" => AsciiRep(c, p)
    /\ c.format # "ascii" => c.cnt < SamplesPerLine
    /\ c.format = "hex" => HexRep(c, p)

Marks(c, p, m) ==
    LET lines == Of(c.out, "line")
    IN  /\ m \in -1 .. Len(p) /\ MarkedLines(lines, m)
        /\ c.mark = MarkOf(Len(lines) * SamplesPerLine, c.cnt + 1, m)

\* The lines at the end, of which the last may be shorter.
TextEnd(c, p) ==
    LET lines == Of(c.out, "line")
    IN  /\ Len(lines) = (Len(p) + SamplesPerLine - 1) \div SamplesPerLine
        /\ \A i \in 1 .. Len(lines) :
              LET b == (i - 1) * SamplesPerLine
              IN  Cells(c.format, lines[i].cells, b, Min({SamplesPerLine, Len(p) - b}), p)

\* Level(n), of some probes.
LevelOf(changes, n, probes) ==
    {x \in probes : \E i \in DOMAIN changes :
        /\ changes[i].at <= n /\ x \in changes[i].high
        /\ \A j \in DOMAIN changes : changes[j].at <= n /\ j > i => x \notin changes[j].low}

VcdRep(c, p) ==
    LET changes == Of(c.out, "change")
    IN  /\ c.count = Len(p) /\ (p # <<>> => c.prev = p[Len(p)])
        /\ c.rate => /\ \A i \in DOMAIN changes : changes[i].at \in 0 .. Len(p)
                     /\ \A n \in 1 .. Len(p) : LevelOf(changes, n, Probes0(c)) = p[n]

CsvRow(s, n) == [kind |-> "row", cells |-> [x \in 1 .. n |-> n - x \in s]]
CsvRep(c, p) == Of(c.out, "row") = [i \in 1 .. Len(p) |-> CsvRow(p[i], Len(c.names))]

OlsRep(c, p) ==
    /\ c.count = Len(p)
    /\ Of(c.out, "sample") = [i \in 1 .. Len(p) |-> [kind |-> "sample", n |-> i - 1, s |-> p[i]]]

\* prev has the bits of an uninitialized word above those of the samples.
GnuplotRep(c, p, a) ==
    LET points == Of(c.out, "point")
        shown == [i \in DOMAIN points |-> points[i].s]
    IN  /\ c.count \in Nat /\ (c.count = 0 <=> p = <<>>)
        /\ Destutter(shown) = Destutter(p)
        /\ p = <<>> <=> shown = <<>>
        /\ p # <<>> => /\ shown[Len(shown)] = p[Len(p)]
                       /\ \E garbage \in Garbage(a) : c.prev = p[Len(p)] \cup garbage

\* What a context holds of the samples p that it was given.
Rep(c, p, a) ==
    CASE c.format \in Text -> TextRep(c, p)
      [] c.format = "vcd" -> VcdRep(c, p)
      [] c.format = "csv" -> CsvRep(c, p)
      [] c.format = "ols" -> OlsRep(c, p)
      [] c.format = "gnuplot" -> GnuplotRep(c, p, a)
      [] OTHER -> TRUE

EndRep(c, p, a) == IF c.format \in Text THEN TextEnd(c, p) ELSE Rep(c, p, a)

\* Is the output to be read back, from more than bytes?
Tracked ==
    ~Saving /\ source # "scope" /\ Format \in Text \cup Unguarded /\ ~ragged /\ ~torn

Opened == pc = "header" \/ Fed

\* The output of a command begins with its header.
ContextInv ==
    /\ pc \in {"start", "ready"} => o = NoContext
    /\ Running => ProbesOf(dev.probes) /\ Chosen(dev.probes) # {}
    /\ Opened => Shape(o) /\ o.format = Format /\ o.names = Names(dev.probes)
    /\ torn => Format = "hex"
    /\ ~triggered => marked = -1

\* It holds the samples that were passed on.
Holding(c, p) ==
    /\ Rep(c, p, in_unitsize) /\ c.header \in BOOLEAN
    /\ c.format = "vcd" => (c.header <=> p = <<>>)
    /\ c.format = "bits" => Marks(c, p, marked)
TrackInv ==
    Tracked =>
        /\ pc = "header" => Holding(o, <<>>)
        /\ pc = "feed" => Holding(o, Passed)
        /\ pc = "ended" =>
              /\ EndRep(o, Passed, in_unitsize)
              /\ o.format = "bits" => MarkedLines(Of(o.out, "line"), marked)
        /\ Fed => \A i \in DOMAIN Passed : Passed[i] \subseteq Probes0(o)

\* The values of an oscilloscope are all that it holds of one.
Labelled(c) ==
    LET values == Of(c.out, "value")
    IN  \A i \in DOMAIN values :
           /\ values[i].name = values[i].value.name
           /\ Len(c.names) = 1 => values[i].value.n = i - 1
ValuesInv ==
    /\ Labelled(o)
    /\ Opened /\ ~(Format = "float" /\ source = "scope") => Of(o.out, "value") = <<>>
    /\ Opened /\ Format = "float" /\ source = "scope" /\ ~LimitReached /\ Len(o.names) = 1
          => Len(Of(o.out, "value")) = fed
    /\ Opened /\ Format = "bits" /\ source = "scope" =>
          o.line = <<>> /\ Of(o.out, "line") = <<>>

OutInv == ContextInv /\ TrackInv /\ ValuesInv

-----------------------------------------------------------------------------
(* Sequences of items *)

\* A sequence of elements of a set is one.
LEMMA AnySeq ==
    ASSUME NEW S, NEW s \in Seq(S)
    PROVE  IsSeq(s)
<1>1. Len(s) \in Nat /\ DOMAIN s = 1 .. Len(s) /\ s \in [1 .. Len(s) -> S]
  OBVIOUS
<1>2. s \in [1 .. Len(s) -> {s[i] : i \in DOMAIN s}]
  BY <1>1
<1> QED BY <1>1, <1>2 DEF IsSeq

\* What one is made of.
LEMMA SeqIs ==
    ASSUME NEW s, IsSeq(s)
    PROVE  Len(s) \in Nat /\ DOMAIN s = 1 .. Len(s)
BY DEF IsSeq

\* Two of them are of one set.
LEMMA TwoSeqs ==
    ASSUME NEW s, NEW t, IsSeq(s), IsSeq(t)
    PROVE  \E S : s \in Seq(S) /\ t \in Seq(S)
<1> DEFINE S == {s[i] : i \in DOMAIN s} \cup {t[i] : i \in DOMAIN t}
<1>1. s \in Seq({s[i] : i \in DOMAIN s}) /\ t \in Seq({t[i] : i \in DOMAIN t})
  BY DEF IsSeq
<1>2. \A i \in 1 .. Len(s) : s[i] \in S
  BY SeqIs
<1>3. \A i \in 1 .. Len(t) : t[i] \in S
  BY SeqIs
<1> HIDE DEF S
<1>4. s \in Seq(S)
  BY ONLY <1>1, <1>2, OtherRange
<1>5. t \in Seq(S)
  BY ONLY <1>1, <1>3, OtherRange
<1> QED BY <1>4, <1>5

\* One element is one.
LEMMA OneItem ==
    ASSUME NEW e
    PROVE  IsSeq(<<e>>) /\ Len(<<e>>) = 1 /\ <<e>>[1] = e
<1>1. <<e>> \in Seq({e})
  OBVIOUS
<1> QED BY <1>1, AnySeq

\* Two of them, one after the other.
LEMMA SeqConcat ==
    ASSUME NEW s, NEW t, IsSeq(s), IsSeq(t)
    PROVE  /\ IsSeq(s \o t) /\ Len(s \o t) = Len(s) + Len(t)
           /\ \A i \in 1 .. Len(s) : (s \o t)[i] = s[i]
           /\ \A i \in 1 .. Len(t) : (s \o t)[Len(s) + i] = t[i]
           /\ s \o <<>> = s
<1>1. PICK S : s \in Seq(S) /\ t \in Seq(S)
  BY TwoSeqs
<1>2. s \o t \in Seq(S) /\ s \o <<>> = s
  BY <1>1
<1>3. IsSeq(s \o t)
  BY <1>2, AnySeq
<1> QED BY <1>1, <1>2, <1>3

\* An element more.
LEMMA SeqAppend ==
    ASSUME NEW s, IsSeq(s), NEW e
    PROVE  /\ IsSeq(Append(s, e)) /\ Len(Append(s, e)) = Len(s) + 1
           /\ \A i \in 1 .. Len(s) : Append(s, e)[i] = s[i]
           /\ Append(s, e)[Len(s) + 1] = e /\ s \o <<e>> = Append(s, e)
<1> DEFINE S == {s[i] : i \in DOMAIN s} \cup {e}
<1>1. s \in Seq({s[i] : i \in DOMAIN s})
  BY DEF IsSeq
<1>2. \A i \in 1 .. Len(s) : s[i] \in S
  BY SeqIs
<1>3. e \in S
  OBVIOUS
<1> HIDE DEF S
<1>4. s \in Seq(S)
  BY ONLY <1>1, <1>2, OtherRange
<1>5. Append(s, e) \in Seq(S)
  BY <1>3, <1>4
<1>6. IsSeq(Append(s, e))
  BY <1>5, AnySeq
<1>7. s \o <<e>> = Append(s, e)
  BY <1>3, <1>4, AppendIsConcat
<1> QED BY <1>3, <1>4, <1>6, <1>7

\* The items of a kind among those of two sequences.
LEMMA OfConcat ==
    ASSUME NEW s, NEW t, IsSeq(s), IsSeq(t), NEW kind
    PROVE  Of(s \o t, kind) = Of(s, kind) \o Of(t, kind)
<1> DEFINE P == {i \in DOMAIN s : s[i].kind = kind}
           Q == {i \in DOMAIN t : t[i].kind = kind}
           R == {i \in DOMAIN (s \o t) : (s \o t)[i].kind = kind}
           x == s \o t
<1>1. PICK S : s \in Seq(S) /\ t \in Seq(S)
  BY TwoSeqs
<1>2. /\ IsSeq(x) /\ Len(x) = Len(s) + Len(t)
      /\ \A i \in 1 .. Len(s) : x[i] = s[i]
      /\ \A i \in 1 .. Len(t) : x[Len(s) + i] = t[i]
  BY SeqConcat
<1>3. /\ Len(s) \in Nat /\ DOMAIN s = 1 .. Len(s) /\ Len(t) \in Nat /\ DOMAIN t = 1 .. Len(t)
      /\ DOMAIN x = 1 .. Len(s) + Len(t)
  BY <1>2, SeqIs
<1> HIDE DEF x
<1>4. R = {i \in DOMAIN x : x[i].kind = kind}
  BY DEF x
<1> HIDE DEF R
<1>5. \A i \in 1 .. Len(s) : i \in P <=> i \in R
  <2> SUFFICES ASSUME NEW i \in 1 .. Len(s) PROVE i \in P <=> i \in R
    OBVIOUS
  <2>1. i \in DOMAIN x /\ x[i] = s[i] /\ i \in DOMAIN s
    BY <1>2, <1>3
  <2> QED BY <1>4, <2>1
<1>6. \A i \in 1 .. Len(t) : i \in Q <=> Len(s) + i \in R
  <2> SUFFICES ASSUME NEW i \in 1 .. Len(t) PROVE i \in Q <=> Len(s) + i \in R
    OBVIOUS
  <2>1. Len(s) + i \in DOMAIN x /\ x[Len(s) + i] = t[i] /\ i \in DOMAIN t
    BY <1>2, <1>3
  <2> QED BY <1>4, <2>1
<1>7. Joined(P, Len(s), Q, Len(t), R)
  BY <1>5, <1>6 DEF Joined
<1>8. Kept(s \o t, R) = Kept(s, P) \o Kept(t, Q)
  <2> HIDE DEF P, Q
  <2> QED BY <1>1, <1>7, KeptConcat
<1> QED BY <1>8 DEF Of, R

\* There are only the items of a kind, or there are none.
LEMMA OfOne ==
    ASSUME NEW s, IsSeq(s), NEW kind
    PROVE  /\ (\A i \in 1 .. Len(s) : s[i].kind = kind) => Of(s, kind) = s
           /\ (\A i \in 1 .. Len(s) : s[i].kind # kind) => Of(s, kind) = <<>>
           /\ IsSeq(Of(s, kind))
<1> DEFINE P == {i \in DOMAIN s : s[i].kind = kind}
           S == {s[i] : i \in DOMAIN s}
<1>1. s \in Seq(S) /\ DOMAIN s = 1 .. Len(s)
  BY SeqIs DEF IsSeq
<1> HIDE DEF S
<1>2. ASSUME \A i \in 1 .. Len(s) : s[i].kind = kind PROVE Kept(s, P) = s
  <2>1. 1 .. Len(s) \subseteq P
    BY <1>1, <1>2
  <2> HIDE DEF P
  <2> QED BY <1>1, <2>1, KeptAll
<1>3. ASSUME \A i \in 1 .. Len(s) : s[i].kind # kind PROVE Kept(s, P) = <<>>
  <2>1. \A i \in 1 .. Len(s) : i \notin P
    BY <1>1, <1>3
  <2> HIDE DEF P
  <2> QED BY <1>1, <2>1, KeptNone
<1>4. Kept(s, P) \in Seq(S)
  <2> HIDE DEF P
  <2> QED BY <1>1, KeptType
<1>5. IsSeq(Kept(s, P))
  <2> HIDE DEF P
  <2> QED BY <1>4, AnySeq
<1> QED BY <1>2, <1>3, <1>5 DEF Of

\* An item more.
LEMMA OfAppend ==
    ASSUME NEW s, IsSeq(s), NEW e, NEW kind
    PROVE  Of(Append(s, e), kind) =
               IF e.kind = kind THEN Append(Of(s, kind), e) ELSE Of(s, kind)
<1> DEFINE t == <<e>>
<1>1. IsSeq(t) /\ Len(t) = 1 /\ t[1] = e
  BY OneItem
<1>2. s \o t = Append(s, e)
  BY SeqAppend
<1>3. Of(s \o t, kind) = Of(s, kind) \o Of(t, kind)
  BY <1>1, OfConcat
<1>4. IsSeq(Of(s, kind))
  BY OfOne
<1>5. /\ e.kind = kind => Of(t, kind) = t
      /\ e.kind # kind => Of(t, kind) = <<>>
  <2> HIDE DEF t
  <2>1. \A i \in 1 .. Len(t) : t[i] = e
    BY <1>1
  <2> QED BY <1>1, <2>1, OfOne
<1>6. Of(s, kind) \o t = Append(Of(s, kind), e)
  BY <1>4, SeqAppend
<1>7. Of(s, kind) \o <<>> = Of(s, kind)
  BY <1>1, <1>4, SeqConcat
<1> QED BY <1>2, <1>3, <1>5, <1>6, <1>7

-----------------------------------------------------------------------------
(* A packet, sample by sample *)

\* Where o->format->data() starts.
Started(c) == [WithHeader(c) EXCEPT !.off = IF c.format = "hex" THEN 0 ELSE @]

\* A round is made of the one before.
Round(f, i, start, w, garbage, first) ==
    IF i = 0 THEN start ELSE Sample(f[i - 1], w, i, garbage, first)

\* There are the rounds up to any number.
LEMMA SomeRounds ==
    ASSUME NEW start, NEW w, NEW garbage, NEW first, NEW n \in Nat
    PROVE  \E f : f = [i \in 0 .. n |-> Round(f, i, start, w, garbage, first)]
<1> DEFINE R(f, i) == Round(f, i, start, w, garbage, first)
           Some(m) == \E f : f = [i \in 0 .. m |-> R(f, i)]
           T == {m \in Nat : ~Some(m)}
<1> SUFFICES ASSUME T # {} PROVE FALSE
  OBVIOUS
<1>1. PICK m \in T : \A y \in T : m <= y
  BY Least
<1>2. m # 0
  <2> DEFINE g == [i \in 0 .. 0 |-> start]
  <2>1. \A i \in 0 .. 0 : R(g, i) = start
    BY DEF Round
  <2> HIDE DEF R
  <2>2. [i \in 0 .. 0 |-> R(g, i)] = g
    BY <2>1
  <2>3. Some(0)
    BY <2>2
  <2> QED BY <1>1, <2>3
<1>3. m \in Nat /\ m - 1 \in Nat /\ m - 1 \notin T
  BY <1>1, <1>2
<1>4. PICK f : f = [i \in 0 .. m - 1 |-> R(f, i)]
  BY <1>3
<1> DEFINE g == [i \in 0 .. m |-> IF i = m THEN R(f, m) ELSE f[i]]
<1>5. ASSUME NEW i \in 0 .. m PROVE g[i] = R(g, i)
  <2>1. \A j \in 0 .. m - 1 : j # m /\ j \in 0 .. m /\ g[j] = f[j] /\ f[j] = R(f, j)
    <3>1. \A j \in 0 .. m - 1 : j # m /\ j \in 0 .. m
      BY <1>3
    <3>2. \A j \in 0 .. m - 1 : f[j] = R(f, j)
      <4> HIDE DEF R
      <4> QED BY <1>4
    <3> HIDE DEF R
    <3> QED BY <3>1, <3>2
  <2>2. g[m] = R(f, m)
    BY <1>3
  <2>3. i \in 0 .. m - 1 \/ i = m
    BY <1>3
  <2>4. g[i] = R(f, i)
    <3> HIDE DEF R, g
    <3> QED BY <2>1, <2>2, <2>3
  <2>5. i = 0 \/ (i - 1 \in 0 .. m - 1 /\ g[i - 1] = f[i - 1])
    <3>1. i = 0 \/ i - 1 \in 0 .. m - 1
      BY <1>3
    <3> HIDE DEF R, g
    <3> QED BY <2>1, <3>1
  <2> HIDE DEF g
  <2> QED BY <2>4, <2>5 DEF Round
<1>6. g = [i \in 0 .. m |-> R(g, i)]
  <2>1. DOMAIN g = 0 .. m /\ g = [i \in 0 .. m |-> g[i]]
    <3> HIDE DEF R
    <3> QED OBVIOUS
  <2> HIDE DEF R, g
  <2> QED BY <1>5, <2>1
<1>7. Some(m)
  <2> HIDE DEF R, g
  <2> QED BY <1>6
<1> QED BY <1>1, <1>7

\* A packet is a round for each sample of it.
LEMMA DataIs ==
    ASSUME NEW c, c.format \notin Raw, NEW bytes, NEW u, NEW garbage,
           Len(Words(bytes, u)) \in Nat
    PROVE  LET w == Words(bytes, u)
           IN  \E f : /\ f[0] = Started(c) /\ f[Len(w)] = Data(c, bytes, u, garbage)
                      /\ \A j \in 1 .. Len(w) :
                            f[j] = Sample(f[j - 1], w, j, garbage, c.header)
<1> DEFINE w == Words(bytes, u)
           n == Len(w)
           R(f, i) == Round(f, i, Started(c), w, garbage, c.header)
           f == CHOOSE t : t = [i \in 0 .. n |-> R(t, i)]
<1>1. Data(c, bytes, u, garbage) = f[n]
  BY DEF Data, Started, Round
<1>2. f = [i \in 0 .. n |-> R(f, i)]
  <2>1. \E t : t = [i \in 0 .. n |-> R(t, i)]
    <3> HIDE DEF w
    <3> QED BY SomeRounds
  <2> HIDE DEF R, n
  <2> QED BY <2>1
<1> HIDE DEF f
<1>3. \A i \in 0 .. n : f[i] = R(f, i)
  <2> HIDE DEF R, w
  <2> QED BY <1>2
<1>4. n \in Nat
  OBVIOUS
<1> HIDE DEF w
<1>5. f[0] = Started(c)
  BY <1>3, <1>4 DEF Round
<1>6. \A j \in 1 .. n : f[j] = Sample(f[j - 1], w, j, garbage, c.header)
  BY <1>3, <1>4 DEF Round
<1> QED BY <1>1, <1>5, <1>6 DEF w

-----------------------------------------------------------------------------
(* A sample, in the formats of one item a sample or less *)

\* A sequence with an element more.
LEMMA OneMore ==
    ASSUME NEW p, IsSeq(p), NEW s
    PROVE  LET x == Append(p, s)
           IN  /\ IsSeq(x) /\ Len(x) = Len(p) + 1 /\ x # <<>> /\ Len(p) \in Nat
               /\ DOMAIN x = 1 .. Len(p) + 1 /\ DOMAIN p = 1 .. Len(p)
               /\ \A i \in 1 .. Len(p) : x[i] = p[i]
               /\ x[Len(p) + 1] = s /\ x[Len(x)] = s
               /\ (p = <<>> <=> Len(p) = 0)
<1> DEFINE x == Append(p, s)
<1>1. /\ IsSeq(x) /\ Len(x) = Len(p) + 1 /\ \A i \in 1 .. Len(p) : x[i] = p[i]
      /\ x[Len(p) + 1] = s
  BY SeqAppend
<1>2. Len(p) \in Nat /\ DOMAIN p = 1 .. Len(p)
  BY SeqIs
<1>3. p = <<>> <=> Len(p) = 0
  BY DEF IsSeq
<1> HIDE DEF x
<1>4. DOMAIN x = 1 .. Len(p) + 1
  BY <1>1, <1>2, SeqIs
<1>5. x # <<>>
  <2>1. Len(<<>>) = 0
    OBVIOUS
  <2> QED BY <1>1, <1>2, <2>1
<1> QED BY <1>1, <1>2, <1>3, <1>4, <1>5 DEF x

\* Items are written.
LEMMA EmitIs ==
    ASSUME NEW c, Shape(c), NEW items, IsSeq(items)
    PROVE  LET d == Emit(c, items)
           IN  /\ DOMAIN d = DOMAIN c /\ d.out = c.out \o items /\ IsSeq(d.out)
               /\ \A f \in DOMAIN c : f # "out" => d[f] = c[f]
               /\ GoesOn(c, d)
<1> DEFINE d == Emit(c, items)
<1>1. DOMAIN d = DOMAIN c /\ d.out = c.out \o items
      /\ \A f \in DOMAIN c : f # "out" => d[f] = c[f]
  BY DEF Emit, Shape, Fields
<1>2. IsSeq(c.out \o items)
  BY SeqConcat DEF Shape
<1> HIDE DEF d
<1>3. \A f \in Fields : f # "out" => d[f] = c[f]
  BY <1>1 DEF Shape
<1>4. /\ d.format = c.format /\ d.names = c.names /\ d.open = c.open
      /\ d.header = c.header /\ d.spl = c.spl /\ d.rate = c.rate
  BY <1>3 DEF Fields
<1> QED BY <1>1, <1>2, <1>4 DEF d, GoesOn, Shape

\* An item is written, or is not.
LEMMA EmitOne ==
    ASSUME NEW c, Shape(c), NEW e, NEW items, items = <<e>> \/ items = <<>>
    PROVE  LET d == Emit(c, items)
           IN  /\ DOMAIN d = DOMAIN c
               /\ \A f \in DOMAIN c : f # "out" => d[f] = c[f]
               /\ GoesOn(c, d)
               /\ \A kind : Of(d.out, kind) = IF items = <<e>> /\ e.kind = kind
                                             THEN Append(Of(c.out, kind), e)
                                             ELSE Of(c.out, kind)
<1> DEFINE d == Emit(c, items)
<1>1. IsSeq(items)
  <2>1. IsSeq(<<e>>)
    BY OneItem
  <2>2. IsSeq(<<>>)
    <3>1. <<>> \in Seq({1})
      OBVIOUS
    <3> QED BY <3>1, AnySeq
  <2> QED BY <2>1, <2>2
<1>2. /\ DOMAIN d = DOMAIN c /\ d.out = c.out \o items /\ IsSeq(d.out)
      /\ \A f \in DOMAIN c : f # "out" => d[f] = c[f]
      /\ GoesOn(c, d)
  BY <1>1, EmitIs
<1>3. IsSeq(c.out)
  BY DEF Shape
<1>4. <<e>> # <<>>
  OBVIOUS
<1>5. ASSUME NEW kind
      PROVE  Of(d.out, kind) = IF items = <<e>> /\ e.kind = kind
                               THEN Append(Of(c.out, kind), e) ELSE Of(c.out, kind)
  <2>1. CASE items = <<e>>
    <3>1. c.out \o items = Append(c.out, e)
      BY <1>3, <2>1, SeqAppend
    <3>2. d.out = Append(c.out, e)
      BY <1>2, <3>1
    <3>3. Of(Append(c.out, e), kind) =
             IF e.kind = kind THEN Append(Of(c.out, kind), e) ELSE Of(c.out, kind)
      BY <1>3, OfAppend
    <3> HIDE DEF d
    <3> QED BY <2>1, <3>2, <3>3
  <2>2. CASE items = <<>>
    <3>1. c.out \o items = c.out
      BY <1>1, <1>3, <2>2, SeqConcat
    <3> HIDE DEF d
    <3> QED BY <1>2, <1>4, <2>2, <3>1
  <2> QED BY <2>1, <2>2
<1> QED BY <1>2, <1>5

\* An item is written.
LEMMA EmitItem ==
    ASSUME NEW c, Shape(c), NEW e, NEW kind
    PROVE  LET d == Emit(c, <<e>>)
           IN  /\ DOMAIN d = DOMAIN c
               /\ \A f \in DOMAIN c : f # "out" => d[f] = c[f]
               /\ GoesOn(c, d) /\ d.count = c.count /\ d.prev = c.prev
               /\ Of(d.out, kind) = IF e.kind = kind THEN Append(Of(c.out, kind), e)
                                    ELSE Of(c.out, kind)
<1> DEFINE items == <<e>>
           d == Emit(c, items)
<1>1. items = <<e>> \/ items = <<>>
  OBVIOUS
<1> HIDE DEF items
<1>2. /\ DOMAIN d = DOMAIN c
      /\ \A f \in DOMAIN c : f # "out" => d[f] = c[f]
      /\ GoesOn(c, d)
      /\ Of(d.out, kind) = IF items = <<e>> /\ e.kind = kind
                           THEN Append(Of(c.out, kind), e) ELSE Of(c.out, kind)
  BY <1>1, EmitOne
<1>3. "count" \in DOMAIN c /\ "prev" \in DOMAIN c
  BY DEF Shape, Fields
<1> HIDE DEF d
<1>4. d.count = c.count /\ d.prev = c.prev
  BY <1>2, <1>3
<1>5. items = <<e>>
  BY DEF items
<1> QED BY <1>2, <1>4, <1>5 DEF d, items

\* What the changes so far make of the signals is not changed by later ones.
LEMMA LevelBefore ==
    ASSUME NEW x, IsSeq(x), NEW e, NEW n \in Nat, e.at \in Nat, e.at > n, NEW probes
    PROVE  LevelOf(Append(x, e), n, probes) = LevelOf(x, n, probes)
<1> DEFINE y == Append(x, e)
           m == Len(x)
<1>1. /\ m \in Nat /\ DOMAIN x = 1 .. m /\ DOMAIN y = 1 .. m + 1
      /\ \A i \in 1 .. m : y[i] = x[i]
      /\ y[m + 1] = e
  BY OneMore
<1> HIDE DEF y, m
<1>2. \A i : i \in DOMAIN y /\ y[i].at <= n <=> i \in DOMAIN x /\ x[i].at <= n
  <2> SUFFICES ASSUME NEW i
               PROVE  i \in DOMAIN y /\ y[i].at <= n <=> i \in DOMAIN x /\ x[i].at <= n
    OBVIOUS
  <2>1. i \in DOMAIN y <=> (i \in 1 .. m \/ i = m + 1)
    BY <1>1
  <2>2. ~(y[m + 1].at <= n) /\ m + 1 \notin 1 .. m
    BY <1>1
  <2> QED BY <1>1, <2>1, <2>2
<1>3. \A i \in DOMAIN x : y[i] = x[i]
  BY <1>1
<1> QED BY <1>2, <1>3 DEF LevelOf, y

\* A change to the signals of a sample makes them of those before.
LEMMA LevelAfter ==
    ASSUME NEW x, IsSeq(x), NEW e, NEW n \in Nat, e.at = n, NEW probes,
           \A i \in DOMAIN x : x[i].at <= n
    PROVE  LevelOf(Append(x, e), n, probes)
           = {q \in probes : q \in e.high \/ (q \in LevelOf(x, n, probes) /\ q \notin e.low)}
<1> DEFINE y == Append(x, e)
           m == Len(x)
           L == LevelOf(x, n, probes)
<1>1. /\ m \in Nat /\ DOMAIN x = 1 .. m /\ DOMAIN y = 1 .. m + 1
      /\ \A i \in 1 .. m : y[i] = x[i]
      /\ y[m + 1] = e
  BY OneMore
<1> HIDE DEF y, m
<1>2. \A i \in DOMAIN y : y[i].at <= n
  <2> SUFFICES ASSUME NEW i \in DOMAIN y PROVE y[i].at <= n
    OBVIOUS
  <2>1. i \in 1 .. m \/ i = m + 1
    BY <1>1
  <2>2. e.at <= n
    OBVIOUS
  <2> QED BY <1>1, <2>1, <2>2
<1>3. ASSUME NEW q \in probes
      PROVE  q \in LevelOf(y, n, probes) <=> (q \in e.high \/ (q \in L /\ q \notin e.low))
  <2>1. q \in LevelOf(y, n, probes) <=>
           \E i \in DOMAIN y : /\ q \in y[i].high
                               /\ \A j \in DOMAIN y : j > i => q \notin y[j].low
    BY <1>2 DEF LevelOf
  <2>2. q \in L <=>
           \E i \in DOMAIN x : /\ q \in x[i].high
                               /\ \A j \in DOMAIN x : j > i => q \notin x[j].low
    BY DEF LevelOf
  <2> HIDE DEF L
  <2>3. ASSUME q \in e.high PROVE q \in LevelOf(y, n, probes)
    <3>1. m + 1 \in DOMAIN y /\ q \in y[m + 1].high
          /\ \A j \in DOMAIN y : ~(j > m + 1)
      BY <1>1, <2>3
    <3> QED BY <2>1, <3>1
  <2>4. ASSUME q \in L, q \notin e.low PROVE q \in LevelOf(y, n, probes)
    <3>1. PICK i \in DOMAIN x : /\ q \in x[i].high
                                /\ \A j \in DOMAIN x : j > i => q \notin x[j].low
      BY <2>2, <2>4
    <3>2. i \in DOMAIN y /\ q \in y[i].high
      BY <1>1, <3>1
    <3>3. ASSUME NEW j \in DOMAIN y, j > i PROVE q \notin y[j].low
      <4>1. j \in 1 .. m \/ j = m + 1
        BY <1>1
      <4> QED BY <1>1, <2>4, <3>1, <3>3, <4>1
    <3> QED BY <2>1, <3>2, <3>3
  <2>5. ASSUME q \in LevelOf(y, n, probes), q \notin e.high PROVE q \in L /\ q \notin e.low
    <3>1. PICK i \in DOMAIN y : /\ q \in y[i].high
                                /\ \A j \in DOMAIN y : j > i => q \notin y[j].low
      BY <2>1, <2>5
    <3>2. i # m + 1
      BY <1>1, <2>5, <3>1
    <3>3. i \in 1 .. m /\ m + 1 \in DOMAIN y /\ m + 1 > i
      BY <1>1, <3>2
    <3>4. q \notin e.low
      BY <1>1, <3>1, <3>3
    <3>5. \A j \in DOMAIN x : j \in DOMAIN y /\ y[j] = x[j]
      BY <1>1
    <3> QED BY <1>1, <2>2, <3>1, <3>3, <3>4, <3>5
  <2> QED BY <2>3, <2>4, <2>5
<1>4. LevelOf(y, n, probes) \subseteq probes
  BY DEF LevelOf
<1> HIDE DEF L
<1> QED BY <1>3, <1>4 DEF y, L

\* Between changes the signals stay.
LEMMA LevelStays ==
    ASSUME NEW x, NEW n \in Nat, NEW m \in Nat, NEW probes,
           \A i \in DOMAIN x : x[i].at <= n /\ x[i].at <= m
    PROVE  LevelOf(x, n, probes) = LevelOf(x, m, probes)
BY DEF LevelOf

\* The changes say of a sample more what it is.
LEMMA VcdKeeps ==
    ASSUME NEW c, Shape(c), NEW p, IsSeq(p), VcdRep(c, p), NEW s, s \subseteq Probes0(c),
           \A i \in DOMAIN p : p[i] \subseteq Probes0(c),
           NEW first \in BOOLEAN, first <=> p = <<>>
    PROVE  GoesOn(c, VcdSample(c, s, first)) /\ VcdRep(VcdSample(c, s, first), Append(p, s))
<1> DEFINE n == c.count + 1
           was == IF first THEN Probes0(c) \ s ELSE c.prev
           e == [kind |-> "change", at |-> IF c.rate THEN n ELSE -1,
                 high |-> s \ was, low |-> was \ s]
           items == IF s = was THEN <<>> ELSE <<e>>
           b == Emit(c, items)
           d == VcdSample(c, s, first)
           x == Of(c.out, "change")
           y == Of(d.out, "change")
           P == Probes0(c)
           m == Len(p)
           q == Append(p, s)
<1>1. d = [b EXCEPT !.count = n, !.prev = s]
  BY DEF VcdSample
<1>2. /\ DOMAIN b = DOMAIN c /\ GoesOn(c, b)
      /\ Of(b.out, "change") = IF s = was THEN x ELSE Append(x, e)
  <2>1. items = <<e>> \/ items = <<>>
    OBVIOUS
  <2>2. e.kind = "change" /\ <<e>> # <<>>
    OBVIOUS
  <2>3. (items = <<e>>) <=> (s # was)
    BY <2>2
  <2>4. /\ DOMAIN b = DOMAIN c /\ GoesOn(c, b)
        /\ Of(b.out, "change") = IF items = <<e>> /\ e.kind = "change"
                                 THEN Append(x, e) ELSE x
    <3> HIDE DEF e, items
    <3> QED BY <2>1, EmitOne
  <2> HIDE DEF e, b, items, was
  <2> QED BY <2>2, <2>3, <2>4
<1>3. /\ m \in Nat /\ q[m + 1] = s /\ Len(q) = m + 1 /\ q # <<>> /\ q[Len(q)] = s
      /\ (p = <<>> <=> m = 0) /\ DOMAIN p = 1 .. m
      /\ \A i \in 1 .. m : q[i] = p[i]
  BY OneMore
<1>4. c.count = m /\ n = m + 1
  BY DEF VcdRep
<1>5. IsSeq(x)
  BY OfOne DEF Shape
<1> HIDE DEF b
<1>6. /\ GoesOn(c, d) /\ d.count = m + 1 /\ d.prev = s /\ d.out = b.out
      /\ Probes0(d) = P
  <2>1. /\ DOMAIN d = DOMAIN b /\ d.count = n /\ d.prev = s /\ d.out = b.out
        /\ d.format = b.format /\ d.names = b.names /\ d.open = b.open
        /\ d.header = b.header /\ d.spl = b.spl /\ d.rate = b.rate
    BY <1>1, <1>2 DEF Shape, Fields
  <2> HIDE DEF d
  <2> QED BY <1>2, <1>4, <2>1 DEF GoesOn, Shape, Probes0
<1>7. y = IF s = was THEN x ELSE Append(x, e)
  BY <1>2, <1>6
<1> HIDE DEF d, q
<1>8. ASSUME c.rate
      PROVE  /\ \A i \in DOMAIN y : y[i].at \in 0 .. m + 1
             /\ \A j \in 1 .. m + 1 : LevelOf(y, j, P) = q[j]
  <2>1. /\ \A i \in DOMAIN x : x[i].at \in 0 .. m
        /\ \A j \in 1 .. m : LevelOf(x, j, P) = p[j]
    BY <1>8 DEF VcdRep
  <2>2. e.at = m + 1 /\ e.high = s \ was /\ e.low = was \ s
    BY <1>4, <1>8
  <2> HIDE DEF e
  <2>3. \A i \in DOMAIN y : y[i].at \in 0 .. m + 1
    <3>1. CASE s = was
      BY <1>3, <1>7, <2>1, <3>1
    <3>2. CASE s # was
      <4>1. y = Append(x, e)
        BY <1>7, <3>2
      <4>2. DOMAIN y = 1 .. Len(x) + 1 /\ DOMAIN x = 1 .. Len(x) /\ Len(x) \in Nat
            /\ (\A i \in 1 .. Len(x) : y[i] = x[i]) /\ y[Len(x) + 1] = e
        BY <1>5, <4>1, OneMore
      <4> HIDE DEF x, y
      <4> QED BY <1>3, <2>1, <2>2, <4>2
    <3> QED BY <3>1, <3>2
  <2>4. ASSUME NEW j \in 1 .. m PROVE LevelOf(y, j, P) = q[j]
    <3>1. LevelOf(x, j, P) = p[j] /\ q[j] = p[j]
      BY <1>3, <2>1
    <3>2. s # was => LevelOf(Append(x, e), j, P) = LevelOf(x, j, P)
      <4>1. j \in Nat /\ e.at \in Nat /\ e.at > j
        BY <1>3, <2>2
      <4> HIDE DEF x, P
      <4> QED BY <1>5, <4>1, LevelBefore
    <3> QED BY <1>7, <3>1, <3>2
  <2>5. LevelOf(y, m + 1, P) = s
    <3>1. \A i \in DOMAIN x : x[i].at <= m + 1 /\ x[i].at <= m
      BY <1>3, <2>1
    <3>2. LevelOf(x, m + 1, P) = LevelOf(x, m, P)
      <4>1. m \in Nat /\ m + 1 \in Nat
        BY <1>3
      <4> HIDE DEF x, P, m
      <4> QED BY <3>1, <4>1, LevelStays
    <3>3. ~first => was = LevelOf(x, m + 1, P)
      <4>1. ASSUME ~first PROVE was = LevelOf(x, m + 1, P)
        <5>1. m \in 1 .. m /\ c.prev = p[m]
          BY <1>3, <4>1 DEF VcdRep
        <5> QED BY <2>1, <3>2, <4>1, <5>1
      <4> QED BY <4>1
    <3>4. s # was => LevelOf(Append(x, e), m + 1, P)
             = {z \in P : z \in s \ was
                             \/ (z \in LevelOf(x, m + 1, P) /\ z \notin was \ s)}
      <4>1. m + 1 \in Nat /\ e.at = m + 1
        BY <1>3, <2>2
      <4>2. LevelOf(Append(x, e), m + 1, P)
             = {z \in P : z \in e.high
                             \/ (z \in LevelOf(x, m + 1, P) /\ z \notin e.low)}
        <5> HIDE DEF x, P
        <5> QED BY <1>5, <3>1, <4>1, LevelAfter
      <4> QED BY <2>2, <4>2
    <3>5. LevelOf(x, m + 1, P) \subseteq P
      BY DEF LevelOf
    <3>6. CASE first
      <4>1. was = P \ s
        BY <3>6
      <4>2. s # was => LevelOf(Append(x, e), m + 1, P) = s
        <5> HIDE DEF was, P, x
        <5> QED BY <3>4, <3>5, <4>1 DEF P
      <4>3. s # was
        <5>1. 0 \in P
          <6>1. IsSeq(c.names) /\ c.names # <<>>
            BY DEF Shape
          <6>2. Len(c.names) \in Nat /\ Len(c.names) # 0
            BY <6>1 DEF IsSeq
          <6> QED BY <6>2 DEF Probes0
        <5> HIDE DEF was, P
        <5> QED BY <4>1, <5>1
      <4> QED BY <1>7, <4>2, <4>3
    <3>7. CASE ~first
      <4>1. was = LevelOf(x, m + 1, P)
        BY <3>3, <3>7
      <4>2. s # was => LevelOf(Append(x, e), m + 1, P) = s
        <5>1. s \subseteq P
          OBVIOUS
        <5> HIDE DEF was, P, x
        <5> QED BY <3>4, <4>1, <3>5, <5>1
      <4> QED BY <1>7, <4>1, <4>2
    <3> QED BY <3>6, <3>7
  <2>6. ASSUME NEW j \in 1 .. m + 1 PROVE LevelOf(y, j, P) = q[j]
    <3>1. j \in 1 .. m \/ j = m + 1
      BY <1>3
    <3> QED BY <1>3, <2>4, <2>5, <3>1
  <2> QED BY <2>3, <2>6
<1>9. d.rate = c.rate
  BY <1>6 DEF GoesOn
<1> HIDE DEF x, y, P, m
<1> QED BY <1>3, <1>6, <1>8, <1>9 DEF VcdRep, d, q, y

\* A row more.
LEMMA CsvKeeps ==
    ASSUME NEW c, Shape(c), NEW p, IsSeq(p), CsvRep(c, p), NEW s
    PROVE  GoesOn(c, CsvSample(c, s)) /\ CsvRep(CsvSample(c, s), Append(p, s))
<1> DEFINE n == Len(c.names)
           e == CsvRow(s, n)
           d == Emit(c, <<e>>)
           q == Append(p, s)
           x == Of(c.out, "row")
           y == Of(d.out, "row")
           z == [i \in 1 .. Len(q) |-> CsvRow(q[i], n)]
<1>1. CsvSample(c, s) = d
  BY DEF CsvSample, CsvRow
<1>2. e.kind = "row"
  BY DEF CsvRow
<1>3. GoesOn(c, d) /\ y = Append(x, e)
  <2>1. GoesOn(c, d) /\ y = IF e.kind = "row" THEN Append(x, e) ELSE x
    <3> HIDE DEF e
    <3> QED BY EmitItem
  <2> HIDE DEF e, x, y, d
  <2> QED BY <1>2, <2>1
<1>4. d.names = c.names
  BY <1>3 DEF GoesOn
<1>5. /\ Len(p) \in Nat /\ q[Len(p) + 1] = s /\ Len(q) = Len(p) + 1
      /\ \A i \in 1 .. Len(p) : q[i] = p[i]
  BY OneMore
<1>6. IsSeq(x) /\ x = [i \in 1 .. Len(p) |-> CsvRow(p[i], n)]
  BY OfOne DEF CsvRep, Shape
<1> HIDE DEF e, d, q, x
<1>7. /\ Len(x) = Len(p) /\ IsSeq(y) /\ Len(y) = Len(p) + 1 /\ y[Len(p) + 1] = e
      /\ \A i \in 1 .. Len(p) : y[i] = x[i] /\ x[i] = CsvRow(p[i], n)
  <2>1. Len(x) = Len(p)
    BY <1>5, <1>6
  <2>2. \A i \in 1 .. Len(p) : x[i] = CsvRow(p[i], n)
    BY <1>6
  <2>3. IsSeq(y) /\ Len(y) = Len(x) + 1 /\ y[Len(x) + 1] = e
        /\ \A i \in 1 .. Len(x) : y[i] = x[i]
    <3> HIDE DEF y
    <3> QED BY <1>3, <1>6, OneMore
  <2> HIDE DEF y, n
  <2> QED BY <2>1, <2>2, <2>3
<1> HIDE DEF y
<1>8. y = z
  <2>1. IsSeq(z) /\ Len(z) = Len(p) + 1 /\ \A i \in 1 .. Len(p) + 1 : z[i] = CsvRow(q[i], n)
    <3>1. Len(z) = Len(p) + 1 /\ DOMAIN z = 1 .. Len(p) + 1
          /\ \A i \in 1 .. Len(p) + 1 : z[i] = CsvRow(q[i], n)
      BY <1>5
    <3>2. z \in Seq({CsvRow(q[i], n) : i \in 1 .. Len(p) + 1})
      BY <1>5
    <3> HIDE DEF z
    <3> QED BY <3>1, <3>2, AnySeq
  <2>2. ASSUME NEW i \in 1 .. Len(p) + 1 PROVE y[i] = z[i]
    <3>1. i \in 1 .. Len(p) \/ i = Len(p) + 1
      BY <1>5
    <3>2. e = CsvRow(s, n)
      BY DEF e
    <3> HIDE DEF z, n
    <3> QED BY <1>5, <1>7, <2>1, <3>1, <3>2
  <2>3. Len(y) = Len(z) /\ \A i \in 1 .. Len(y) : y[i] = z[i]
    <3> HIDE DEF z
    <3> QED BY <1>7, <2>1, <2>2
  <2> HIDE DEF z
  <2>4. PICK S : y \in Seq(S) /\ z \in Seq(S)
    BY <1>7, <2>1, TwoSeqs
  <2> QED BY <2>3, <2>4, SeqEqual
<1> QED BY <1>1, <1>3, <1>4, <1>8 DEF CsvRep, y, q

\* A numbered sample more.
LEMMA OlsKeeps ==
    ASSUME NEW c, Shape(c), NEW p, IsSeq(p), OlsRep(c, p), NEW s
    PROVE  GoesOn(c, OlsSample(c, s)) /\ OlsRep(OlsSample(c, s), Append(p, s))
<1> DEFINE E(i, t) == [kind |-> "sample", n |-> i - 1, s |-> t]
           e == [kind |-> "sample", n |-> c.count, s |-> s]
           b == Emit(c, <<e>>)
           d == OlsSample(c, s)
           q == Append(p, s)
           x == Of(c.out, "sample")
           y == Of(b.out, "sample")
           z == [i \in 1 .. Len(q) |-> E(i, q[i])]
<1>1. d = [b EXCEPT !.count = @ + 1]
  BY DEF OlsSample
<1>2. GoesOn(c, b) /\ DOMAIN b = DOMAIN c /\ b.count = c.count /\ y = Append(x, e)
  <2>1. /\ DOMAIN b = DOMAIN c /\ b.count = c.count
        /\ GoesOn(c, b)
        /\ y = IF e.kind = "sample" THEN Append(x, e) ELSE x
    <3> HIDE DEF e
    <3> QED BY EmitItem
  <2>2. e.kind = "sample"
    OBVIOUS
  <2> HIDE DEF e, x, y, b
  <2> QED BY <2>1, <2>2
<1> HIDE DEF b
<1>3. GoesOn(c, d) /\ d.count = c.count + 1 /\ d.out = b.out
  <2>1. /\ DOMAIN d = DOMAIN b /\ d.count = b.count + 1 /\ d.out = b.out
        /\ d.format = b.format /\ d.names = b.names /\ d.open = b.open
        /\ d.header = b.header /\ d.spl = b.spl /\ d.rate = b.rate
    BY <1>1, <1>2 DEF Shape, Fields
  <2> HIDE DEF d
  <2> QED BY <1>2, <2>1 DEF GoesOn, Shape
<1>5. /\ Len(p) \in Nat /\ q[Len(p) + 1] = s /\ Len(q) = Len(p) + 1
      /\ \A i \in 1 .. Len(p) : q[i] = p[i]
  BY OneMore
<1>6. IsSeq(x) /\ x = [i \in 1 .. Len(p) |-> E(i, p[i])] /\ c.count = Len(p)
  BY OfOne DEF OlsRep, Shape
<1>4. e = E(Len(p) + 1, s)
  BY <1>5, <1>6
<1> HIDE DEF e, d, q, x, E
<1>7. /\ Len(x) = Len(p) /\ IsSeq(y) /\ Len(y) = Len(p) + 1 /\ y[Len(p) + 1] = e
      /\ \A i \in 1 .. Len(p) : y[i] = x[i] /\ x[i] = E(i, p[i])
  <2>1. Len(x) = Len(p)
    BY <1>5, <1>6
  <2>2. \A i \in 1 .. Len(p) : x[i] = E(i, p[i])
    BY <1>6
  <2>3. IsSeq(y) /\ Len(y) = Len(x) + 1 /\ y[Len(x) + 1] = e
        /\ \A i \in 1 .. Len(x) : y[i] = x[i]
    <3> HIDE DEF y
    <3> QED BY <1>2, <1>6, OneMore
  <2> HIDE DEF y
  <2> QED BY <2>1, <2>2, <2>3
<1> HIDE DEF y
<1>8. y = z
  <2>1. IsSeq(z) /\ Len(z) = Len(p) + 1 /\ \A i \in 1 .. Len(p) + 1 : z[i] = E(i, q[i])
    <3>1. Len(z) = Len(p) + 1 /\ DOMAIN z = 1 .. Len(p) + 1
          /\ \A i \in 1 .. Len(p) + 1 : z[i] = E(i, q[i])
      BY <1>5
    <3>2. z \in Seq({E(i, q[i]) : i \in 1 .. Len(p) + 1})
      BY <1>5
    <3> HIDE DEF z
    <3> QED BY <3>1, <3>2, AnySeq
  <2>2. ASSUME NEW i \in 1 .. Len(p) + 1 PROVE y[i] = z[i]
    <3>1. i \in 1 .. Len(p) \/ i = Len(p) + 1
      BY <1>5
    <3> HIDE DEF z
    <3> QED BY <1>4, <1>5, <1>7, <2>1, <3>1
  <2>3. Len(y) = Len(z) /\ \A i \in 1 .. Len(y) : y[i] = z[i]
    <3> HIDE DEF z
    <3> QED BY <1>7, <2>1, <2>2
  <2> HIDE DEF z
  <2>4. PICK S : y \in Seq(S) /\ z \in Seq(S)
    BY <1>7, <2>1, TwoSeqs
  <2> QED BY <2>3, <2>4, SeqEqual
<1>9. Of(d.out, "sample") = [i \in 1 .. Len(q) |-> [kind |-> "sample", n |-> i - 1, s |-> q[i]]]
  BY <1>3, <1>8 DEF y, E
<1> QED BY <1>3, <1>5, <1>6, <1>9 DEF OlsRep, d, q

\* An element like the one before it is not seen without stutter.
LEMMA DestutterMore ==
    ASSUME NEW x, IsSeq(x), NEW e
    PROVE  Destutter(Append(x, e)) =
              IF x # <<>> /\ x[Len(x)] = e THEN Destutter(x) ELSE Append(Destutter(x), e)
<1> DEFINE y == Append(x, e)
           m == Len(x)
           P == {i \in DOMAIN x : i = 1 \/ x[i] # x[i - 1]}
           R == {i \in DOMAIN y : i = 1 \/ y[i] # y[i - 1]}
           S == {x[i] : i \in DOMAIN x} \cup {e}
<1>1. /\ m \in Nat /\ DOMAIN x = 1 .. m /\ DOMAIN y = 1 .. m + 1
      /\ \A i \in 1 .. m : y[i] = x[i]
      /\ y[m + 1] = e /\ (x = <<>> <=> m = 0)
  BY OneMore
<1> HIDE DEF y, m
<1>2. ASSUME NEW i \in 1 .. m PROVE i \in P <=> i \in R
  <2>1. i \in DOMAIN x /\ i \in DOMAIN y /\ y[i] = x[i]
    BY <1>1
  <2>2. i # 1 => i - 1 \in 1 .. m
    BY <1>1
  <2>3. i # 1 => y[i - 1] = x[i - 1]
    BY <1>1, <2>2
  <2> QED BY <2>1, <2>3
<1>3. m + 1 \in R <=> (m = 0 \/ x[m] # e)
  <2>1. m + 1 \in DOMAIN y /\ (m + 1) - 1 = m
    BY <1>1
  <2>2. m # 0 => m \in 1 .. m
    BY <1>1
  <2>3. m # 0 => y[m] = x[m]
    BY <1>1, <2>2
  <2>4. m = 0 <=> m + 1 = 1
    BY <1>1
  <2> QED BY <1>1, <2>1, <2>3, <2>4
<1>4. x \in Seq(S) /\ e \in S
  <2>1. x \in Seq({x[i] : i \in DOMAIN x})
    BY DEF IsSeq
  <2>2. \A i \in 1 .. Len(x) : x[i] \in S
    BY <1>1 DEF m
  <2> HIDE DEF S
  <2>3. x \in Seq(S)
    BY ONLY <2>1, <2>2, OtherRange
  <2> QED BY <2>3 DEF S
<1>5. Kept(Append(x, e), R) = IF Len(x) + 1 \in R THEN Append(Kept(x, P), e) ELSE Kept(x, P)
  <2>1. \A i \in 1 .. Len(x) : i \in P <=> i \in R
    BY <1>2 DEF m
  <2> HIDE DEF P, R, S
  <2> QED BY <1>4, <2>1, KeptAppend
<1>6. Destutter(y) = Kept(y, R) /\ Destutter(x) = Kept(x, P)
  BY DEF Destutter
<1> HIDE DEF P, R
<1> QED BY <1>1, <1>3, <1>5, <1>6 DEF y, m

\* Bits of samples are not those of what is above them.
LEMMA SameSample ==
    ASSUME NEW a \in Nat, NEW s \in WordOf(a), NEW t \in WordOf(a),
           NEW x \in Garbage(a), NEW y \in Garbage(a), s \cup x = t \cup y
    PROVE  s = t
<1> DEFINE n == a * ByteBits
<1>1. n \in Nat
  BY Widths
<1>2. s \subseteq 0 .. n - 1 /\ t \subseteq 0 .. n - 1
      /\ x \subseteq n .. WordBits - 1 /\ y \subseteq n .. WordBits - 1
  BY DEF WordOf, Garbage
<1> HIDE DEF n
<1>3. \A b \in 0 .. n - 1 : b \notin n .. WordBits - 1
  BY <1>1, Widths
<1> QED BY <1>2, <1>3

\* A point more, or a sample like the one before it.
LEMMA GnuplotKeeps ==
    ASSUME NEW c, Shape(c), NEW a \in Nat, NEW p \in Seq(WordOf(a)), GnuplotRep(c, p, a),
           NEW s \in WordOf(a), NEW garbage \in Garbage(a), NEW last
    PROVE  LET d == GnuplotSample(c, s, garbage, last)
           IN  GoesOn(c, d) /\ GnuplotRep(d, Append(p, s), a)
<1> DEFINE d == GnuplotSample(c, s, garbage, last)
           e == [kind |-> "point", n |-> c.count + 1, s |-> s]
           b == Emit(c, <<e>>)
           m == Len(p)
           q == Append(p, s)
           x == Of(c.out, "point")
           X == [i \in DOMAIN x |-> x[i].s]
           y == Of(d.out, "point")
           Y == [i \in DOMAIN y |-> y[i].s]
<1>1. /\ m \in Nat /\ q # <<>> /\ q[Len(q)] = s /\ (p = <<>> <=> m = 0)
      /\ IsSeq(p) /\ (p # <<>> => p[m] \in WordOf(a))
  <2>1. IsSeq(p) /\ (p # <<>> => p[m] \in WordOf(a))
    BY AnySeq
  <2> QED BY <2>1, OneMore
<1>2. /\ c.count \in Nat /\ (c.count = 0 <=> p = <<>>)
      /\ Destutter(X) = Destutter(p) /\ (p = <<>> <=> X = <<>>)
      /\ p # <<>> => /\ X[Len(X)] = p[m]
                     /\ \E g \in Garbage(a) : c.prev = p[m] \cup g
  BY DEF GnuplotRep
<1>3. IsSeq(x) /\ IsSeq(X) /\ Len(X) = Len(x) /\ DOMAIN x = 1 .. Len(x) /\ Len(x) \in Nat
  <2>1. IsSeq(x)
    BY OfOne DEF Shape
  <2>2. DOMAIN x = 1 .. Len(x) /\ Len(x) \in Nat
    BY <2>1, SeqIs
  <2> HIDE DEF x
  <2>3. X \in Seq({x[i].s : i \in DOMAIN x})
    BY <2>2
  <2>4. Len(X) = Len(x)
    BY <2>2
  <2> HIDE DEF X
  <2> QED BY <2>1, <2>2, <2>3, <2>4, AnySeq
<1>4. Destutter(q) = IF p # <<>> /\ p[m] = s THEN Destutter(p) ELSE Append(Destutter(p), s)
  BY <1>1, DestutterMore
<1>5. CASE c.count # 0 /\ s \cup garbage = c.prev /\ ~last
  <2>1. d = [c EXCEPT !.count = @ + 1]
    BY <1>5 DEF GnuplotSample
  <2>2. GoesOn(c, d) /\ d.out = c.out /\ d.count = c.count + 1 /\ d.prev = c.prev
    <3>1. /\ DOMAIN d = DOMAIN c /\ d.count = c.count + 1 /\ d.out = c.out
          /\ d.prev = c.prev
          /\ d.format = c.format /\ d.names = c.names /\ d.open = c.open
          /\ d.header = c.header /\ d.spl = c.spl /\ d.rate = c.rate
      BY <2>1 DEF Shape, Fields
    <3> HIDE DEF d
    <3> QED BY <3>1 DEF GoesOn, Shape
  <2>3. PICK g \in Garbage(a) : c.prev = p[m] \cup g
    BY <1>2, <1>5
  <2>4. p[m] = s
    BY <1>1, <1>2, <1>5, <2>3, SameSample
  <2>5. c.prev = s \cup g
    BY <2>3, <2>4
  <2>6. Y = X
    BY <2>2
  <2>7. d.count \in Nat /\ d.count # 0
    BY <1>2, <2>2
  <2>8. Destutter(Y) = Destutter(q) /\ X # <<>> /\ Y[Len(Y)] = s
    BY <1>2, <1>4, <1>5, <2>4, <2>6
  <2> HIDE DEF d, X, Y, q, x
  <2> QED BY <1>1, <2>2, <2>5, <2>6, <2>7, <2>8 DEF GnuplotRep, Y, q, d
<1>6. CASE ~(c.count # 0 /\ s \cup garbage = c.prev /\ ~last)
  <2>1. d = [b EXCEPT !.count = @ + 2, !.prev = s \cup garbage]
    BY <1>6 DEF GnuplotSample
  <2>2. /\ GoesOn(c, b) /\ DOMAIN b = DOMAIN c /\ b.count = c.count
        /\ Of(b.out, "point") = Append(x, e)
    <3>1. /\ DOMAIN b = DOMAIN c /\ b.count = c.count
          /\ GoesOn(c, b)
          /\ Of(b.out, "point") = IF e.kind = "point" THEN Append(x, e) ELSE x
      <4> HIDE DEF e
      <4> HIDE DEF d, X, Y, y, q, m
      <4> QED BY ONLY Shape(c), EmitItem, SMTT(30)
    <3>2. e.kind = "point"
      OBVIOUS
    <3> HIDE DEF e, x, b
    <3> QED BY <3>1, <3>2
  <2> HIDE DEF b
  <2>3. GoesOn(c, d) /\ d.out = b.out /\ d.count = c.count + 2 /\ d.prev = s \cup garbage
    <3>1. /\ DOMAIN d = DOMAIN b /\ d.count = b.count + 2 /\ d.out = b.out
          /\ d.prev = s \cup garbage
          /\ d.format = b.format /\ d.names = b.names /\ d.open = b.open
          /\ d.header = b.header /\ d.spl = b.spl /\ d.rate = b.rate
      BY <2>1, <2>2 DEF Shape, Fields
    <3> HIDE DEF d
    <3> QED BY <2>2, <3>1 DEF GoesOn, Shape
  <2>4. y = Append(x, e)
    BY <2>2, <2>3
  <2>5. Y = Append(X, s)
    <3>1. e.s = s
      OBVIOUS
    <3> HIDE DEF x, y, e, d
    <3>2. /\ IsSeq(y) /\ Len(y) = Len(x) + 1 /\ DOMAIN y = 1 .. Len(x) + 1
          /\ \A i \in 1 .. Len(x) : y[i] = x[i]
          /\ y[Len(x) + 1] = e
      BY <1>3, <2>4, OneMore
    <3>3. DOMAIN Y = 1 .. Len(x) + 1 /\ Y[Len(x) + 1] = s
          /\ \A i \in 1 .. Len(x) : Y[i] = X[i]
      BY <1>3, <3>1, <3>2
    <3>4. Y \in Seq({y[i].s : i \in DOMAIN y}) /\ Len(Y) = Len(x) + 1
      BY <1>3, <3>2
    <3> HIDE DEF X, Y
    <3>5. IsSeq(Y)
      BY <3>4, AnySeq
    <3> DEFINE Z == Append(X, s)
    <3>6. /\ IsSeq(Z) /\ Len(Z) = Len(x) + 1
          /\ \A i \in 1 .. Len(x) : Z[i] = X[i]
          /\ Z[Len(x) + 1] = s
      BY <1>3, OneMore
    <3> HIDE DEF Z
    <3>7. \A i \in 1 .. Len(Y) : Y[i] = Z[i]
      <4> SUFFICES ASSUME NEW i \in 1 .. Len(Y) PROVE Y[i] = Z[i]
        OBVIOUS
      <4>1. i \in 1 .. Len(x) \/ i = Len(x) + 1
        BY <1>3, <3>4
      <4> QED BY <3>3, <3>6, <4>1
    <3>8. PICK S : Y \in Seq(S) /\ Z \in Seq(S)
      BY <3>5, <3>6, TwoSeqs
    <3>9. Y = Z
      BY <3>4, <3>6, <3>7, <3>8, SeqEqual
    <3> QED BY <3>9 DEF Z
  <2>6. Destutter(Y) = IF X # <<>> /\ X[Len(X)] = s THEN Destutter(X)
                       ELSE Append(Destutter(X), s)
    <3> HIDE DEF X, Y
    <3> QED BY <1>3, <2>5, DestutterMore
  <2>7. Destutter(Y) = Destutter(q)
    <3> HIDE DEF X, Y, q
    <3> QED BY <1>2, <1>4, <2>6
  <2>8. Y # <<>> /\ Y[Len(Y)] = s
    <3> HIDE DEF X, Y
    <3> QED BY <1>3, <2>5, OneMore
  <2>9. d.count \in Nat /\ d.count # 0
    BY <1>2, <2>3
  <2> HIDE DEF d, X, Y, q, x
  <2> QED BY <1>1, <2>3, <2>7, <2>8, <2>9 DEF GnuplotRep, Y, q, d
<1> QED BY <1>5, <1>6

-----------------------------------------------------------------------------
(* A sample, in the text formats *)

\* A line of which only the last cell may be missing a separator is whole.
LEMMA ShownIs ==
    ASSUME NEW line, IsSeq(line), line # <<>>, \A x \in 1 .. Len(line) - 1 : line[x].sep
    PROVE  Shown(line) = line
<1> DEFINE ends == {i \in DOMAIN line : ~line[i].sep}
           n == Len(line)
<1>1. n \in Nat /\ DOMAIN line = 1 .. n /\ n # 0 /\ line \in Seq({line[i] : i \in DOMAIN line})
  <2>1. line \in Seq({line[i] : i \in DOMAIN line})
    BY DEF IsSeq
  <2> HIDE DEF n
  <2>2. n \in Nat /\ DOMAIN line = 1 .. n
    BY SeqIs DEF n
  <2>3. n # 0
    BY <2>1 DEF n
  <2> QED BY <2>1, <2>2, <2>3
<1>2. ends \cup {n} = {n}
  BY <1>1
<1> HIDE DEF ends, n
<1>3. Min({n}) = n
  BY <1>1 DEF Min
<1>4. Shown(line) = SubSeq(line, 1, n)
  BY <1>2, <1>3 DEF Shown, ends, n
<1>5. SubSeq(line, 1, Len(line)) = line
  BY <1>1
<1> QED BY <1>4, <1>5 DEF n

\* What a line is in the output.
LineOf(c) == [kind |-> "line", mark |-> c.mark, cells |-> c.line]

\* A line is written.
LEMMA FlushIs ==
    ASSUME NEW c, Shape(c), IsSeq(c.line), c.line # <<>>,
           \A x \in 1 .. Len(c.line) - 1 : c.line[x].sep
    PROVE  LET d == Flush(c)
           IN  /\ DOMAIN d = DOMAIN c /\ GoesOn(c, d) /\ d.line = <<>>
               /\ \A f \in DOMAIN c : f \notin {"out", "line"} => d[f] = c[f]
               /\ \A kind : Of(d.out, kind) = IF kind = "line"
                                             THEN Append(Of(c.out, kind), LineOf(c))
                                             ELSE Of(c.out, kind)
<1> DEFINE e == LineOf(c)
           b == Emit(c, <<e>>)
           d == Flush(c)
<1>1. e = [kind |-> "line", mark |-> c.mark, cells |-> Shown(c.line)] /\ e.kind = "line"
  BY ShownIs DEF LineOf
<1>2. d = [b EXCEPT !.line = <<>>]
  BY <1>1 DEF Flush
<1>3. /\ DOMAIN b = DOMAIN c /\ GoesOn(c, b)
      /\ \A f \in DOMAIN c : f # "out" => b[f] = c[f]
  <2> HIDE DEF e
  <2> QED BY EmitItem
<1>4. ASSUME NEW kind
      PROVE  Of(b.out, kind) = IF e.kind = kind THEN Append(Of(c.out, kind), e)
                               ELSE Of(c.out, kind)
  <2> HIDE DEF e, d
  <2> QED BY ONLY Shape(c), EmitItem, SMTT(30)
<1> HIDE DEF b, e
<1>5. DOMAIN d = DOMAIN c /\ d.line = <<>> /\ d.out = b.out
      /\ \A f \in DOMAIN c : f # "line" => d[f] = b[f]
  BY <1>2, <1>3 DEF Shape, Fields
<1> HIDE DEF d
<1>6. \A f \in DOMAIN c : f \notin {"out", "line"} => d[f] = c[f]
  BY <1>3, <1>5
<1>7. GoesOn(c, d)
  <2>1. /\ d.format = b.format /\ d.names = b.names /\ d.open = b.open
        /\ d.header = b.header /\ d.spl = b.spl /\ d.rate = b.rate
    BY <1>5 DEF Shape, Fields
  <2> QED BY <1>3, <1>5, <2>1 DEF GoesOn, Shape
<1>8. ASSUME NEW kind
      PROVE  Of(d.out, kind) = IF kind = "line" THEN Append(Of(c.out, kind), LineOf(c))
                               ELSE Of(c.out, kind)
  BY <1>1, <1>4, <1>5 DEF e
<1> QED BY <1>5, <1>6, <1>7, <1>8 DEF d

\* What is the same before and after a line.
Beside(c, d) ==
    /\ DOMAIN d = DOMAIN c /\ GoesOn(c, d) /\ d.values = c.values /\ d.prev = c.prev

\* A line ends, with or without its mark; or it does not.
LEMMA EndOfLineIs ==
    ASSUME NEW c, Shape(c), IsSeq(c.line), c.line # <<>>,
           \A x \in 1 .. Len(c.line) - 1 : c.line[x].sep,
           NEW d, NEW forgotten \in BOOLEAN,
           d = IF forgotten THEN EndOfMarkedLine(c) ELSE EndOfLine(c)
    PROVE  IF c.cnt >= c.spl
           THEN /\ Beside(c, d) /\ d.line = <<>> /\ d.cnt = 0 /\ d.off = 0
                /\ d.mark = IF forgotten THEN -1 ELSE c.mark
                /\ Of(d.out, "line") = Append(Of(c.out, "line"), LineOf(c))
           ELSE d = c
<1>1. CASE ~(c.cnt >= c.spl)
  BY <1>1 DEF EndOfLine, EndOfMarkedLine
<1>2. CASE c.cnt >= c.spl
  <2> DEFINE b == Flush(c)
             m == IF forgotten THEN -1 ELSE c.mark
  <2>1. /\ DOMAIN b = DOMAIN c /\ GoesOn(c, b) /\ b.line = <<>>
        /\ \A f \in DOMAIN c : f \notin {"out", "line"} => b[f] = c[f]
        /\ Of(b.out, "line") = Append(Of(c.out, "line"), LineOf(c))
    BY FlushIs
  <2>2. EndOfLine(c) = [b EXCEPT !.cnt = 0, !.off = 0]
    BY <1>2 DEF EndOfLine
  <2>3. d = IF forgotten THEN [[b EXCEPT !.cnt = 0, !.off = 0] EXCEPT !.mark = -1]
            ELSE [b EXCEPT !.cnt = 0, !.off = 0]
    BY <1>2, <2>2 DEF EndOfMarkedLine
  <2> HIDE DEF b
  <2>4. Fields \subseteq DOMAIN b
    BY <2>1 DEF Shape
  <2>5. /\ b.mark = c.mark /\ b.values = c.values /\ b.prev = c.prev
    BY <2>1, <2>4 DEF Shape, Fields
  <2>6. /\ DOMAIN d = DOMAIN b /\ d.cnt = 0 /\ d.off = 0 /\ d.line = b.line /\ d.mark = m
        /\ d.out = b.out /\ d.values = b.values /\ d.prev = b.prev
        /\ d.format = b.format /\ d.names = b.names /\ d.open = b.open
        /\ d.header = b.header /\ d.spl = b.spl /\ d.rate = b.rate
    <3>1. CASE forgotten
      BY <2>3, <2>4, <3>1 DEF Fields
    <3>2. CASE ~forgotten
      BY <2>3, <2>4, <2>5, <3>2 DEF Fields
    <3> QED BY <3>1, <3>2
  <2>7. Beside(c, d)
    BY <2>1, <2>5, <2>6 DEF Beside, GoesOn, Shape
  <2> QED BY <1>2, <2>1, <2>6, <2>7
<1> QED BY <1>1, <1>2

\* What a line shows, it shows of more samples too; the last sample but for
\* its edge.
LEMMA CellsLater ==
    ASSUME NEW format \in Text, NEW p, IsSeq(p), NEW s, NEW b \in Nat, NEW n \in Nat,
           b + n <= Len(p), format = "ascii" => b + n < Len(p),
           NEW cells, Cells(format, cells, b, n, p)
    PROVE  Cells(format, cells, b, n, Append(p, s))
<1> DEFINE x == Append(p, s)
           m == Len(p)
<1>1. m \in Nat /\ Len(x) = m + 1 /\ \A i \in 1 .. m : x[i] = p[i]
  BY OneMore
<1> HIDE DEF x, m
<1>2. b + n <= m /\ (format = "ascii" => b + n < m)
  BY DEF m
<1>3. ASSUME BitCells(cells, b, n, p) PROVE BitCells(cells, b, n, x)
  <2>1. \A q \in 1 .. n : b + q \in 1 .. m
    BY <1>1, <1>2
  <2> QED BY <1>1, <1>3, <2>1 DEF BitCells
<1>4. ASSUME EdgeCells(cells, b, n, p), b + n < m PROVE EdgeCells(cells, b, n, x)
  <2>1. \A q \in 1 .. n : /\ b + q \in 1 .. m /\ b + q + 1 \in 1 .. m /\ b + q < m
                          /\ b + q # 1 => b + q - 1 \in 1 .. m
    BY <1>1, <1>4
  <2>2. ASSUME NEW q \in 1 .. n
        PROVE  /\ cells[q].rise = x[b + q] \ (IF b + q = 1 THEN {} ELSE x[b + q - 1])
               /\ cells[q].fall = x[b + q] \ x[b + q + 1]
    <3>1. /\ x[b + q] = p[b + q] /\ x[b + q + 1] = p[b + q + 1] /\ b + q < m
          /\ b + q # 1 => x[b + q - 1] = p[b + q - 1]
      BY <1>1, <2>1
    <3>2. /\ cells[q].rise = p[b + q] \ (IF b + q = 1 THEN {} ELSE p[b + q - 1])
          /\ cells[q].fall = p[b + q] \ p[b + q + 1]
      BY <1>4, <3>1 DEF EdgeCells, m
    <3> QED BY <3>1, <3>2
  <2> QED BY <2>2 DEF EdgeCells
<1>5. ASSUME HexCells(cells, b, n, p) PROVE HexCells(cells, b, n, x)
  <2>1. \A q \in 0 .. n - 1 : b + q + 1 \in 1 .. m
    BY <1>1, <1>2
  <2>2. \A q \in 0 .. n - 1 : x[b + q + 1] = p[b + q + 1]
    BY <1>1, <2>1
  <2> QED BY <1>5, <2>2 DEF HexCells
<1> QED BY <1>2, <1>3, <1>4, <1>5 DEF Cells, Text, x

\* The full lines do when there are more samples,
LEMMA LinesLater ==
    ASSUME NEW format \in Text, NEW p, IsSeq(p), NEW s, NEW lines, IsSeq(lines),
           Len(lines) * SamplesPerLine <= Len(p),
           format = "ascii" => Len(lines) * SamplesPerLine < Len(p),
           FullLines(format, lines, p)
    PROVE  FullLines(format, lines, Append(p, s))
<1> SUFFICES ASSUME NEW i \in 1 .. Len(lines)
             PROVE  Cells(format, lines[i].cells, (i - 1) * SamplesPerLine, SamplesPerLine,
                          Append(p, s))
  BY DEF FullLines
<1> DEFINE z == SamplesPerLine
           n == Len(lines)
           b == (i - 1) * z
           m == Len(p)
           t == n * z
<1>0. m \in Nat /\ n \in Nat /\ z \in Nat
  BY SeqIs, Sizes
<1>1. b \in Nat /\ t \in Int /\ b + z <= t /\ i \in Int
  <2>1. i - 1 \in Int /\ i \in Int /\ n \in Int /\ i <= n /\ i - 1 >= 0
    BY <1>0
  <2>2. b \in Int /\ i * z \in Int /\ t \in Int /\ b >= 0 /\ i * z <= t /\ b = i * z - z
    BY <1>0, <2>1, Multiples
  <2> HIDE DEF b, t, z, n
  <2> QED BY <1>0, <2>1, <2>2
<1>2. t <= m /\ (format = "ascii" => t < m)
  OBVIOUS
<1> HIDE DEF b, t, n
<1>3. b + z <= m /\ (format = "ascii" => b + z < m)
  <2> HIDE DEF m, z
  <2> QED BY <1>0, <1>1, <1>2
<1>4. Cells(format, lines[i].cells, b, z, p)
  BY DEF FullLines, b
<1>5. Cells(format, lines[i].cells, b, z, Append(p, s))
  <2> HIDE DEF z
  <2> QED BY <1>0, <1>1, <1>3, <1>4, CellsLater DEF m
<1> QED BY <1>5 DEF b

\* and when there is a line more.
LEMMA LinesMore ==
    ASSUME NEW format \in Text, NEW p, NEW lines, IsSeq(lines), FullLines(format, lines, p),
           NEW e, Cells(format, e.cells, Len(lines) * SamplesPerLine, SamplesPerLine, p),
           NEW m
    PROVE  /\ FullLines(format, Append(lines, e), p)
           /\ Len(Append(lines, e)) * SamplesPerLine
              = Len(lines) * SamplesPerLine + SamplesPerLine
           /\ MarkedLines(lines, m)
              /\ e.mark = MarkOf(Len(lines) * SamplesPerLine, SamplesPerLine, m)
              => MarkedLines(Append(lines, e), m)
<1> DEFINE x == Append(lines, e)
           n == Len(lines)
<1>1. /\ n \in Nat /\ Len(x) = n + 1 /\ x[n + 1] = e /\ \A i \in 1 .. n : x[i] = lines[i]
  BY OneMore
<1>2. (n + 1) * SamplesPerLine = n * SamplesPerLine + SamplesPerLine /\ (n + 1) - 1 = n
  <2>1. n \in Int /\ SamplesPerLine \in Nat
    BY <1>1, Sizes
  <2> HIDE DEF n
  <2> QED BY <2>1, Multiples
<1> HIDE DEF x, n
<1>3. \A i \in 1 .. Len(x) : i \in 1 .. n \/ i = n + 1
  BY <1>1
<1>4. FullLines(format, x, p)
  <2> SUFFICES ASSUME NEW i \in 1 .. Len(x)
               PROVE  Cells(format, x[i].cells, (i - 1) * SamplesPerLine, SamplesPerLine, p)
    BY DEF FullLines
  <2>1. CASE i \in 1 .. n
    BY <1>1, <2>1 DEF FullLines, n
  <2>2. CASE i = n + 1
    <3>1. Cells(format, e.cells, n * SamplesPerLine, SamplesPerLine, p)
      BY DEF n
    <3> QED BY <1>1, <1>2, <2>2, <3>1
  <2> QED BY <1>3, <2>1, <2>2
<1>5. ASSUME MarkedLines(lines, m), e.mark = MarkOf(n * SamplesPerLine, SamplesPerLine, m)
      PROVE  MarkedLines(x, m)
  <2> SUFFICES ASSUME NEW i \in 1 .. Len(x)
               PROVE  x[i].mark = MarkOf((i - 1) * SamplesPerLine, SamplesPerLine, m)
    BY DEF MarkedLines
  <2>1. CASE i \in 1 .. n
    BY <1>1, <1>5, <2>1 DEF MarkedLines, n
  <2>2. CASE i = n + 1
    BY <1>1, <1>2, <1>5, <2>2
  <2> QED BY <1>3, <2>1, <2>2
<1> QED BY <1>1, <1>2, <1>4, <1>5 DEF x, n


\* What cells of a line are, of which it shows a number of samples.
LEMMA LineShape ==
    ASSUME NEW format \in Text, NEW cells, NEW b, NEW n \in Nat, NEW p,
           Cells(format, cells, b, n, p)
    PROVE  /\ IsSeq(cells) /\ \A x \in 1 .. Len(cells) - 1 : cells[x].sep
           /\ n = 0 <=> cells = <<>>
<1>1. CASE format = "hex"
  <2>1. /\ IsSeq(cells) /\ Len(cells) = UnitsizeOf(n)
        /\ \A x \in 1 .. Len(cells) : x * ByteBits <= n => cells[x].sep
    BY <1>1 DEF Cells, HexCells
  <2>2. UnitsizeOf(n) \in Nat /\ (n > 0 => UnitsizeOf(n) # 0) /\ (n = 0 => UnitsizeOf(n) = 0)
    <3>1. 0 = 0 * ByteBits
      BY Widths
    <3> QED BY <3>1, UnitsizeIs
  <2>3. n = 0 <=> cells = <<>>
    BY <2>1, <2>2 DEF IsSeq
  <2>4. ASSUME NEW x \in 1 .. Len(cells) - 1 PROVE cells[x].sep
    <3>1. UnitsizeOf(n) * ByteBits < n + ByteBits
      BY Widths, DivUp DEF UnitsizeOf
    <3>2. x \in Int /\ x + 1 <= UnitsizeOf(n) /\ x \in 1 .. Len(cells)
      BY <2>1, <2>2
    <3>3. (x + 1) * ByteBits <= UnitsizeOf(n) * ByteBits /\ (x + 1) * ByteBits = x * ByteBits + ByteBits
          /\ x * ByteBits \in Int /\ UnitsizeOf(n) * ByteBits \in Int
      BY <2>2, <3>2, Widths, Multiples
    <3>4. x * ByteBits <= n
      BY <3>1, <3>3, Widths
    <3> QED BY <2>1, <3>2, <3>4
  <2> QED BY <2>1, <2>3, <2>4
<1>2. CASE format # "hex"
  <2>1. IsSeq(cells) /\ Len(cells) = n /\ \A q \in 1 .. n : cells[q].sep
    BY <1>2 DEF Cells, BitCells, Text
  <2>2. n = 0 <=> cells = <<>>
    BY <2>1 DEF IsSeq
  <2> QED BY <2>1, <2>2
<1> QED BY <1>1, <1>2

\* An empty line shows no samples.
LEMMA NoCells ==
    ASSUME NEW format \in Text, NEW b, NEW p
    PROVE  Cells(format, <<>>, b, 0, p)
<1>1. IsSeq(<<>>) /\ Len(<<>>) = 0
  <2>1. <<>> \in Seq({1})
    OBVIOUS
  <2> QED BY <2>1, AnySeq
<1>2. UnitsizeOf(0) = 0
  <2>1. 0 = 0 * ByteBits
    BY Widths
  <2> QED BY <2>1, UnitsizeIs
<1>3. BitCells(<<>>, b, 0, p) /\ EdgeCells(<<>>, b, 0, p)
  BY <1>1 DEF BitCells, EdgeCells
<1>4. HexCells(<<>>, b, 0, p)
  BY <1>1, <1>2 DEF HexCells
<1> QED BY <1>3, <1>4 DEF Cells, Text

\* What shows samples does so of a line that is full, and then ends, and of one
\* that is not.
LEMMA LineEnds ==
    ASSUME NEW format \in Text, NEW c, Shape(c), c.format = format,
           NEW p, NEW n, TextLines(c, p, n), NEW d, NEW forgotten \in BOOLEAN,
           d = IF forgotten THEN EndOfMarkedLine(c) ELSE EndOfLine(c)
    PROVE  /\ Beside(c, d) /\ Shape(d) /\ TextLines(d, p, n) /\ d.cnt < SamplesPerLine
           /\ c.cnt < SamplesPerLine => d = c
           /\ c.cnt = SamplesPerLine =>
                 /\ d.cnt = 0 /\ d.off = 0 /\ d.mark = IF forgotten THEN -1 ELSE c.mark
                 /\ Of(d.out, "line") = Append(Of(c.out, "line"), LineOf(c))
<1> DEFINE lines == Of(c.out, "line")
           b == Len(lines) * SamplesPerLine
           z == SamplesPerLine
<1>1. /\ c.spl = z /\ c.cnt \in 0 .. z /\ n = b + c.cnt
      /\ Cells(format, c.line, b, c.cnt, p) /\ FullLines(format, lines, p)
  BY DEF TextLines
<1>2. IsSeq(lines) /\ Len(lines) \in Nat /\ z \in Nat \ {0}
  BY OfOne, SeqIs, Sizes DEF Shape
<1> HIDE DEF lines, b, z
<1>3. /\ IsSeq(c.line) /\ \A x \in 1 .. Len(c.line) - 1 : c.line[x].sep
      /\ c.cnt = 0 <=> c.line = <<>>
  <2>1. c.cnt \in Nat
    BY <1>1, <1>2
  <2> QED BY <1>1, <2>1, LineShape
<1>4. CASE c.cnt < z
  <2>1. d = c
    BY <1>1, <1>2, <1>4 DEF EndOfLine, EndOfMarkedLine
  <2>2. Beside(c, d)
    BY <2>1 DEF Beside, GoesOn
  <2> QED BY <1>1, <1>2, <1>4, <2>1, <2>2 DEF z
<1>5. CASE c.cnt = z
  <2>1. c.line # <<>> /\ c.cnt >= c.spl
    BY <1>1, <1>2, <1>3, <1>5
  <2>2. /\ Beside(c, d) /\ d.line = <<>> /\ d.cnt = 0 /\ d.off = 0
        /\ d.mark = IF forgotten THEN -1 ELSE c.mark
        /\ Of(d.out, "line") = Append(lines, LineOf(c))
    BY <1>3, <2>1, EndOfLineIs DEF lines
  <2>3. /\ Shape(d) /\ d.format = format /\ d.spl = z
    BY <1>1, <2>2 DEF Beside, GoesOn
  <2> DEFINE e == LineOf(c)
             more == Append(lines, e)
  <2>4. e.cells = c.line
    BY DEF LineOf
  <2> HIDE DEF e
  <2>5. FullLines(format, more, p) /\ Len(more) * z = b + z
    <3>1. Cells(format, e.cells, Len(lines) * SamplesPerLine, SamplesPerLine, p)
      BY <1>1, <1>5, <2>4 DEF b, z
    <3> HIDE DEF more
    <3> QED BY <1>1, <1>2, <3>1, LinesMore DEF more, z, b
  <2>6. Cells(format, <<>>, Len(more) * z, 0, p)
    BY NoCells
  <2>7. Of(d.out, "line") = more
    BY <2>2 DEF e
  <2>8. b \in Nat
    BY <1>2, Multiples DEF b, z
  <2>9. n = Len(more) * z + d.cnt /\ d.cnt \in 0 .. z /\ d.cnt < z
    <3> HIDE DEF more
    <3> QED BY <1>1, <1>2, <1>5, <2>2, <2>5, <2>8
  <2>10. TextLines(d, p, n)
    <3> HIDE DEF more
    <3>1. Cells(d.format, d.line, Len(Of(d.out, "line")) * SamplesPerLine, d.cnt, p)
      BY <2>2, <2>3, <2>6, <2>7 DEF z
    <3>2. FullLines(d.format, Of(d.out, "line"), p)
      BY <2>3, <2>5, <2>7
    <3> QED BY <2>3, <2>7, <2>9, <3>1, <3>2 DEF TextLines, z
  <2> QED BY <1>2, <1>5, <2>2, <2>3, <2>9, <2>10 DEF z, lines
<1> QED BY <1>1, <1>2, <1>4, <1>5

\* A sample more in a line of bits, and the mark of the trigger stays.
LEMMA BitsKeeps ==
    ASSUME NEW c, Shape(c), c.format = "bits", NEW p, IsSeq(p), TextRep(c, p), NEW s
    PROVE  LET d == BitsSample(c, s) IN
           /\ GoesOn(c, d) /\ TextRep(d, Append(p, s))
           /\ \A m : Marks(c, p, m) => Marks(d, Append(p, s), m)
<1> DEFINE q == Append(p, s)
           cell == Cell(s, {}, <<>>, TRUE)
           e == [c EXCEPT !.line = Append(@, cell), !.cnt = @ + 1]
           d == BitsSample(c, s)
           lines == Of(c.out, "line")
           b == Len(lines) * SamplesPerLine
           z == SamplesPerLine
           n == Len(p)
<1>1. /\ c.spl = z /\ c.cnt \in 0 .. z /\ c.cnt < z /\ n = b + c.cnt
      /\ Cells("bits", c.line, b, c.cnt, p) /\ FullLines("bits", lines, p)
  BY DEF TextRep, TextLines
<1>2. IsSeq(lines) /\ Len(lines) \in Nat /\ z \in Nat \ {0} /\ b \in Nat
  <2>1. IsSeq(lines) /\ Len(lines) \in Nat /\ z \in Nat \ {0}
    BY OfOne, SeqIs, Sizes DEF Shape
  <2> HIDE DEF lines
  <2> QED BY <2>1, Multiples
<1>3. /\ n \in Nat /\ IsSeq(q) /\ Len(q) = n + 1 /\ q[n + 1] = s
      /\ \A i \in 1 .. n : q[i] = p[i]
  BY OneMore
<1>4. d = EndOfMarkedLine(e)
  BY DEF BitsSample
<1>5. cell.high = s /\ cell.sep
  BY DEF Cell
<1> HIDE DEF cell
<1>6. /\ DOMAIN e = DOMAIN c /\ GoesOn(c, e) /\ e.line = Append(c.line, cell)
      /\ e.cnt = c.cnt + 1 /\ e.out = c.out /\ e.mark = c.mark
  <2>1. /\ DOMAIN e = DOMAIN c /\ e.line = Append(c.line, cell)
        /\ e.cnt = c.cnt + 1 /\ e.out = c.out /\ e.mark = c.mark
        /\ e.format = c.format /\ e.names = c.names /\ e.open = c.open
        /\ e.header = c.header /\ e.spl = c.spl /\ e.rate = c.rate
    BY DEF Shape, Fields
  <2> HIDE DEF e
  <2> QED BY <2>1 DEF GoesOn, Shape
<1> HIDE DEF e, d, q, lines, b, z, n
<1>7. Cells("bits", e.line, b, e.cnt, q)
  <2>1. /\ IsSeq(c.line) /\ Len(c.line) = c.cnt
        /\ \A i \in 1 .. c.cnt : c.line[i].sep /\ c.line[i].high = p[b + i]
    BY <1>1 DEF Cells, BitCells
  <2>2. /\ IsSeq(e.line) /\ Len(e.line) = c.cnt + 1 /\ e.line[c.cnt + 1] = cell
        /\ \A i \in 1 .. c.cnt : e.line[i] = c.line[i]
    BY <1>6, <2>1, OneMore
  <2>3. ASSUME NEW i \in 1 .. c.cnt + 1 PROVE e.line[i].sep /\ e.line[i].high = q[b + i]
    <3>1. CASE i = c.cnt + 1
      <4>1. b + i = n + 1
        BY <1>1, <1>2, <3>1
      <4> QED BY <1>3, <1>5, <2>2, <3>1, <4>1
    <3>2. CASE i # c.cnt + 1
      <4>1. i \in 1 .. c.cnt /\ b + i \in 1 .. n
        BY <1>1, <1>2, <3>2
      <4> QED BY <1>3, <2>1, <2>2, <4>1
    <3> QED BY <3>1, <3>2
  <2> QED BY <1>6, <2>2, <2>3 DEF Cells, BitCells
<1>8. FullLines("bits", lines, q)
  <2>1. "bits" \in Text /\ "bits" # "ascii" /\ b <= n
    BY <1>1, <1>2 DEF Text
  <2> QED BY <1>1, <1>2, <2>1, LinesLater DEF q, b, n, z
<1>9. TextLines(e, q, n + 1)
  BY <1>1, <1>2, <1>3, <1>6, <1>7, <1>8 DEF TextLines, GoesOn, lines, b, z
<1>10. /\ Beside(e, d) /\ Shape(d) /\ TextLines(d, q, n + 1) /\ d.cnt < z
       /\ e.cnt < z => d = e
       /\ e.cnt = z => /\ d.cnt = 0 /\ d.mark = -1
                       /\ Of(d.out, "line") = Append(Of(e.out, "line"), LineOf(e))
  <2>1. "bits" \in Text /\ e.format = "bits" /\ Shape(e)
    BY <1>6 DEF Text, GoesOn
  <2>2. PICK forgotten \in BOOLEAN : forgotten
    OBVIOUS
  <2>3. d = IF forgotten THEN EndOfMarkedLine(e) ELSE EndOfLine(e)
    BY <1>4, <2>2
  <2>4. /\ Beside(e, d) /\ Shape(d) /\ TextLines(d, q, n + 1) /\ d.cnt < z
        /\ e.cnt < z => d = e
        /\ e.cnt = z => /\ d.cnt = 0 /\ d.mark = IF forgotten THEN -1 ELSE e.mark
                        /\ Of(d.out, "line") = Append(Of(e.out, "line"), LineOf(e))
    BY <1>3, <1>9, <2>1, <2>3, LineEnds DEF z
  <2> QED BY <2>2, <2>4
<1>11. GoesOn(c, d)
  BY <1>6, <1>10 DEF GoesOn, Beside
<1>12. TextRep(d, q)
  BY <1>3, <1>10, <1>11 DEF TextRep, GoesOn, z
<1>13. ASSUME NEW m, Marks(c, p, m) PROVE Marks(d, q, m)
  <2>1. m \in -1 .. n /\ MarkedLines(lines, m) /\ c.mark = MarkOf(b, c.cnt + 1, m)
    BY <1>13 DEF Marks, lines, b, n
  <2>2. m \in -1 .. Len(q)
    BY <1>3, <2>1
  <2>3. CASE e.cnt < z
    <3>1. d = e
      BY <1>10, <2>3
    <3>2. MarkOf(b, c.cnt + 1, m) = MarkOf(b, e.cnt + 1, m)
      BY <1>1, <1>2, <1>6, <2>1 DEF MarkOf
    <3>3. d.mark = MarkOf(b, d.cnt + 1, m) /\ d.out = c.out
      BY <1>6, <2>1, <3>1, <3>2
    <3> QED BY <2>1, <2>2, <3>3 DEF Marks, lines, b, z
  <2>4. CASE e.cnt = z
    <3> DEFINE more == Append(lines, LineOf(e))
    <3>1. Of(d.out, "line") = more /\ d.cnt = 0 /\ d.mark = -1
      BY <1>6, <1>10, <2>4 DEF lines
    <3>2. LineOf(e).mark = MarkOf(b, z, m) /\ LineOf(e).cells = e.line
      BY <1>6, <2>1, <2>4 DEF LineOf
    <3>3. MarkedLines(more, m) /\ Len(more) * z = b + z
      <4>1. Cells("bits", LineOf(e).cells, b, z, q)
        BY <1>7, <2>4, <3>2
      <4>2. "bits" \in Text
        BY DEF Text
      <4> QED BY <1>2, <1>8, <2>1, <3>2, <4>1, <4>2, LinesMore DEF b, z
    <3> HIDE DEF more
    <3>4. MarkOf(b + z, 1, m) = -1
      BY <1>1, <1>2, <1>3, <1>6, <2>1, <2>4 DEF MarkOf
    <3> QED BY <2>2, <3>1, <3>3, <3>4 DEF Marks, z
  <2>5. e.cnt < z \/ e.cnt = z
    BY <1>1, <1>2, <1>6
  <2> QED BY <2>3, <2>4, <2>5
<1> QED BY <1>11, <1>12, <1>13 DEF d, q

\* The edges down of the line before the next sample are seen in it.
LEMMA AsciiFell ==
    ASSUME NEW c, Shape(c), c.format = "ascii", NEW p, IsSeq(p), TextRep(c, p), NEW s,
           NEW d, d = IF c.line = <<>> THEN c
                      ELSE [c EXCEPT !.line[Len(c.line)].fall = c.prev \ s]
    PROVE  /\ Shape(d) /\ GoesOn(c, d) /\ d.prev = c.prev /\ DOMAIN d = DOMAIN c
           /\ TextLines(d, Append(p, s), Len(p))
<1> DEFINE q == Append(p, s)
           lines == Of(c.out, "line")
           b == Len(lines) * SamplesPerLine
           z == SamplesPerLine
           n == Len(p)
<1>1. /\ c.spl = z /\ c.cnt \in 0 .. z /\ n = b + c.cnt
      /\ Cells("ascii", c.line, b, c.cnt, p) /\ FullLines("ascii", lines, p)
      /\ IF p = <<>> THEN c.prev = {} ELSE c.cnt > 0 /\ c.prev = p[n]
  BY DEF TextRep, TextLines, AsciiRep
<1>2. IsSeq(lines) /\ Len(lines) \in Nat /\ z \in Nat \ {0} /\ b \in Nat
  <2>1. IsSeq(lines) /\ Len(lines) \in Nat /\ z \in Nat \ {0}
    BY OfOne, SeqIs, Sizes DEF Shape
  <2> HIDE DEF lines
  <2> QED BY <2>1, Multiples
<1>3. /\ n \in Nat /\ IsSeq(q) /\ Len(q) = n + 1 /\ q[n + 1] = s /\ (p = <<>> <=> n = 0)
      /\ \A i \in 1 .. n : q[i] = p[i]
  BY OneMore
<1>4. /\ IsSeq(c.line) /\ Len(c.line) = c.cnt /\ DOMAIN c.line = 1 .. c.cnt
      /\ (c.line = <<>> <=> c.cnt = 0)
      /\ \A i \in 1 .. c.cnt : c.line[i].sep /\ c.line[i].high = p[b + i]
      /\ EdgeCells(c.line, b, c.cnt, p)
  <2>1. BitCells(c.line, b, c.cnt, p) /\ EdgeCells(c.line, b, c.cnt, p)
    BY <1>1 DEF Cells
  <2>2. c.line = <<>> <=> Len(c.line) = 0
    BY <2>1 DEF BitCells, IsSeq
  <2> QED BY <2>1, <2>2, SeqIs DEF BitCells
<1> HIDE DEF q, lines, b, z, n
<1>5. FullLines("ascii", lines, q)
  <2>1. CASE c.cnt > 0
    <3>1. "ascii" \in Text /\ b <= n /\ b < n
      BY <1>1, <1>2, <2>1 DEF Text
    <3> QED BY <1>1, <1>2, <3>1, LinesLater DEF q, b, n, z
  <2>2. CASE ~(c.cnt > 0)
    <3>1. b = 0
      BY <1>1, <1>2, <1>3, <2>2
    <3>2. Len(lines) = 0
      <4>1. Len(lines) >= 1 => b >= 1 * z /\ 1 * z = z
        BY <1>2, Multiples DEF b, z
      <4> QED BY <1>2, <3>1, <4>1
    <3> QED BY <3>2 DEF FullLines
  <2> QED BY <2>1, <2>2
<1>6. CASE c.line = <<>>
  <2>1. d = c /\ c.cnt = 0
    BY <1>4, <1>6
  <2>2. Cells("ascii", d.line, b, d.cnt, q)
    <3>1. "ascii" \in Text
      BY DEF Text
    <3> QED BY <1>6, <2>1, <3>1, NoCells
  <2> QED BY <1>1, <1>2, <1>5, <2>1, <2>2 DEF TextLines, GoesOn, lines, b, z, n, q
<1>7. CASE c.line # <<>>
  <2> DEFINE line == [c.line EXCEPT ![Len(c.line)].fall = c.prev \ s]
             t == c.cnt
  <2>1. d = [c EXCEPT !.line = line]
    BY <1>7
  <2>2. line = [i \in 1 .. t |-> IF i = t THEN [c.line[t] EXCEPT !.fall = c.prev \ s]
                                 ELSE c.line[i]]
    BY <1>4
  <2>3. t \in Nat /\ t # 0 /\ b + t = n /\ p # <<>> /\ c.prev = p[n]
    BY <1>1, <1>2, <1>3, <1>4, <1>7
  <2> HIDE DEF line
  <2>4. /\ DOMAIN d = DOMAIN c /\ GoesOn(c, d) /\ d.line = line /\ d.out = c.out
        /\ d.cnt = c.cnt /\ d.prev = c.prev
    <3>1. /\ DOMAIN d = DOMAIN c /\ d.line = line
          /\ d.cnt = c.cnt /\ d.out = c.out /\ d.prev = c.prev
          /\ d.format = c.format /\ d.names = c.names /\ d.open = c.open
          /\ d.header = c.header /\ d.spl = c.spl /\ d.rate = c.rate
      BY <2>1 DEF Shape, Fields
    <3> QED BY <3>1 DEF GoesOn, Shape
  <2>5. IsSeq(line) /\ Len(line) = t
    <3>1. DOMAIN line = 1 .. t
      BY <2>2
    <3>2. line \in [1 .. t -> {line[i] : i \in 1 .. t}]
      BY <2>2
    <3>3. line \in Seq({line[i] : i \in 1 .. t})
      BY <2>3, <3>2
    <3>4. Len(line) = t
      BY <2>3, <3>2
    <3> QED BY <3>3, <3>4, AnySeq
  <2>6. /\ line[t].high = c.line[t].high /\ line[t].sep = c.line[t].sep
        /\ line[t].rise = c.line[t].rise /\ line[t].fall = c.prev \ s
        /\ \A i \in 1 .. t : i # t => line[i] = c.line[i]
    BY <2>2, <2>3
  <2>7. BitCells(line, b, t, q)
    <3> SUFFICES ASSUME NEW i \in 1 .. t PROVE line[i].sep /\ line[i].high = q[b + i]
      BY <2>5 DEF BitCells
    <3>1. b + i \in 1 .. n
      BY <1>2, <2>3
    <3>2. line[i].sep = c.line[i].sep /\ line[i].high = c.line[i].high
      BY <2>6
    <3> QED BY <1>3, <1>4, <3>1, <3>2
  <2>8. EdgeCells(line, b, t, q)
    <3> SUFFICES ASSUME NEW i \in 1 .. t
                 PROVE  /\ line[i].rise = q[b + i] \ (IF b + i = 1 THEN {} ELSE q[b + i - 1])
                        /\ line[i].fall = q[b + i] \ q[b + i + 1]
      BY DEF EdgeCells
    <3>1. b + i \in 1 .. n /\ (b + i # 1 => b + i - 1 \in 1 .. n) /\ (b + i < n \/ i = t)
          /\ (b + i < n => b + i + 1 \in 1 .. n)
      BY <1>2, <2>3
    <3>2. line[i].rise = q[b + i] \ (IF b + i = 1 THEN {} ELSE q[b + i - 1])
      <4>1. line[i].rise = c.line[i].rise
        BY <2>6
      <4>2. c.line[i].rise = p[b + i] \ (IF b + i = 1 THEN {} ELSE p[b + i - 1])
        BY <1>4 DEF EdgeCells
      <4> QED BY <1>3, <3>1, <4>1, <4>2
    <3>3. line[i].fall = q[b + i] \ q[b + i + 1]
      <4>1. CASE i = t
        <5>1. q[b + i] = p[n] /\ q[b + i + 1] = s
          BY <1>3, <2>3, <3>1, <4>1
        <5> QED BY <2>3, <2>6, <4>1, <5>1
      <4>2. CASE i # t
        <5>1. line[i] = c.line[i] /\ b + i < n
          BY <2>3, <2>6, <3>1, <4>2
        <5>2. c.line[i].fall = p[b + i] \ p[b + i + 1]
          BY <1>4, <5>1 DEF EdgeCells, n
        <5> QED BY <1>3, <3>1, <5>1, <5>2
      <4> QED BY <4>1, <4>2
    <3> QED BY <3>2, <3>3
  <2>9. Cells("ascii", d.line, b, d.cnt, q)
    BY <2>4, <2>7, <2>8 DEF Cells
  <2> QED BY <1>1, <1>5, <2>4, <2>9 DEF TextLines, GoesOn, lines, b, z, n, q
<1> QED BY <1>6, <1>7

\* A sample more in a line with edges.
LEMMA AsciiKeeps ==
    ASSUME NEW c, Shape(c), c.format = "ascii", NEW p, IsSeq(p), TextRep(c, p), NEW s
    PROVE  GoesOn(c, AsciiSample(c, s)) /\ TextRep(AsciiSample(c, s), Append(p, s))
<1> DEFINE q == Append(p, s)
           fell == IF c.line = <<>> THEN c
                   ELSE [c EXCEPT !.line[Len(c.line)].fall = c.prev \ s]
           e == EndOfMarkedLine(fell)
           ended == Cell(s, s \ c.prev, <<>>, TRUE)
           d == AsciiSample(c, s)
           lines == Of(e.out, "line")
           b == Len(lines) * SamplesPerLine
           z == SamplesPerLine
           n == Len(p)
<1>1. d = [e EXCEPT !.line = Append(@, ended), !.cnt = @ + 1, !.prev = s]
  BY DEF AsciiSample
<1>2. Shape(fell) /\ GoesOn(c, fell) /\ fell.prev = c.prev /\ TextLines(fell, q, n)
  BY AsciiFell
<1> HIDE DEF fell
<1>3. /\ Beside(fell, e) /\ Shape(e) /\ TextLines(e, q, n) /\ e.cnt < z
  <2>1. PICK forgotten \in BOOLEAN : forgotten
    OBVIOUS
  <2>2. e = IF forgotten THEN EndOfMarkedLine(fell) ELSE EndOfLine(fell)
    BY <2>1
  <2>3. "ascii" \in Text /\ fell.format = "ascii"
    BY <1>2 DEF Text, GoesOn
  <2> HIDE DEF e, q, n
  <2> QED BY <1>2, <2>2, <2>3, LineEnds
<1> HIDE DEF e
<1>4. GoesOn(c, e) /\ e.prev = c.prev /\ e.format = "ascii"
  BY <1>2, <1>3 DEF GoesOn, Beside
<1>5. /\ e.spl = z /\ e.cnt \in 0 .. z /\ n = b + e.cnt
      /\ Cells("ascii", e.line, b, e.cnt, q) /\ FullLines("ascii", lines, q)
  BY <1>3, <1>4 DEF TextLines
<1>6. /\ n \in Nat /\ IsSeq(q) /\ Len(q) = n + 1 /\ q[n + 1] = s /\ q # <<>>
      /\ (p = <<>> <=> n = 0)
      /\ \A i \in 1 .. n : q[i] = p[i]
  BY OneMore
<1>7. z \in Nat \ {0} /\ b \in Nat
  <2>1. IsSeq(lines) /\ Len(lines) \in Nat /\ z \in Nat \ {0}
    BY <1>3, OfOne, SeqIs, Sizes DEF Shape
  <2> HIDE DEF lines
  <2> QED BY <2>1, Multiples
<1>8. ended.high = s /\ ended.rise = s \ c.prev /\ ended.sep
  BY DEF Cell
<1> HIDE DEF ended
<1>9. /\ GoesOn(c, d) /\ d.line = Append(e.line, ended) /\ d.cnt = e.cnt + 1 /\ d.prev = s
      /\ d.out = e.out /\ d.format = "ascii"
  <2>1. /\ DOMAIN d = DOMAIN e /\ d.line = Append(e.line, ended)
        /\ d.cnt = e.cnt + 1 /\ d.out = e.out /\ d.prev = s
        /\ d.format = e.format /\ d.names = e.names /\ d.open = e.open
        /\ d.header = e.header /\ d.spl = e.spl /\ d.rate = e.rate
    BY <1>1, <1>3 DEF Shape, Fields
  <2> HIDE DEF d
  <2> QED BY <1>3, <1>4, <2>1 DEF GoesOn, Shape
<1> HIDE DEF d, q, lines, b, z, n
<1>10. Cells("ascii", d.line, b, d.cnt, q)
  <2> DEFINE t == e.cnt
  <2>1. /\ IsSeq(e.line) /\ Len(e.line) = t
        /\ \A i \in 1 .. t : e.line[i].sep /\ e.line[i].high = q[b + i]
        /\ EdgeCells(e.line, b, t, q)
    BY <1>5 DEF Cells, BitCells
  <2>2. /\ IsSeq(d.line) /\ Len(d.line) = t + 1 /\ d.line[t + 1] = ended
        /\ \A i \in 1 .. t : d.line[i] = e.line[i]
    BY <1>9, <2>1, OneMore
  <2>3. t \in Nat /\ b + t = n /\ d.cnt = t + 1
    BY <1>5, <1>7, <1>9
  <2> HIDE DEF t
  <2>4. ASSUME NEW i \in 1 .. t + 1
        PROVE  /\ d.line[i].sep /\ d.line[i].high = q[b + i]
               /\ d.line[i].rise = q[b + i] \ (IF b + i = 1 THEN {} ELSE q[b + i - 1])
               /\ b + i < Len(q) => d.line[i].fall = q[b + i] \ q[b + i + 1]
    <3>1. CASE i = t + 1
      <4>1. b + i = n + 1 /\ ~(b + i < Len(q)) /\ d.line[i] = ended /\ b + i - 1 = n
        BY <1>6, <1>7, <2>2, <2>3, <3>1
      <4>2. c.prev = IF b + i = 1 THEN {} ELSE q[n]
        <5>1. IF p = <<>> THEN c.prev = {} ELSE c.prev = p[n]
          BY DEF TextRep, AsciiRep, n
        <5>2. n # 0 => n \in 1 .. n
          BY <1>6
        <5>3. b + i = 1 <=> n = 0
          BY <1>6, <4>1
        <5>4. n # 0 => q[n] = p[n]
          BY <1>6, <5>2
        <5> QED BY <1>6, <5>1, <5>3, <5>4
      <4> QED BY <1>6, <1>8, <4>1, <4>2
    <3>2. CASE i # t + 1
      <4>1. i \in 1 .. t /\ d.line[i] = e.line[i]
        BY <2>2, <2>3, <3>2
      <4> QED BY <2>1, <4>1 DEF EdgeCells
    <3> QED BY <3>1, <3>2
  <2> QED BY <2>2, <2>3, <2>4 DEF Cells, BitCells, EdgeCells
<1>11. TextLines(d, q, n + 1) /\ d.cnt > 0
  <2>1. d.spl = z /\ d.cnt \in 0 .. z /\ n + 1 = b + d.cnt /\ d.cnt > 0
    BY <1>3, <1>5, <1>6, <1>7, <1>9, <1>4 DEF GoesOn, z
  <2> QED BY <1>5, <1>9, <1>10, <2>1 DEF TextLines, lines, b, z
<1>12. AsciiRep(d, q)
  BY <1>6, <1>9, <1>11 DEF AsciiRep
<1>13. TextRep(d, q)
  BY <1>6, <1>9, <1>11, <1>12 DEF TextRep
<1> QED BY <1>9, <1>13 DEF d, q

\* How a sample more moves a line of bytes.
LEMMA HexParts ==
    ASSUME NEW t \in Nat
    PROVE  LET a == t \div ByteBits
               r == t % ByteBits
           IN  /\ a \in Nat /\ r \in 0 .. ByteBits - 1 /\ t = a * ByteBits + r
               /\ a * ByteBits \in Nat
               /\ UnitsizeOf(t) = (IF r = 0 THEN a ELSE a + 1)
               /\ UnitsizeOf(t + 1) = a + 1
               /\ ((t + 1) % ByteBits) = 0 <=> r + 1 = ByteBits
               /\ ((t + 1) \div ByteBits) = (IF r + 1 = ByteBits THEN a + 1 ELSE a)
<1> DEFINE B == ByteBits
           a == t \div B
           r == t % B
<1>1. B \in Nat \ {0}
  BY Widths
<1>2. a \in Nat /\ r \in 0 .. B - 1 /\ t = a * B + r /\ a * B \in 0 .. t
  BY <1>1, Division
<1> HIDE DEF B, a, r
<1>3. a * B \in Nat /\ (a + 1) * B = a * B + B
  BY <1>1, <1>2, Multiples
<1>4. UnitsizeOf(t) = IF r = 0 THEN a ELSE a + 1
  <2>1. CASE r = 0
    <3>1. t = a * B
      BY <1>2, <1>3, <2>1
    <3> QED BY <1>2, <2>1, <3>1, UnitsizeIs DEF B
  <2>2. CASE r # 0
    <3>1. t + B - 1 = (a + 1) * B + (r - 1) /\ r - 1 \in 0 .. B - 1
      BY <1>1, <1>2, <1>3, <2>2
    <3>2. ((a + 1) * B + (r - 1)) \div B = a + 1
      BY <1>1, <1>2, <3>1, Divided
    <3> QED BY <2>2, <3>1, <3>2 DEF UnitsizeOf, B
  <2> QED BY <2>1, <2>2
<1>5. UnitsizeOf(t + 1) = a + 1
  <2>1. t + 1 + B - 1 = (a + 1) * B + r
    BY <1>1, <1>2, <1>3
  <2>2. ((a + 1) * B + r) \div B = a + 1
    BY <1>1, <1>2, Divided
  <2> QED BY <2>1, <2>2 DEF UnitsizeOf, B
<1>6. CASE r + 1 = B
  <2>1. t + 1 = (a + 1) * B + 0 /\ 0 \in 0 .. B - 1
    BY <1>1, <1>2, <1>3, <1>6
  <2>2. ((a + 1) * B + 0) \div B = a + 1 /\ ((a + 1) * B + 0) % B = 0
    BY <1>1, <1>2, <2>1, Divided
  <2>3. (t + 1) % B = 0 /\ (t + 1) \div B = a + 1
    BY <2>1, <2>2
  <2> QED BY <1>2, <1>3, <1>4, <1>5, <1>6, <2>3 DEF B, a, r
<1>7. CASE r + 1 # B
  <2>1. t + 1 = a * B + (r + 1) /\ r + 1 \in 0 .. B - 1 /\ r + 1 # 0
    BY <1>1, <1>2, <1>3, <1>7
  <2>2. (a * B + (r + 1)) \div B = a /\ (a * B + (r + 1)) % B = r + 1
    BY <1>1, <1>2, <2>1, Divided
  <2>3. (t + 1) % B = r + 1 /\ (t + 1) \div B = a
    BY <2>1, <2>2
  <2> QED BY <1>2, <1>3, <1>4, <1>5, <1>7, <2>1, <2>3 DEF B, a, r
<1> QED BY <1>6, <1>7

\* Where sample h of a line of t is, and of t + 1.
LEMMA HexPlace ==
    ASSUME NEW t \in Nat, NEW h \in 0 .. t
    PROVE  LET a == t \div ByteBits
               x == h \div ByteBits
               held(m) == Min({ByteBits, m - x * ByteBits})
           IN  /\ x \in 0 .. a /\ (x < a => x + 1 \in 1 .. a)
               /\ x < a => h \in 0 .. t - 1 /\ held(t) = ByteBits /\ held(t + 1) = ByteBits
               /\ x = a => /\ ByteBits - held(t + 1) + (h % ByteBits) + 1 = ByteBits - (t - h)
                           /\ t - h \in 0 .. ByteBits - 1
<1> DEFINE B == ByteBits
           a == t \div B
           r == t % B
           x == h \div B
           y == h % B
           xB == x * B
           aB == a * B
           held(m) == Min({B, m - xB})
<1>1. B \in Nat \ {0} /\ h \in Nat /\ h <= t
  BY Widths
<1>2. a \in Nat /\ r \in 0 .. B - 1 /\ t = aB + r /\ aB \in Nat
  BY <1>1, HexParts
<1>3. x \in Nat /\ y \in 0 .. B - 1 /\ h = xB + y /\ xB \in Nat
  BY <1>1, HexParts
<1>4. x < a => xB + B <= aB
  <2> HIDE DEF x, a
  <2>1. x < a => x + 1 <= a
    BY <1>2, <1>3
  <2>2. x + 1 <= a => (x + 1) * B <= a * B
    BY <1>1, <1>2, <1>3, Multiples
  <2>3. (x + 1) * B = xB + B
    BY <1>1, <1>3, Multiples
  <2> QED BY <2>1, <2>2, <2>3
<1>5. x > a => aB + B <= xB
  <2> HIDE DEF x, a
  <2>1. x > a => a + 1 <= x
    BY <1>2, <1>3
  <2>2. a + 1 <= x => (a + 1) * B <= x * B
    BY <1>1, <1>2, <1>3, Multiples
  <2>3. (a + 1) * B = aB + B
    BY <1>1, <1>2, Multiples
  <2> QED BY <2>1, <2>2, <2>3
<1>6. x = a => xB = aB
  OBVIOUS
<1>7. y = h % ByteBits
  OBVIOUS
<1> HIDE DEF a, r, x, y, xB, aB
<1>8. held(t + 1) = IF B <= t + 1 - xB THEN B ELSE t + 1 - xB
  BY <1>1, <1>2, <1>3, MinOf
<1>9. held(t) = IF B <= t - xB THEN B ELSE t - xB
  BY <1>1, <1>2, <1>3, MinOf
<1> HIDE DEF held, B
<1>10. x <= a
  BY <1>1, <1>2, <1>3, <1>5
<1>11. ASSUME x < a PROVE h \in 0 .. t - 1 /\ held(t) = B /\ held(t + 1) = B
  BY <1>1, <1>2, <1>3, <1>4, <1>8, <1>9, <1>11
<1>12. ASSUME x = a
       PROVE  B - held(t + 1) + y + 1 = B - (t - h) /\ t - h \in 0 .. B - 1
  BY <1>1, <1>2, <1>3, <1>6, <1>8, <1>12
<1>13. x \in 0 .. a /\ (x < a => x + 1 \in 1 .. a)
  BY <1>2, <1>3, <1>10
<1> QED BY <1>11, <1>12, <1>13 DEF B, a, x, y, held, xB

\* The window of the last samples moves.
LEMMA WindowMoves ==
    ASSUME NEW p, IsSeq(p), NEW v, Window(v, p), NEW s
    PROVE  Window(Append(Tail(v), s), Append(p, s))
<1> DEFINE B == ByteBits
           n == Len(p)
           q == Append(p, s)
<1>0. IsSeq(v) /\ Len(v) = B /\ \A j \in 0 .. B - 1 : j < n => v[B - j] = p[n - j]
  BY DEF Window
<1>1. PICK S : v \in Seq(S)
  BY <1>0 DEF IsSeq
<1>2. B \in Nat \ {0}
  BY Widths
<1>3. v # <<>>
  BY <1>0, <1>1, <1>2
<1> DEFINE u == Tail(v)
<1>4. u \in Seq(S) /\ Len(u) = B - 1 /\ \A j \in 1 .. B - 1 : u[j] = v[j + 1]
  BY <1>0, <1>1, <1>2, <1>3
<1> HIDE DEF u, B
<1>5. IsSeq(u)
  BY <1>4, AnySeq
<1> DEFINE w == Append(u, s)
<1>6. IsSeq(w) /\ Len(w) = Len(u) + 1 /\ w[Len(u) + 1] = s /\ \A i \in 1 .. Len(u) : w[i] = u[i]
  BY <1>5, OneMore
<1>7. /\ n \in Nat /\ IsSeq(q) /\ Len(q) = n + 1 /\ q[n + 1] = s
      /\ \A i \in 1 .. n : q[i] = p[i]
  BY OneMore
<1> HIDE DEF w, n, q
<1>8. Len(w) = B /\ w[B] = s /\ \A j \in 1 .. B - 1 : w[j] = v[j + 1]
  BY <1>2, <1>4, <1>6
<1>9. ASSUME NEW j \in 0 .. B - 1, j < n + 1 PROVE w[B - j] = q[n + 1 - j]
  <2>1. CASE j = 0
    BY <1>2, <1>7, <1>8, <2>1
  <2>2. CASE j # 0
    <3>1. /\ B - j \in 1 .. B - 1 /\ B - j + 1 = B - (j - 1) /\ j - 1 \in 0 .. B - 1
          /\ j - 1 < n /\ n + 1 - j = n - (j - 1) /\ n - (j - 1) \in 1 .. n
      BY <1>2, <1>7, <1>9, <2>2
    <3>2. w[B - j] = v[B - (j - 1)] /\ v[B - (j - 1)] = p[n - (j - 1)]
      BY <1>0, <1>8, <3>1
    <3> QED BY <1>7, <3>1, <3>2
  <2> QED BY <2>1, <2>2
<1> QED BY <1>6, <1>7, <1>8, <1>9 DEF Window, w, u, q, B

\* The byte of the next sample in its place.
HexLine(more, line, v, t) ==
    LET a == t \div ByteBits
    IN  /\ IsSeq(more) /\ Len(more) = a + 1
        /\ \A x \in 1 .. a : more[x] = line[x]
        /\ more[a + 1].bits = v /\ (more[a + 1].sep <=> ((t + 1) % ByteBits) = 0)

\* It shows one sample more.
LEMMA HexGrows ==
    ASSUME NEW p, IsSeq(p), NEW s, NEW b \in Nat, NEW t \in Nat, Len(p) = b + t,
           NEW line, HexCells(line, b, t, p), NEW v, Window(v, Append(p, s)),
           NEW more, HexLine(more, line, v, t)
    PROVE  HexCells(more, b, t + 1, Append(p, s))
<1> DEFINE B == ByteBits
           a == t \div B
           r == t % B
           q == Append(p, s)
           n == Len(p)
           whole == ((t + 1) % B) = 0
<1>1. /\ a \in Nat /\ r \in 0 .. B - 1 /\ t = a * B + r /\ a * B \in Nat
      /\ UnitsizeOf(t) = (IF r = 0 THEN a ELSE a + 1)
      /\ UnitsizeOf(t + 1) = a + 1 /\ (whole <=> r + 1 = B)
  BY HexParts
<1>2. B \in Nat \ {0}
  BY Widths
<1>3. /\ n \in Nat /\ IsSeq(q) /\ Len(q) = n + 1 /\ q[n + 1] = s
      /\ \A i \in 1 .. n : q[i] = p[i]
  BY OneMore
<1>4. /\ IsSeq(line) /\ Len(line) = UnitsizeOf(t)
      /\ \A x \in 1 .. Len(line) : x * B <= t => line[x].sep
      /\ \A h \in 0 .. t - 1 : HexShows(line, t, h) = p[b + h + 1]
  BY DEF HexCells
<1>5. /\ IsSeq(more) /\ Len(more) = a + 1
      /\ \A x \in 1 .. a : more[x] = line[x]
      /\ more[a + 1].bits = v /\ (more[a + 1].sep <=> whole)
  BY DEF HexLine
<1>6. \A j \in 0 .. B - 1 : j < n + 1 => v[B - j] = q[n + 1 - j]
  <2>1. \A j \in 0 .. B - 1 : j < Len(q) => v[B - j] = q[Len(q) - j]
    BY DEF Window
  <2> HIDE DEF q, n, B
  <2> QED BY <1>3, <2>1
<1>7. n = b + t
  OBVIOUS
<1> DEFINE aB == a * B
<1>8. ASSUME NEW x \in 1 .. a + 1, x * B <= t + 1 PROVE more[x].sep
  <2> HIDE DEF a, r, whole
  <2>1. CASE x = a + 1
    <3>1. (a + 1) * B = aB + B
      BY <1>1, <1>2, Multiples
    <3>2. aB + B <= t + 1
      BY <1>8, <2>1, <3>1
    <3>3. t = aB + r /\ aB \in Nat
      BY <1>1
    <3> HIDE DEF aB, B
    <3>4. r + 1 = B
      BY <1>1, <1>2, <3>2, <3>3
    <3> QED BY <1>1, <1>5, <2>1, <3>4
  <2>2. CASE x # a + 1
    <3>1. x \in 1 .. a /\ x \in 1 .. Len(line) /\ x \in Int
      BY <1>1, <1>4, <2>2
    <3> DEFINE xB == x * B
    <3>2. xB <= aB /\ xB \in Int
      BY <1>1, <1>2, <3>1, Multiples
    <3>3. t = aB + r /\ aB \in Nat
      BY <1>1
    <3> HIDE DEF xB, aB, B
    <3>4. xB <= t
      BY <1>1, <1>2, <3>2, <3>3
    <3> QED BY <1>4, <1>5, <3>1, <3>4 DEF xB
  <2> QED BY <2>1, <2>2
<1>9. ASSUME NEW h \in 0 .. t PROVE HexShows(more, t + 1, h) = q[b + h + 1]
  <2> DEFINE x == h \div B
             y == h % B
             held(m) == Min({B, m - x * B})
             j == t - h
  <2>1. /\ x \in 0 .. a /\ (x < a => x + 1 \in 1 .. a)
        /\ x < a => h \in 0 .. t - 1 /\ held(t) = B /\ held(t + 1) = B
        /\ x = a => B - held(t + 1) + y + 1 = B - j /\ j \in 0 .. B - 1
    BY HexPlace
  <2>2. HexShows(more, t + 1, h) = more[x + 1].bits[B - held(t + 1) + y + 1]
    BY DEF HexShows
  <2>3. HexShows(line, t, h) = line[x + 1].bits[B - held(t) + y + 1]
    BY DEF HexShows
  <2>4. j < n + 1 /\ n + 1 - j = b + h + 1 /\ (h \in 0 .. t - 1 => b + h + 1 \in 1 .. n)
    <3> HIDE DEF n
    <3> QED BY <1>3, <1>7
  <2> HIDE DEF x, y, held, a, r, whole, j, n, q, B
  <2>5. CASE x < a
    <3>1. HexShows(more, t + 1, h) = HexShows(line, t, h)
      BY <1>5, <2>1, <2>2, <2>3, <2>5
    <3> QED BY <1>3, <1>4, <2>1, <2>4, <2>5, <3>1
  <2>6. CASE x = a
    <3>1. HexShows(more, t + 1, h) = v[B - j]
      BY <1>5, <2>1, <2>2, <2>6
    <3> QED BY <1>6, <2>1, <2>4, <2>6, <3>1
  <2>7. x < a \/ x = a
    BY <1>1, <2>1
  <2> QED BY <2>5, <2>6, <2>7
<1>10. (t + 1) - 1 = t
  OBVIOUS
<1> HIDE DEF a, r, whole, n, aB
<1> QED BY <1>1, <1>5, <1>8, <1>9, <1>10 DEF HexCells, B, q

\* A sample more in a line of bytes.
LEMMA HexKeeps ==
    ASSUME NEW c, Shape(c), c.format = "hex", NEW p, IsSeq(p), TextRep(c, p), NEW s
    PROVE  GoesOn(c, HexSample(c, s)) /\ TextRep(HexSample(c, s), Append(p, s))
<1> DEFINE B == ByteBits
           t == c.cnt
           a == t \div B
           r == t % B
           q == Append(p, s)
           n == Len(p)
           v == Append(Tail(c.values), s)
           whole == ((t + 1) % B) = 0
           at == c.off + 1
           cell == Cell({}, {}, v, whole)
           more == [i \in 1 .. Max({at, Len(c.line)}) |-> IF i = at THEN cell ELSE c.line[i]]
           next == IF whole THEN at ELSE c.off
           e == [c EXCEPT !.values = v, !.cnt = @ + 1,
                     !.line = [i \in 1 .. Max({at, Len(@)}) |-> IF i = at THEN cell ELSE @[i]],
                     !.off = IF whole THEN at ELSE @]
           d == HexSample(c, s)
           lines == Of(c.out, "line")
           b == Len(lines) * SamplesPerLine
           z == SamplesPerLine
<1>1. d = EndOfLine(e)
  BY DEF HexSample
<1>2. /\ c.spl = z /\ t \in 0 .. z /\ t < z /\ n = b + t
      /\ Cells("hex", c.line, b, t, p) /\ FullLines("hex", lines, p)
      /\ c.off = a /\ Window(c.values, p)
  BY DEF TextRep, TextLines, HexRep
<1>3. IsSeq(lines) /\ Len(lines) \in Nat /\ z \in Nat \ {0} /\ b \in Nat /\ B \in Nat \ {0}
      /\ t \in Nat
  <2>1. IsSeq(lines) /\ Len(lines) \in Nat /\ z \in Nat \ {0}
    BY OfOne, SeqIs, Sizes DEF Shape
  <2>2. t \in Nat
    BY <1>2, <2>1
  <2> HIDE DEF lines
  <2> QED BY <2>1, <2>2, Multiples, Widths
<1>4. /\ n \in Nat /\ IsSeq(q) /\ Len(q) = n + 1 /\ q[n + 1] = s
      /\ \A i \in 1 .. n : q[i] = p[i]
  BY OneMore
<1>5. Window(v, q)
  BY <1>2, WindowMoves
<1>6. /\ a \in Nat /\ r \in 0 .. B - 1 /\ t = a * B + r /\ a * B \in Nat
      /\ UnitsizeOf(t) = (IF r = 0 THEN a ELSE a + 1) /\ UnitsizeOf(t + 1) = a + 1
      /\ (whole <=> r + 1 = B)
      /\ ((t + 1) \div B) = (IF r + 1 = B THEN a + 1 ELSE a)
  BY <1>3, HexParts
<1>7. cell.bits = v /\ cell.sep = whole
  BY DEF Cell
<1>8. e = [c EXCEPT !.values = v, !.cnt = t + 1, !.line = more, !.off = next]
  OBVIOUS
<1> HIDE DEF cell, v, more, whole, e, next
<1>9. /\ GoesOn(c, e) /\ e.values = v /\ e.cnt = t + 1 /\ e.line = more /\ e.out = c.out
      /\ e.off = next
  <2>1. /\ DOMAIN e = DOMAIN c /\ e.line = more /\ e.values = v
        /\ e.cnt = t + 1 /\ e.out = c.out /\ e.off = next
        /\ e.format = c.format /\ e.names = c.names /\ e.open = c.open
        /\ e.header = c.header /\ e.spl = c.spl /\ e.rate = c.rate
    BY <1>8 DEF Shape, Fields
  <2> QED BY <2>1 DEF GoesOn, Shape
<1>10. next = (t + 1) \div B
  BY <1>2, <1>6 DEF next
<1>11. /\ HexCells(c.line, b, t, p) /\ Len(c.line) = UnitsizeOf(t) /\ IsSeq(c.line)
  BY <1>2 DEF Cells, HexCells
<1>12. /\ IsSeq(more) /\ Len(more) = a + 1 /\ more[a + 1] = cell
       /\ \A x \in 1 .. a : more[x] = c.line[x]
  <2>1. Max({at, Len(c.line)}) = a + 1
    <3>1. at = a + 1 /\ (Len(c.line) = a \/ Len(c.line) = a + 1)
      BY <1>2, <1>6, <1>11
    <3> HIDE DEF at
    <3> QED BY <1>6, <3>1 DEF Max
  <2>2. at = a + 1
    BY <1>2
  <2>3. more = [i \in 1 .. a + 1 |-> IF i = a + 1 THEN cell ELSE c.line[i]]
    BY <2>1, <2>2 DEF more
  <2> HIDE DEF a, at
  <2>4. \A x \in 1 .. a : x # a + 1 /\ x \in 1 .. a + 1
    BY <1>6
  <2>5. more[a + 1] = cell /\ \A x \in 1 .. a : more[x] = c.line[x]
    BY <1>6, <2>3, <2>4
  <2>6. more \in Seq({more[i] : i \in 1 .. a + 1}) /\ Len(more) = a + 1
    <3>1. more \in [1 .. a + 1 -> {more[i] : i \in 1 .. a + 1}] /\ DOMAIN more = 1 .. a + 1
      BY <2>3
    <3>2. a + 1 \in Nat
      BY <1>6
    <3> QED BY <3>1, <3>2
  <2> QED BY <2>5, <2>6, AnySeq
<1>13. HexLine(more, c.line, v, t)
  BY <1>7, <1>12 DEF HexLine, whole
<1>14. Cells("hex", e.line, b, e.cnt, q)
  <2>1. HexCells(more, b, t + 1, q)
    <3>1. Len(p) = b + t
      BY <1>2
    <3> HIDE DEF b, t
    <3> QED BY <1>3, <1>5, <1>11, <1>13, <3>1, HexGrows
  <2> QED BY <1>9, <2>1 DEF Cells
<1> HIDE DEF d, q, lines, b, z, n, B, a, r, t
<1>15. FullLines("hex", lines, q)
  <2>1. "hex" \in Text /\ "hex" # "ascii" /\ b <= n
    BY <1>2, <1>3 DEF Text
  <2> QED BY <1>2, <1>3, <2>1, LinesLater DEF q, b, n, z
<1>16. TextLines(e, q, n + 1)
  BY <1>2, <1>3, <1>4, <1>9, <1>14, <1>15 DEF TextLines, GoesOn, lines, b, z
<1>17. /\ Beside(e, d) /\ Shape(d) /\ TextLines(d, q, n + 1) /\ d.cnt < z
       /\ e.cnt < z => d = e
       /\ e.cnt = z => d.cnt = 0 /\ d.off = 0
  <2>1. "hex" \in Text /\ e.format = "hex" /\ Shape(e)
    BY <1>9 DEF Text, GoesOn
  <2>2. PICK forgotten \in BOOLEAN : ~forgotten
    OBVIOUS
  <2>3. d = IF forgotten THEN EndOfMarkedLine(e) ELSE EndOfLine(e)
    BY <1>1, <2>2
  <2> QED BY <1>4, <1>16, <2>1, <2>3, LineEnds DEF z
<1>18. GoesOn(c, d)
  BY <1>9, <1>17 DEF GoesOn, Beside
<1>19. HexRep(d, q)
  <2>1. d.values = v
    BY <1>9, <1>17 DEF Beside
  <2>2. d.off = d.cnt \div B
    <3>1. CASE e.cnt < z
      BY <1>9, <1>10, <1>17, <3>1
    <3>2. CASE e.cnt = z
      <4>1. 0 \div B = 0
        <5>1. 0 \in 0 .. B - 1 /\ 0 * B + 0 = 0
          BY <1>3
        <5> QED BY <1>3, <5>1, Divided
      <4> QED BY <1>17, <3>2, <4>1
    <3>3. e.cnt < z \/ e.cnt = z
      BY <1>2, <1>3, <1>9
    <3> QED BY <3>1, <3>2, <3>3
  <2> QED BY <1>5, <2>1, <2>2 DEF HexRep, B
<1>20. TextRep(d, q)
  BY <1>4, <1>17, <1>18, <1>19 DEF TextRep, GoesOn, z
<1> QED BY <1>18, <1>20 DEF d, q

-----------------------------------------------------------------------------
(* A packet *)

\* What is told from a context.
Told == {"line", "change", "row", "sample", "point"}

\* Two contexts that say the same of the samples.
Alike(c, d) ==
    /\ d.format = c.format /\ d.names = c.names /\ d.spl = c.spl /\ d.rate = c.rate
    /\ d.cnt = c.cnt /\ d.off = c.off /\ d.mark = c.mark /\ d.line = c.line
    /\ d.values = c.values /\ d.prev = c.prev /\ d.count = c.count
    /\ \A kind \in Told : Of(d.out, kind) = Of(c.out, kind)

\* They hold the same samples, and the same mark.
LEMMA AlikeRep ==
    ASSUME NEW c, NEW d, Alike(c, d), NEW p, NEW a
    PROVE  /\ Rep(c, p, a) => Rep(d, p, a)
           /\ \A m : Marks(c, p, m) => Marks(d, p, m)
<1>1. /\ Of(d.out, "line") = Of(c.out, "line") /\ Of(d.out, "change") = Of(c.out, "change")
      /\ Of(d.out, "row") = Of(c.out, "row") /\ Of(d.out, "sample") = Of(c.out, "sample")
      /\ Of(d.out, "point") = Of(c.out, "point")
  BY DEF Alike, Told
<1>2. /\ d.format = c.format /\ d.names = c.names /\ d.spl = c.spl /\ d.rate = c.rate
      /\ d.cnt = c.cnt /\ d.off = c.off /\ d.mark = c.mark /\ d.line = c.line
      /\ d.values = c.values /\ d.prev = c.prev /\ d.count = c.count
  BY DEF Alike
<1>3. TextRep(c, p) => TextRep(d, p)
  BY <1>1, <1>2 DEF TextRep, TextLines, AsciiRep, HexRep
<1>4. VcdRep(c, p) => VcdRep(d, p)
  BY <1>1, <1>2 DEF VcdRep, Probes0
<1>5. CsvRep(c, p) => CsvRep(d, p)
  BY <1>1, <1>2 DEF CsvRep
<1>6. OlsRep(c, p) => OlsRep(d, p)
  BY <1>1, <1>2 DEF OlsRep
<1>7. GnuplotRep(c, p, a) => GnuplotRep(d, p, a)
  BY <1>1, <1>2 DEF GnuplotRep
<1>8. Rep(c, p, a) => Rep(d, p, a)
  BY <1>2, <1>3, <1>4, <1>5, <1>6, <1>7 DEF Rep
<1>9. ASSUME NEW m, Marks(c, p, m) PROVE Marks(d, p, m)
  BY <1>1, <1>2, <1>9 DEF Marks
<1> QED BY <1>8, <1>9

\* An item that is none of these.
LEMMA EmitAside ==
    ASSUME NEW c, Shape(c), NEW e, e.kind \notin Told
    PROVE  LET d == Emit(c, <<e>>)
           IN  DOMAIN d = DOMAIN c /\ GoesOn(c, d) /\ Alike(c, d)
<1> DEFINE d == Emit(c, <<e>>)
<1>1. /\ DOMAIN d = DOMAIN c /\ GoesOn(c, d)
      /\ \A f \in DOMAIN c : f # "out" => d[f] = c[f]
  BY EmitItem
<1>2. ASSUME NEW kind
      PROVE  Of(d.out, kind) = IF e.kind = kind THEN Append(Of(c.out, kind), e)
                               ELSE Of(c.out, kind)
  <2> QED BY ONLY Shape(c), EmitItem, SMTT(30)
<1> HIDE DEF d
<1>3. \A kind \in Told : Of(d.out, kind) = Of(c.out, kind)
  BY <1>2
<1>4. \A f \in Fields : f # "out" => d[f] = c[f]
  BY <1>1 DEF Shape
<1>5. Alike(c, d)
  BY <1>3, <1>4 DEF Alike, Fields
<1> QED BY <1>1, <1>5 DEF d

\* What stays from packet to packet.
Same(c, d) ==
    /\ Shape(d) /\ d.format = c.format /\ d.names = c.names /\ d.open = c.open
    /\ d.spl = c.spl /\ d.rate = c.rate

\* The header is written before the first packet, and before any sample.
LEMMA StartedKeeps ==
    ASSUME NEW c, Shape(c), c.format = "hex" => c.off = 0
    PROVE  LET d == Started(c)
           IN  Same(c, d) /\ Alike(c, d) /\ (c.header \in BOOLEAN => d.header = FALSE)
<1> DEFINE e == [kind |-> "header", names |-> c.names]
           b == Emit(c, <<e>>)
           w == WithHeader(c)
           d == Started(c)
<1>1. DOMAIN w = DOMAIN c /\ Same(c, w) /\ Alike(c, w) /\ (c.header \in BOOLEAN => w.header = FALSE)
  <2>1. CASE c.header
    <3>1. w = [b EXCEPT !.header = FALSE]
      BY <2>1 DEF WithHeader
    <3>2. e.kind \notin Told
      BY DEF Told
    <3> HIDE DEF e
    <3>3. DOMAIN b = DOMAIN c /\ GoesOn(c, b) /\ Alike(c, b)
      BY <3>2, EmitAside
    <3> HIDE DEF b, w
    <3>4. /\ DOMAIN w = DOMAIN b /\ w.header = FALSE
          /\ \A f \in DOMAIN b : f # "header" => w[f] = b[f]
      BY <3>1, <3>3 DEF Shape, Fields
    <3>5. \A f \in Fields : f # "header" => w[f] = b[f]
      BY <3>3, <3>4 DEF Shape
    <3>6. Alike(c, w)
      BY <3>3, <3>5 DEF Alike, Fields
    <3>7. Same(c, w)
      BY <3>3, <3>4, <3>5 DEF Same, GoesOn, Shape, Fields
    <3> QED BY <3>3, <3>4, <3>6, <3>7
  <2>2. CASE ~c.header
    <3>1. w = c
      BY <2>2 DEF WithHeader
    <3> QED BY <2>2, <3>1 DEF Same, Alike
  <2> QED BY <2>1, <2>2
<1>2. d = [w EXCEPT !.off = IF c.format = "hex" THEN 0 ELSE @]
  BY DEF Started
<1> HIDE DEF w, d
<1>3. /\ DOMAIN d = DOMAIN w /\ \A f \in DOMAIN w : f # "off" => d[f] = w[f]
      /\ d.off = w.off
  <2>1. DOMAIN d = DOMAIN w /\ \A f \in DOMAIN w : f # "off" => d[f] = w[f]
    BY <1>2
  <2>2. "off" \in DOMAIN w /\ w.off = c.off
    BY <1>1 DEF Shape, Fields, Alike
  <2>3. d.off = w.off
    BY <1>2, <2>2
  <2> QED BY <2>1, <2>3
<1>4. \A f \in Fields : d[f] = w[f]
  BY <1>1, <1>3 DEF Shape, Fields
<1>5. Alike(c, d)
  BY <1>1, <1>4 DEF Alike, Fields
<1>6. Same(c, d) /\ (c.header \in BOOLEAN => d.header = FALSE)
  BY <1>1, <1>3, <1>4 DEF Same, Shape, Fields
<1> QED BY <1>5, <1>6 DEF d

\* A sample more, in every format.
LEMMA SampleKeeps ==
    ASSUME NEW c, Shape(c), c.format \in Text \cup Unguarded,
           NEW a \in Nat, NEW p \in Seq(WordOf(a)), Rep(c, p, a),
           \A i \in DOMAIN p : p[i] \subseteq Probes0(c),
           NEW w, NEW i, w[i] \in WordOf(a), w[i] \subseteq Probes0(c),
           NEW garbage \in Garbage(a), NEW first,
           c.format = "vcd" => ((first /\ i = 1) <=> p = <<>>)
    PROVE  LET d == Sample(c, w, i, garbage, first)
               q == Append(p, w[i])
           IN  /\ GoesOn(c, d) /\ Rep(d, q, a)
               /\ c.format = "bits" => \A m : Marks(c, p, m) => Marks(d, q, m)
<1> DEFINE d == Sample(c, w, i, garbage, first)
           s == w[i]
           q == Append(p, s)
<1>0. IsSeq(p)
  BY AnySeq
<1>1. CASE c.format = "bits"
  <2>1. d = BitsSample(c, s) /\ TextRep(c, p)
    BY <1>1 DEF Sample, Rep, Text
  <2>2. GoesOn(c, d) /\ TextRep(d, q) /\ \A m : Marks(c, p, m) => Marks(d, q, m)
    <3> HIDE DEF d, s
    <3> QED BY <1>0, <1>1, <2>1, BitsKeeps
  <2>3. d.format = "bits"
    BY <1>1, <2>2 DEF GoesOn
  <2> HIDE DEF d, q
  <2>4. Rep(d, q, a)
    BY <2>2, <2>3 DEF Rep, Text
  <2> QED BY <2>2, <2>4 DEF d, q
<1>2. CASE c.format = "hex"
  <2>1. d = HexSample(c, s) /\ TextRep(c, p)
    BY <1>2 DEF Sample, Rep, Text
  <2>2. GoesOn(c, d) /\ TextRep(d, q)
    <3> HIDE DEF d, s
    <3> QED BY <1>0, <1>2, <2>1, HexKeeps
  <2>3. d.format = "hex"
    BY <1>2, <2>2 DEF GoesOn
  <2> HIDE DEF d, q
  <2>4. Rep(d, q, a)
    BY <2>2, <2>3 DEF Rep, Text
  <2> QED BY <1>2, <2>2, <2>4 DEF d, q
<1>3. CASE c.format = "ascii"
  <2>1. d = AsciiSample(c, s) /\ TextRep(c, p)
    BY <1>3 DEF Sample, Rep, Text
  <2>2. GoesOn(c, d) /\ TextRep(d, q)
    <3> HIDE DEF d, s
    <3> QED BY <1>0, <1>3, <2>1, AsciiKeeps
  <2>3. d.format = "ascii"
    BY <1>3, <2>2 DEF GoesOn
  <2> HIDE DEF d, q
  <2>4. Rep(d, q, a)
    BY <2>2, <2>3 DEF Rep, Text
  <2> QED BY <1>3, <2>2, <2>4 DEF d, q
<1>4. CASE c.format = "vcd"
  <2> DEFINE f == first /\ i = 1
  <2>1. d = VcdSample(c, s, f) /\ VcdRep(c, p)
    BY <1>4 DEF Sample, Rep, Text
  <2>2. f \in BOOLEAN /\ (f <=> p = <<>>)
    BY <1>4
  <2>3. GoesOn(c, d) /\ VcdRep(d, q)
    <3> HIDE DEF d, f
    <3> QED BY <1>0, <2>1, <2>2, VcdKeeps
  <2>4. d.format = "vcd"
    BY <1>4, <2>3 DEF GoesOn
  <2> HIDE DEF d, q
  <2>5. Rep(d, q, a)
    BY <2>3, <2>4 DEF Rep, Text
  <2> QED BY <1>4, <2>3, <2>5 DEF d, q
<1>5. CASE c.format = "csv"
  <2>1. d = CsvSample(c, s) /\ CsvRep(c, p)
    BY <1>5 DEF Sample, Rep, Text
  <2>2. GoesOn(c, d) /\ CsvRep(d, q)
    <3> HIDE DEF d, s
    <3> QED BY <1>0, <2>1, CsvKeeps
  <2>3. d.format = "csv"
    BY <1>5, <2>2 DEF GoesOn
  <2> HIDE DEF d, q
  <2>4. Rep(d, q, a)
    BY <2>2, <2>3 DEF Rep, Text
  <2> QED BY <1>5, <2>2, <2>4 DEF d, q
<1>6. CASE c.format = "ols"
  <2>1. d = OlsSample(c, s) /\ OlsRep(c, p)
    BY <1>6 DEF Sample, Rep, Text
  <2>2. GoesOn(c, d) /\ OlsRep(d, q)
    <3> HIDE DEF d, s
    <3> QED BY <1>0, <2>1, OlsKeeps
  <2>3. d.format = "ols"
    BY <1>6, <2>2 DEF GoesOn
  <2> HIDE DEF d, q
  <2>4. Rep(d, q, a)
    BY <2>2, <2>3 DEF Rep, Text
  <2> QED BY <1>6, <2>2, <2>4 DEF d, q
<1>7. CASE c.format = "gnuplot"
  <2> DEFINE last == i = Len(w)
  <2>1. d = GnuplotSample(c, s, garbage, last) /\ GnuplotRep(c, p, a)
    BY <1>7 DEF Sample, Rep, Text
  <2>2. GoesOn(c, d) /\ GnuplotRep(d, q, a)
    <3>1. s \in WordOf(a)
      OBVIOUS
    <3> HIDE DEF d, s, last
    <3> QED BY <2>1, <3>1, GnuplotKeeps
  <2>3. d.format = "gnuplot"
    BY <1>7, <2>2 DEF GoesOn
  <2> HIDE DEF d, q
  <2>4. Rep(d, q, a)
    BY <2>2, <2>3 DEF Rep, Text
  <2> QED BY <1>7, <2>2, <2>4 DEF d, q
<1> QED BY <1>1, <1>2, <1>3, <1>4, <1>5, <1>6, <1>7 DEF Text, Unguarded

\* The first elements, and one more.
LEMMA FirstMore ==
    ASSUME NEW S, NEW w \in Seq(S), NEW j \in 1 .. Len(w)
    PROVE  LET x == SubSeq(w, 1, j - 1)
           IN  /\ x \in Seq(S) /\ Len(x) = j - 1 /\ SubSeq(w, 1, j) = Append(x, w[j])
               /\ \A i \in 1 .. j - 1 : x[i] = w[i]
<1>1. j \in Nat /\ j <= Len(w) /\ j - 1 \in Nat /\ Len(w) \in Nat
  OBVIOUS
<1>2. SubSeq(w, 1, j - 1) \in Seq(S) /\ Len(SubSeq(w, 1, j - 1)) = j - 1
      /\ \A i \in 1 .. j - 1 : SubSeq(w, 1, j - 1)[i] = w[i]
  BY <1>1
<1>3. Append(SubSeq(w, 1, j - 1), w[j]) = SubSeq(w, 1, j)
  BY <1>1
<1> QED BY <1>2, <1>3

\* A packet more, in every format.
LEMMA PacketKeeps ==
    ASSUME NEW c, Shape(c), c.format \in Text \cup Unguarded, c.header \in BOOLEAN,
           NEW a \in Nat, NEW p \in Seq(WordOf(a)), Rep(c, p, a),
           \A i \in DOMAIN p : p[i] \subseteq Probes0(c),
           NEW bytes, NEW u, NEW garbage \in Garbage(a), Words(bytes, u) \in Seq(WordOf(a)),
           \A i \in DOMAIN Words(bytes, u) : Words(bytes, u)[i] \subseteq Probes0(c),
           c.format = "vcd" => (c.header <=> p = <<>>), c.format = "hex" => c.off = 0
    PROVE  LET d == Data(c, bytes, u, garbage)
               q == p \o Words(bytes, u)
           IN  /\ Same(c, d) /\ d.header = FALSE /\ Rep(d, q, a)
               /\ c.format = "bits" => \A m : Marks(c, p, m) => Marks(d, q, m)
<1> DEFINE w == Words(bytes, u)
           n == Len(w)
           S == WordOf(a)
           P == Probes0(c)
           to(j) == p \o SubSeq(w, 1, j)
           d == Data(c, bytes, u, garbage)
<1>1. n \in Nat /\ w \in Seq(S) /\ p \in Seq(S) /\ \A i \in 1 .. n : w[i] \in S
  OBVIOUS
<1>2. \A i \in 1 .. n : w[i] \subseteq P
  OBVIOUS
<1>3. PICK f : /\ f[0] = Started(c) /\ f[n] = d
               /\ \A j \in 1 .. n : f[j] = Sample(f[j - 1], w, j, garbage, c.header)
  <2>1. c.format \notin Raw
    BY DEF Text, Unguarded, Raw
  <2> QED BY <1>1, <2>1, DataIs
<1> HIDE DEF w, d, P
<1>4. to(0) = p /\ to(n) = p \o w
  <2>1. SubSeq(w, 1, 0) = <<>> /\ SubSeq(w, 1, n) = w
    BY <1>1
  <2>2. p \o <<>> = p
    OBVIOUS
  <2> QED BY <2>1, <2>2
<1>5. ASSUME NEW j \in 1 .. n
      PROVE  /\ to(j) = Append(to(j - 1), w[j]) /\ to(j - 1) \in Seq(S)
             /\ (to(j - 1) = <<>> <=> p = <<>> /\ j = 1)
             /\ \A i \in DOMAIN to(j - 1) : to(j - 1)[i] \subseteq P
  <2> DEFINE x == SubSeq(w, 1, j - 1)
             y == SubSeq(w, 1, j)
  <2>1. /\ x \in Seq(S) /\ Len(x) = j - 1 /\ y = Append(x, w[j])
        /\ \A i \in 1 .. j - 1 : x[i] = w[i]
    <3> HIDE DEF S
    <3> QED BY <1>1, FirstMore
  <2> HIDE DEF x, y, S
  <2>2. p \o Append(x, w[j]) = Append(p \o x, w[j])
    BY <1>1, <2>1
  <2>3. p \o x \in Seq(S) /\ Len(p \o x) = Len(p) + Len(x)
        /\ DOMAIN (p \o x) = 1 .. Len(p) + Len(x)
        /\ (\A i \in 1 .. Len(p) : (p \o x)[i] = p[i])
        /\ (\A i \in 1 .. Len(x) : (p \o x)[Len(p) + i] = x[i])
    <3>1. p \in Seq(S)
      BY <1>1
    <3>2. p \o x \in Seq(S) /\ IsSeq(p) /\ IsSeq(x)
      BY <2>1, <3>1, AnySeq
    <3>3. /\ Len(p \o x) = Len(p) + Len(x)
          /\ \A i \in 1 .. Len(p) : (p \o x)[i] = p[i]
          /\ \A i \in 1 .. Len(x) : (p \o x)[Len(p) + i] = x[i]
      BY <3>2, SeqConcat
    <3>4. DOMAIN (p \o x) = 1 .. Len(p \o x)
      BY <3>2
    <3> QED BY <3>2, <3>3, <3>4
  <2>4. Len(p) \in Nat /\ Len(x) \in Nat
    BY <1>1, <2>1
  <2>5. p \o x = <<>> <=> p = <<>> /\ j = 1
    <3>1. p \o x = <<>> <=> Len(p) + Len(x) = 0
      BY <2>3
    <3>2. p = <<>> <=> Len(p) = 0
      BY <1>1
    <3> QED BY <2>1, <2>4, <3>1, <3>2
  <2>6. ASSUME NEW i \in DOMAIN (p \o x) PROVE (p \o x)[i] \subseteq P
    <3>1. i \in 1 .. Len(p) + Len(x)
      BY <2>3
    <3>2. CASE i <= Len(p)
      <4>1. i \in DOMAIN p
        BY <1>1, <2>4, <3>1, <3>2
      <4> QED BY <1>1, <2>3, <4>1 DEF P
    <3>3. CASE ~(i <= Len(p))
      <4>1. i - Len(p) \in 1 .. Len(x) /\ i - Len(p) \in 1 .. n /\ Len(p) + (i - Len(p)) = i
        BY <1>1, <2>1, <2>4, <3>1, <3>3
      <4> QED BY <1>2, <2>1, <2>3, <3>1, <3>3, <4>1
    <3> QED BY <3>2, <3>3
  <2> QED BY <2>1, <2>2, <2>3, <2>5, <2>6 DEF x, y, S
<1> HIDE DEF n, to, S
<1> DEFINE Good(j) == /\ Same(c, f[j]) /\ f[j].header = FALSE /\ Rep(f[j], to(j), a)
                      /\ c.format = "bits" => \A m : Marks(c, p, m) => Marks(f[j], to(j), m)
           I == {j \in 0 .. n : Good(j)}
<1>6. Good(0)
  <2> DEFINE b == Started(c)
  <2>1. Same(c, b) /\ Alike(c, b) /\ b.header = FALSE
    BY StartedKeeps
  <2> HIDE DEF b
  <2>2. Rep(b, p, a) /\ \A m : Marks(c, p, m) => Marks(b, p, m)
    BY <2>1, AlikeRep
  <2> QED BY <1>3, <1>4, <2>1, <2>2 DEF b
<1>7. ASSUME NEW j \in 1 .. n, Good(j - 1) PROVE Good(j)
  <2> DEFINE b == f[j - 1]
             q == to(j - 1)
             e == Sample(b, w, j, garbage, c.header)
  <2>1. /\ Shape(b) /\ b.format = c.format /\ b.names = c.names /\ Rep(b, q, a)
        /\ b.header = FALSE /\ b.open = c.open /\ b.spl = c.spl /\ b.rate = c.rate
    BY <1>7 DEF Same
  <2>2. f[j] = e
    BY <1>3
  <2>3. Probes0(b) = P
    BY <2>1 DEF Probes0, P
  <2>4. /\ q \in Seq(WordOf(a)) /\ (\A i \in DOMAIN q : q[i] \subseteq P)
        /\ to(j) = Append(q, w[j]) /\ (q = <<>> <=> p = <<>> /\ j = 1)
    BY <1>5 DEF S
  <2>5. w[j] \in WordOf(a) /\ w[j] \subseteq P
    BY <1>1, <1>2 DEF S
  <2>6. b.format = "vcd" => ((c.header /\ j = 1) <=> q = <<>>)
    BY <2>1, <2>4
  <2>7. /\ GoesOn(b, e) /\ Rep(e, Append(q, w[j]), a)
        /\ b.format = "bits" => \A m : Marks(b, q, m) => Marks(e, Append(q, w[j]), m)
    <3> HIDE DEF b, q, e
    <3> QED BY <2>1, <2>3, <2>4, <2>5, <2>6, SampleKeeps DEF e
  <2> HIDE DEF e
  <2>8. Same(c, e) /\ e.header = FALSE
    BY <2>1, <2>7 DEF Same, GoesOn
  <2>9. ASSUME c.format = "bits", NEW m, Marks(c, p, m) PROVE Marks(e, to(j), m)
    <3>1. Marks(b, q, m)
      BY <1>7, <2>9
    <3> HIDE DEF b, q
    <3> QED BY <2>1, <2>4, <2>7, <2>9, <3>1
  <2>10. Rep(e, to(j), a)
    <3> HIDE DEF b, q
    <3> QED BY <2>4, <2>7
  <2> QED BY <2>2, <2>8, <2>9, <2>10
<1> HIDE DEF Good
<1>8. I = 0 .. n
  <2>1. I \in SUBSET (0 .. n) /\ 0 \in I /\ n \in Nat
    BY <1>1, <1>6 DEF n
  <2>2. ASSUME NEW j \in 1 .. n, j - 1 \in I PROVE j \in I
    BY <1>7, <2>1, <2>2
  <2> HIDE DEF I
  <2> QED BY <2>1, <2>2, UpTo
<1>9. Good(n)
  BY <1>1, <1>8 DEF n
<1> QED BY <1>3, <1>4, <1>9 DEF Good, d, w

-----------------------------------------------------------------------------
(* The end *)

\* What is in front of the line that is being filled, at the end.
LEMMA FullAtEnd ==
    ASSUME NEW format, NEW lines, IsSeq(lines), NEW p, FullLines(format, lines, p),
           Len(p) \in Nat, Len(lines) * SamplesPerLine <= Len(p), NEW i \in 1 .. Len(lines)
    PROVE  LET b == (i - 1) * SamplesPerLine
           IN  Cells(format, lines[i].cells, b, Min({SamplesPerLine, Len(p) - b}), p)
<1> DEFINE z == SamplesPerLine
           b == (i - 1) * z
           t == Len(lines) * z
           n == Len(p)
<1>1. Cells(format, lines[i].cells, b, z, p)
  BY DEF FullLines
<1>2. Len(lines) \in Nat /\ z \in Nat \ {0} /\ n \in Nat
  BY SeqIs, Sizes
<1>3. b + z <= t /\ b \in Int /\ t \in Int
  <2>1. i - 1 \in Int /\ i \in Int /\ Len(lines) \in Int /\ i <= Len(lines)
    BY <1>2
  <2>2. b \in Int /\ i * z \in Int /\ t \in Int /\ i * z <= t /\ b = i * z - z
    BY <1>2, <2>1, Multiples
  <2> HIDE DEF b, t, z
  <2> QED BY <1>2, <2>1, <2>2
<1>4. t <= n
  OBVIOUS
<1> HIDE DEF b, t, z, n
<1>5. Min({z, n - b}) = z
  <2>1. n - b \in Int /\ z <= n - b
    BY <1>2, <1>3, <1>4
  <2> QED BY <1>2, <2>1, MinOf
<1> QED BY <1>1, <1>5 DEF b, z, n

\* The rest of the samples goes to a last line.
LEMMA FlushEnds ==
    ASSUME NEW c, Shape(c), c.format \in Text, NEW p, IsSeq(p), TextRep(c, p)
    PROVE  LET d == Flush(c)
           IN  /\ Shape(d) /\ d.format = c.format /\ d.names = c.names /\ TextEnd(d, p)
               /\ c.format = "bits" =>
                     \A m : Marks(c, p, m) => MarkedLines(Of(d.out, "line"), m)
<1> DEFINE d == Flush(c)
           lines == Of(c.out, "line")
           z == SamplesPerLine
           b == Len(lines) * z
           l == Len(lines)
           n == Len(p)
           t == c.cnt
<1>1. /\ c.cnt \in 0 .. z /\ n = b + c.cnt
      /\ Cells(c.format, c.line, b, c.cnt, p) /\ FullLines(c.format, lines, p)
      /\ c.format # "ascii" => c.cnt < z
  BY DEF TextRep, TextLines
<1>2. IsSeq(lines) /\ l \in Nat /\ z \in Nat \ {0} /\ t \in Nat /\ n \in Nat
  <2>1. IsSeq(lines) /\ l \in Nat /\ z \in Nat \ {0} /\ n \in Nat
    BY OfOne, SeqIs, Sizes DEF Shape
  <2>2. t \in Nat
    BY <1>1, <2>1
  <2> QED BY <2>1, <2>2
<1>3. b \in Nat /\ (l + 1) * z = b + z
  BY <1>2, Multiples
<1>4. /\ IsSeq(c.line) /\ \A x \in 1 .. Len(c.line) - 1 : c.line[x].sep
      /\ (t = 0 <=> c.line = <<>>)
  BY <1>1, <1>2, LineShape
<1>5. \A i \in 1 .. l : LET e == (i - 1) * z
                        IN  Cells(c.format, lines[i].cells, e, Min({z, n - e}), p)
  <2>1. l * z <= n
    BY <1>1, <1>2, <1>3
  <2> HIDE DEF lines, z
  <2> QED BY <1>1, <1>2, <2>1, FullAtEnd DEF z
<1>6. CASE c.line = <<>>
  <2>1. d = c /\ t = 0
    BY <1>4, <1>6 DEF Flush
  <2>2. l = (n + z - 1) \div z
    <3>1. n + z - 1 = b + (z - 1) /\ z - 1 \in 0 .. z - 1
      <4> HIDE DEF b
      <4> QED BY <1>1, <1>2, <1>3, <2>1
    <3>2. (l * z + (z - 1)) \div z = l
      BY <1>2, <3>1, Divided
    <3> QED BY <3>1, <3>2
  <2>3. TextEnd(d, p)
    BY <1>5, <2>1, <2>2 DEF TextEnd
  <2>4. \A m : Marks(c, p, m) => MarkedLines(Of(d.out, "line"), m)
    BY <2>1 DEF Marks
  <2> QED BY <2>1, <2>3, <2>4
<1>7. CASE c.line # <<>>
  <2> DEFINE e == LineOf(c)
             more == Append(lines, e)
  <2>1. GoesOn(c, d) /\ Of(d.out, "line") = more
    <3>1. /\ GoesOn(c, d)
          /\ \A kind : Of(d.out, kind) = IF kind = "line"
                                         THEN Append(Of(c.out, kind), LineOf(c))
                                         ELSE Of(c.out, kind)
      BY <1>4, <1>7, FlushIs
    <3> QED BY <3>1
  <2>2. e.cells = c.line /\ e.mark = c.mark
    BY DEF LineOf
  <2> HIDE DEF e, d, lines, l
  <2>3. /\ Len(more) = l + 1 /\ more[l + 1] = e /\ \A i \in 1 .. l : more[i] = lines[i]
    BY <1>2, OneMore DEF l
  <2> HIDE DEF more
  <2>4. l + 1 = (n + z - 1) \div z
    <3> DEFINE f == (l + 1) * z
               r == t - 1
    <3>1. f = b + z
      BY <1>3
    <3> HIDE DEF f
    <3>2. n + z - 1 = f + r /\ r \in 0 .. z - 1 /\ l + 1 \in Nat
      <4> HIDE DEF b
      <4> QED BY <1>1, <1>2, <1>3, <1>4, <1>7, <3>1
    <3>3. (f + r) \div z = l + 1
      <4> HIDE DEF r
      <4> QED BY <1>2, <3>2, Divided DEF f
    <3> QED BY <3>2, <3>3
  <2>5. (l + 1) - 1 = l /\ Min({z, n - b}) = t
    <3> HIDE DEF b
    <3>1. n - b = t /\ t <= z
      BY <1>1, <1>2, <1>3
    <3> QED BY <1>2, <3>1, MinOf
  <2>6. ASSUME NEW i \in 1 .. Len(more)
        PROVE  LET f == (i - 1) * z
               IN  Cells(c.format, more[i].cells, f, Min({z, n - f}), p)
    <3>1. i \in 1 .. l \/ i = l + 1
      BY <1>2, <2>3
    <3>2. CASE i \in 1 .. l
      BY <1>5, <2>3, <3>2
    <3>3. CASE i = l + 1
      <4>1. (i - 1) * z = b /\ more[i].cells = c.line
        BY <2>2, <2>3, <2>5, <3>3 DEF l
      <4> QED BY <1>1, <2>5, <4>1
    <3> QED BY <3>1, <3>2, <3>3
  <2>7. TextEnd(d, p)
    BY <2>1, <2>3, <2>4, <2>6 DEF TextEnd, GoesOn
  <2>8. ASSUME c.format = "bits", NEW m, Marks(c, p, m) PROVE MarkedLines(more, m)
    <3>1. m \in -1 .. n /\ MarkedLines(lines, m) /\ c.mark = MarkOf(b, t + 1, m)
      BY <2>8 DEF Marks, lines, l
    <3>2. MarkOf(b, t + 1, m) = MarkOf(b, z, m)
      <4> HIDE DEF b
      <4>1. n = b + t /\ t < z
        BY <1>1, <2>8
      <4> QED BY <1>2, <1>3, <3>1, <4>1 DEF MarkOf
    <3>3. ASSUME NEW i \in 1 .. Len(more) PROVE more[i].mark = MarkOf((i - 1) * z, z, m)
      <4>1. i \in 1 .. l \/ i = l + 1
        BY <1>2, <2>3
      <4>2. CASE i \in 1 .. l
        BY <2>3, <3>1, <4>2 DEF MarkedLines, l
      <4>3. CASE i = l + 1
        <5>1. (i - 1) * z = b /\ more[i].mark = c.mark
          BY <2>2, <2>3, <2>5, <4>3 DEF l
        <5> QED BY <3>1, <3>2, <5>1
      <4> QED BY <4>1, <4>2, <4>3
    <3> QED BY <3>3 DEF MarkedLines
  <2>9. Shape(d) /\ d.format = c.format /\ d.names = c.names
    BY <2>1 DEF GoesOn
  <2> QED BY <2>1, <2>7, <2>8, <2>9 DEF d
<1> QED BY <1>6, <1>7

\* Closing a context changes nothing of it but that.
LEMMA ClosedIs ==
    ASSUME NEW c, Shape(c)
    PROVE  LET d == Closed(c)
           IN  Shape(d) /\ Alike(c, d) /\ d.out = c.out
<1> DEFINE d == Closed(c)
<1>1. DOMAIN d = DOMAIN c /\ \A f \in DOMAIN c : f # "open" => d[f] = c[f]
  BY DEF Closed
<1> HIDE DEF d
<1>2. \A f \in Fields : f # "open" => d[f] = c[f]
  BY <1>1 DEF Shape
<1>3. d.out = c.out /\ d.names = c.names
  BY <1>2 DEF Fields
<1>4. Alike(c, d)
  BY <1>2 DEF Alike, Fields
<1>5. Shape(d)
  BY <1>1, <1>3 DEF Shape
<1> QED BY <1>3, <1>4, <1>5 DEF d

\* At the end all the samples are in the output.
LEMMA EndKeeps ==
    ASSUME NEW c, Shape(c), c.format \in Text \cup Unguarded,
           NEW p, IsSeq(p), NEW a, Rep(c, p, a)
    PROVE  LET d == Event(c, "end")
           IN  /\ Shape(d) /\ d.format = c.format /\ d.names = c.names /\ d.rate = c.rate
               /\ EndRep(d, p, a)
               /\ c.format = "bits" =>
                     \A m : Marks(c, p, m) => MarkedLines(Of(d.out, "line"), m)
<1> DEFINE d == Event(c, "end")
<1>1. CASE c.format \in Text
  <2> DEFINE b == Flush(c)
  <2>1. d = Closed(b)
    BY <1>1 DEF Event, TextEvent, Text
  <2>2. TextRep(c, p)
    BY <1>1 DEF Rep, Text
  <2>3. /\ Shape(b) /\ b.format = c.format /\ b.names = c.names /\ TextEnd(b, p)
        /\ c.format = "bits" =>
              \A m : Marks(c, p, m) => MarkedLines(Of(b.out, "line"), m)
    BY <1>1, <2>2, FlushEnds
  <2>4. b.rate = c.rate
    BY DEF Flush, Emit
  <2> HIDE DEF b
  <2>5. Shape(d) /\ Alike(b, d) /\ d.out = b.out
    BY <2>1, <2>3, ClosedIs
  <2> HIDE DEF d
  <2>6. d.format = c.format /\ d.names = c.names /\ d.rate = c.rate
    BY <2>3, <2>4, <2>5 DEF Alike
  <2>7. TextEnd(d, p)
    BY <2>3, <2>5 DEF TextEnd, Alike
  <2>8. EndRep(d, p, a)
    BY <1>1, <2>6, <2>7 DEF EndRep
  <2> QED BY <2>3, <2>5, <2>6, <2>8 DEF d
<1>2. CASE c.format = "vcd"
  <2> DEFINE e == [kind |-> "dumpoff"]
             b == Emit(c, <<e>>)
  <2>1. d = Closed(b)
    BY <1>2 DEF Event, VcdEvent, Text
  <2>2. e.kind \notin Told
    BY DEF Told
  <2> HIDE DEF e
  <2>3. GoesOn(c, b) /\ Alike(c, b)
    BY <2>2, EmitAside
  <2> HIDE DEF b
  <2>4. Shape(d) /\ Alike(b, d)
    BY <2>1, <2>3, ClosedIs DEF GoesOn
  <2> HIDE DEF d
  <2>5. Rep(d, p, a)
    BY <2>3, <2>4, AlikeRep
  <2>6. d.format = c.format /\ d.names = c.names /\ d.rate = c.rate
    BY <2>3, <2>4 DEF Alike
  <2>7. EndRep(d, p, a)
    BY <1>2, <2>5, <2>6 DEF EndRep, Text
  <2> QED BY <1>2, <2>4, <2>6, <2>7 DEF d
<1>3. CASE c.format \in {"csv", "gnuplot", "ols"}
  <2>1. d = Closed(c) \/ d = c
    BY <1>3 DEF Event, CsvEvent, GnuplotEvent, OlsEvent, Text
  <2>2. Shape(d) /\ Alike(c, d)
    BY <2>1, ClosedIs DEF Alike
  <2> HIDE DEF d
  <2>3. Rep(d, p, a)
    BY <2>2, AlikeRep
  <2>4. d.format = c.format /\ d.names = c.names /\ d.rate = c.rate
    BY <2>2 DEF Alike
  <2>5. EndRep(d, p, a)
    BY <1>3, <2>3, <2>4 DEF EndRep, Text
  <2> QED BY <1>3, <2>2, <2>4, <2>5 DEF d
<1> QED BY <1>1, <1>2, <1>3 DEF Text, Unguarded

\* The trigger marks the next sample.
LEMMA TriggerMarks ==
    ASSUME NEW c, Shape(c), NEW p, IsSeq(p)
    PROVE  LET d == Event(c, "trigger")
           IN  /\ Same(c, d) /\ d.header = c.header /\ d.off = c.off
               /\ \A a : Rep(c, p, a) => Rep(d, p, a)
               /\ c.format = "bits" /\ TextRep(c, p) /\ Marks(c, p, -1) => Marks(d, p, Len(p))
<1> DEFINE d == Event(c, "trigger")
           z == SamplesPerLine
           lines == Of(c.out, "line")
<1>1. CASE c.format \in Text
  <2>1. d = [c EXCEPT !.mark = c.cnt]
    BY <1>1 DEF Event, TextEvent, Text
  <2>2. DOMAIN d = DOMAIN c /\ d.mark = c.cnt /\ \A f \in DOMAIN c : f # "mark" => d[f] = c[f]
    BY <2>1 DEF Shape, Fields
  <2> HIDE DEF d
  <2>3. \A f \in Fields : f # "mark" => d[f] = c[f]
    BY <2>2 DEF Shape
  <2>4. Same(c, d) /\ d.header = c.header /\ d.off = c.off
    BY <2>2, <2>3 DEF Same, Shape, Fields
  <2>5. d.format = c.format /\ d.spl = c.spl /\ d.cnt = c.cnt /\ d.line = c.line
        /\ d.values = c.values /\ d.prev = c.prev /\ d.out = c.out
    BY <2>3 DEF Fields
  <2>6. ASSUME NEW a, Rep(c, p, a) PROVE Rep(d, p, a)
    <3>1. TextRep(c, p)
      BY <1>1, <2>6 DEF Rep, Text
    <3>2. TextRep(d, p)
      BY <2>4, <2>5, <3>1 DEF TextRep, TextLines, AsciiRep, HexRep
    <3> QED BY <1>1, <2>5, <3>2 DEF Rep, Text
  <2>7. ASSUME c.format = "bits", TextRep(c, p), Marks(c, p, -1) PROVE Marks(d, p, Len(p))
    <3> DEFINE n == Len(p)
               b == Len(lines) * z
               t == c.cnt
    <3>1. t \in 0 .. z /\ n = b + t /\ t < z
      BY <2>7 DEF TextRep, TextLines
    <3>2. IsSeq(lines) /\ Len(lines) \in Nat /\ z \in Nat \ {0} /\ n \in Nat
      BY OfOne, SeqIs, Sizes DEF Shape
    <3>3. b \in Nat
      BY <3>2, Multiples
    <3>4. MarkedLines(lines, -1)
      BY <2>7 DEF Marks
    <3>5. d.mark = MarkOf(b, t + 1, n)
      <4> HIDE DEF b, n, t
      <4>1. n \in b .. b + t /\ n - b = t /\ b + (t + 1) - 1 = b + t
        BY <3>1, <3>2, <3>3
      <4> QED BY <2>2, <4>1 DEF MarkOf, t
    <3>6. ASSUME NEW i \in 1 .. Len(lines)
          PROVE  MarkOf((i - 1) * z, z, -1) = MarkOf((i - 1) * z, z, n)
      <4> DEFINE f == (i - 1) * z
      <4>1. i - 1 \in Int /\ i \in Int /\ Len(lines) \in Int /\ i <= Len(lines) /\ i - 1 >= 0
        BY <3>2
      <4>2. f \in Int /\ i * z \in Int /\ i * z <= b /\ f = i * z - z /\ f >= 0
        BY <3>2, <4>1, Multiples
      <4> DEFINE h == i * z
      <4> HIDE DEF f, b, n, t, h
      <4>3. f \in Int /\ h \in Int /\ h <= b /\ f = h - z /\ f >= 0
        BY <4>2 DEF h
      <4>4. -1 \notin f .. f + z - 1
        BY <3>2, <4>3
      <4>5. n \notin f .. f + z - 1
        BY <3>1, <3>2, <3>3, <4>3
      <4> QED BY <4>4, <4>5 DEF MarkOf, f
    <3>7. MarkedLines(lines, n)
      BY <3>4, <3>6 DEF MarkedLines
    <3>8. n \in -1 .. Len(p)
      BY <3>2
    <3> QED BY <2>5, <3>5, <3>7, <3>8 DEF Marks
  <2> QED BY <2>4, <2>6, <2>7 DEF d
<1>2. CASE c.format \notin Text
  <2>1. d = c
    BY <1>2 DEF Event, VcdEvent, CsvEvent, GnuplotEvent, OlsEvent, La8Event, FloatEvent
  <2>2. c.format # "bits"
    BY <1>2 DEF Text
  <2> QED BY <2>1, <2>2 DEF Same
<1> QED BY <1>1, <1>2

-----------------------------------------------------------------------------
(* What is not told of the samples *)

\* One context goes on from the other and has no values more.
Kin(c, d) ==
    /\ Shape(d) /\ d.format = c.format /\ d.names = c.names
    /\ Of(d.out, "value") = Of(c.out, "value")

\* The fields besides do not matter.
LEMMA KinField ==
    ASSUME NEW c, Shape(c), NEW d, DOMAIN d = DOMAIN c, d.out = c.out,
           d.names = c.names, d.format = c.format
    PROVE  Kin(c, d)
BY DEF Kin, Shape

\* An item of another kind is written, or is not.
LEMMA KinEmit ==
    ASSUME NEW c, Shape(c), NEW e, e.kind # "value",
           NEW items, items = <<e>> \/ items = <<>>
    PROVE  LET d == Emit(c, items)
           IN  DOMAIN d = DOMAIN c /\ Kin(c, d)
<1> DEFINE d == Emit(c, items)
<1>1. /\ DOMAIN d = DOMAIN c /\ GoesOn(c, d)
      /\ \A kind : Of(d.out, kind) = IF items = <<e>> /\ e.kind = kind
                                     THEN Append(Of(c.out, kind), e)
                                     ELSE Of(c.out, kind)
  BY EmitOne
<1> HIDE DEF d
<1>2. Of(d.out, "value") = Of(c.out, "value")
  BY <1>1
<1> QED BY <1>1, <1>2 DEF Kin, GoesOn, d

\* A line is written, or is not.
LEMMA KinLine ==
    ASSUME NEW c, Shape(c), NEW d,
           d = Flush(c) \/ d = EndOfLine(c) \/ d = EndOfMarkedLine(c)
    PROVE  DOMAIN d = DOMAIN c /\ Kin(c, d)
<1> DEFINE e == [kind |-> "line", mark |-> c.mark, cells |-> Shown(c.line)]
           b == Emit(c, <<e>>)
           f == Flush(c)
           l == EndOfLine(c)
<1>1. e.kind # "value"
  OBVIOUS
<1>2. f = c \/ f = [b EXCEPT !.line = <<>>]
  BY DEF Flush
<1> HIDE DEF e
<1>3. DOMAIN b = DOMAIN c /\ Kin(c, b)
  <2> DEFINE items == <<e>>
  <2>1. items = <<e>> \/ items = <<>>
    OBVIOUS
  <2> HIDE DEF items
  <2>2. DOMAIN Emit(c, items) = DOMAIN c /\ Kin(c, Emit(c, items))
    BY <1>1, <2>1, KinEmit
  <2> QED BY <2>2 DEF items
<1> HIDE DEF b
<1>4. Kin(c, c)
  BY DEF Kin
<1>5. DOMAIN f = DOMAIN c /\ Kin(c, f)
  <2>1. CASE f = c
    BY <1>4, <2>1
  <2>2. CASE f = [b EXCEPT !.line = <<>>]
    <3>1. DOMAIN f = DOMAIN b /\ f.out = b.out /\ f.names = b.names /\ f.format = b.format
      BY <2>2
    <3>2. Shape(b)
      BY <1>3 DEF Kin
    <3> HIDE DEF f
    <3>3. Kin(b, f)
      BY <3>1, <3>2, KinField
    <3> QED BY <1>3, <3>1, <3>3 DEF Kin
  <2> QED BY <1>2, <2>1, <2>2
<1> HIDE DEF f
<1>6. DOMAIN l = DOMAIN c /\ Kin(c, l)
  <2>1. l = c \/ l = [f EXCEPT !.cnt = 0, !.off = 0]
    BY DEF EndOfLine, f
  <2>2. ASSUME l # c
        PROVE  DOMAIN l = DOMAIN f /\ l.out = f.out /\ l.names = f.names /\ l.format = f.format
    <3>1. l = [f EXCEPT !.cnt = 0, !.off = 0]
      BY <2>1, <2>2
    <3> QED BY <3>1
  <2> HIDE DEF l
  <2>3. Shape(f)
    BY <1>5 DEF Kin
  <2>4. l = c \/ Kin(f, l)
    BY <2>2, <2>3, KinField
  <2> QED BY <1>4, <1>5, <2>2, <2>4 DEF Kin
<1>7. CASE d = EndOfMarkedLine(c)
  <2>1. d = c \/ d = [l EXCEPT !.mark = -1]
    BY <1>7 DEF EndOfMarkedLine
  <2> HIDE DEF l
  <2>2. ASSUME d # c
        PROVE  DOMAIN d = DOMAIN l /\ d.out = l.out /\ d.names = l.names /\ d.format = l.format
    <3>1. d = [l EXCEPT !.mark = -1]
      BY <2>1, <2>2
    <3> QED BY <3>1
  <2>3. Shape(l)
    BY <1>6 DEF Kin
  <2>4. d = c \/ Kin(l, d)
    BY <2>2, <2>3, KinField
  <2> QED BY <1>4, <1>6, <2>2, <2>4 DEF Kin
<1> QED BY <1>5, <1>6, <1>7 DEF f, l

\* A sample is not a value, in any format.
LEMMA KinSample ==
    ASSUME NEW c, Shape(c), c.format \in Text \cup Unguarded, NEW w, NEW i, NEW garbage,
           NEW first
    PROVE  Kin(c, Sample(c, w, i, garbage, first))
<1> DEFINE d == Sample(c, w, i, garbage, first)
           s == w[i]
<1> HIDE DEF s
<1>1. CASE c.format = "bits"
  <2> DEFINE b == [c EXCEPT !.line = Append(@, Cell(s, {}, <<>>, TRUE)), !.cnt = @ + 1]
  <2>1. d = EndOfMarkedLine(b)
    BY <1>1 DEF Sample, BitsSample, s
  <2>2. DOMAIN b = DOMAIN c /\ b.out = c.out /\ b.names = c.names /\ b.format = c.format
    OBVIOUS
  <2> HIDE DEF b, d
  <2>3. Kin(c, b)
    BY <2>2, KinField
  <2>4. Kin(b, d)
    BY <2>1, <2>3, KinLine DEF Kin
  <2> QED BY <2>3, <2>4 DEF Kin, d
<1>2. CASE c.format = "hex"
  <2> DEFINE v == Append(Tail(c.values), s)
             at == c.off + 1
             whole == ((c.cnt + 1) % ByteBits) = 0
             line == [j \in 1 .. Max({at, Len(c.line)}) |->
                         IF j = at THEN Cell({}, {}, v, whole) ELSE c.line[j]]
             n == c.cnt + 1
             off == IF whole THEN at ELSE c.off
             b == [c EXCEPT !.values = v, !.cnt = n, !.line = line, !.off = off]
  <2>1. d = EndOfLine(b)
    BY <1>2 DEF Sample, HexSample, s
  <2> HIDE DEF v, line, n, off
  <2>2. DOMAIN b = DOMAIN c /\ b.out = c.out /\ b.names = c.names /\ b.format = c.format
    OBVIOUS
  <2> HIDE DEF b, d
  <2>3. Kin(c, b)
    BY <2>2, KinField
  <2>4. Kin(b, d)
    BY <2>1, <2>3, KinLine DEF Kin
  <2> QED BY <2>3, <2>4 DEF Kin, d
<1>3. CASE c.format = "ascii"
  <2> DEFINE fell == IF c.line = <<>> THEN c
                     ELSE [c EXCEPT !.line[Len(c.line)].fall = c.prev \ s]
             b == EndOfMarkedLine(fell)
             cell == Cell(s, s \ c.prev, <<>>, TRUE)
  <2>1. d = [b EXCEPT !.line = Append(@, cell), !.cnt = @ + 1, !.prev = s]
    BY <1>3 DEF Sample, AsciiSample, s
  <2>2. /\ DOMAIN fell = DOMAIN c /\ fell.out = c.out /\ fell.names = c.names
        /\ fell.format = c.format
    OBVIOUS
  <2> HIDE DEF fell, cell
  <2>3. Kin(c, fell)
    BY <2>2, KinField
  <2>4. DOMAIN b = DOMAIN fell /\ Kin(fell, b)
    <3>1. Shape(fell)
      BY <2>3 DEF Kin
    <3> QED BY <3>1, KinLine
  <2> HIDE DEF b, d
  <2>5. DOMAIN d = DOMAIN b /\ d.out = b.out /\ d.names = b.names /\ d.format = b.format
    BY <2>1
  <2>6. Kin(b, d)
    BY <2>4, <2>5, KinField DEF Kin
  <2> QED BY <2>3, <2>4, <2>6 DEF Kin, d
<1>4. CASE c.format = "vcd"
  <2> DEFINE n == c.count + 1
             was == IF first /\ i = 1 THEN Probes0(c) \ s ELSE c.prev
             e == [kind |-> "change", at |-> IF c.rate THEN n ELSE -1,
                   high |-> s \ was, low |-> was \ s]
             items == IF s = was THEN <<>> ELSE <<e>>
             b == Emit(c, items)
  <2>1. d = [b EXCEPT !.count = n, !.prev = s]
    BY <1>4 DEF Sample, VcdSample, s, Text
  <2>2. e.kind # "value" /\ (items = <<e>> \/ items = <<>>)
    OBVIOUS
  <2> HIDE DEF items, e, n
  <2>3. DOMAIN b = DOMAIN c /\ Kin(c, b)
    BY <2>2, KinEmit
  <2> HIDE DEF b, d
  <2>4. DOMAIN d = DOMAIN b /\ d.out = b.out /\ d.names = b.names /\ d.format = b.format
    BY <2>1
  <2>5. Kin(b, d)
    BY <2>3, <2>4, KinField DEF Kin
  <2> QED BY <2>3, <2>5 DEF Kin, d
<1>5. CASE c.format = "csv"
  <2> DEFINE e == [kind |-> "row", cells |-> [x \in 1 .. Len(c.names) |->
                                                 Len(c.names) - x \in s]]
             items == <<e>>
             b == Emit(c, items)
  <2>1. d = b
    BY <1>5 DEF Sample, CsvSample, s, Text
  <2>2. e.kind # "value" /\ (items = <<e>> \/ items = <<>>)
    OBVIOUS
  <2> HIDE DEF items, e, d
  <2> QED BY <2>1, <2>2, KinEmit DEF d
<1>6. CASE c.format = "ols"
  <2> DEFINE e == [kind |-> "sample", n |-> c.count, s |-> s]
             items == <<e>>
             b == Emit(c, items)
  <2>1. d = [b EXCEPT !.count = @ + 1]
    BY <1>6 DEF Sample, OlsSample, s, Text
  <2>2. e.kind # "value" /\ (items = <<e>> \/ items = <<>>)
    OBVIOUS
  <2> HIDE DEF items, e
  <2>3. DOMAIN b = DOMAIN c /\ Kin(c, b)
    BY <2>2, KinEmit
  <2> HIDE DEF b, d
  <2>4. DOMAIN d = DOMAIN b /\ d.out = b.out /\ d.names = b.names /\ d.format = b.format
    BY <2>1
  <2>5. Kin(b, d)
    BY <2>3, <2>4, KinField DEF Kin
  <2> QED BY <2>3, <2>5 DEF Kin, d
<1>7. CASE c.format = "gnuplot"
  <2> DEFINE e == [kind |-> "point", n |-> c.count + 1, s |-> s]
             items == <<e>>
             b == Emit(c, items)
             v == s \cup garbage
  <2>1. d = [c EXCEPT !.count = @ + 1] \/ d = [b EXCEPT !.count = @ + 2, !.prev = v]
    BY <1>7 DEF Sample, GnuplotSample, s, Text
  <2>2. e.kind # "value" /\ (items = <<e>> \/ items = <<>>)
    OBVIOUS
  <2> HIDE DEF items, e, v
  <2>3. DOMAIN b = DOMAIN c /\ Kin(c, b)
    BY <2>2, KinEmit
  <2> HIDE DEF b, d
  <2>4. CASE d = [c EXCEPT !.count = @ + 1]
    <3>1. DOMAIN d = DOMAIN c /\ d.out = c.out /\ d.names = c.names /\ d.format = c.format
      BY <2>4
    <3> QED BY <3>1, KinField DEF d
  <2>5. CASE d = [b EXCEPT !.count = @ + 2, !.prev = v]
    <3>1. DOMAIN d = DOMAIN b /\ d.out = b.out /\ d.names = b.names /\ d.format = b.format
      BY <2>5
    <3>2. Kin(b, d)
      BY <2>3, <3>1, KinField DEF Kin
    <3> QED BY <2>3, <3>2 DEF Kin, d
  <2> QED BY <2>1, <2>4, <2>5 DEF d
<1> QED BY <1>1, <1>2, <1>3, <1>4, <1>5, <1>6, <1>7 DEF Text, Unguarded

\* Bytes are no values.
LEMMA KinBytes ==
    ASSUME NEW c, Shape(c), NEW bytes, IsSeq(bytes)
    PROVE  LET d == Emit(c, ByteItems(bytes))
           IN  DOMAIN d = DOMAIN c /\ Kin(c, d)
<1> DEFINE items == ByteItems(bytes)
           d == Emit(c, items)
           S == {[kind |-> "byte", byte |-> b] : b \in {bytes[i] : i \in DOMAIN bytes}}
<1>1. Len(bytes) \in Nat /\ DOMAIN bytes = 1 .. Len(bytes)
  BY SeqIs
<1>2. /\ items \in [1 .. Len(bytes) -> S]
      /\ \A i \in 1 .. Len(bytes) : items[i].kind = "byte"
  BY <1>1 DEF ByteItems
<1> HIDE DEF items, S
<1>3. items \in Seq(S) /\ Len(items) = Len(bytes)
  BY <1>1, <1>2, AsSeq
<1>4. IsSeq(items)
  BY <1>3, AnySeq
<1>5. \A i \in 1 .. Len(items) : items[i].kind # "value"
  BY <1>2, <1>3
<1>6. DOMAIN d = DOMAIN c /\ d.out = c.out \o items /\ GoesOn(c, d)
  BY <1>4, EmitIs
<1> HIDE DEF d
<1>7. IsSeq(c.out)
  BY DEF Shape
<1>8. Of(c.out \o items, "value") = Of(c.out, "value") \o Of(items, "value")
  BY <1>4, <1>7, OfConcat
<1>9. Of(items, "value") = <<>>
  BY <1>4, <1>5, OfOne
<1>10. Of(c.out, "value") \o <<>> = Of(c.out, "value")
  <2>1. IsSeq(Of(c.out, "value"))
    BY <1>7, OfOne
  <2> QED BY <2>1, SeqConcat
<1> QED BY <1>6, <1>8, <1>9, <1>10 DEF Kin, GoesOn, d, items

\* A packet of samples has no values,
LEMMA KinData ==
    ASSUME NEW c, Shape(c), c.format \in Formats \ {"float"}, NEW bytes \in Seq(Byte),
           NEW u \in Nat \ {0}, NEW garbage
    PROVE  Kin(c, Data(c, bytes, u, garbage))
<1> DEFINE d == Data(c, bytes, u, garbage)
<1>1. CASE c.format \in Raw
  <2>1. d = Emit(c, ByteItems(bytes))
    BY <1>1 DEF Data
  <2>2. IsSeq(bytes)
    BY AnySeq
  <2> QED BY <2>1, <2>2, KinBytes
<1>2. CASE c.format \notin Raw
  <2> DEFINE w == Words(bytes, u)
             n == Len(w)
  <2>1. n \in Nat
    <3>1. Len(w) = Len(bytes) \div u /\ Len(bytes) \div u \in Nat
      BY WordsType
    <3> QED BY <3>1
  <2>2. PICK f : /\ f[0] = Started(c) /\ f[n] = d
                 /\ \A j \in 1 .. n : f[j] = Sample(f[j - 1], w, j, garbage, c.header)
    BY <1>2, <2>1, DataIs
  <2>3. c.format \in Text \cup Unguarded
    BY <1>2 DEF Formats
  <2> HIDE DEF w, d
  <2>4. Kin(c, f[0])
    <3> DEFINE e == [kind |-> "header", names |-> c.names]
               items == <<e>>
               b == Emit(c, items)
               h == WithHeader(c)
               t == Started(c)
    <3>1. e.kind # "value" /\ (items = <<e>> \/ items = <<>>)
      OBVIOUS
    <3>2. h = c \/ h = [b EXCEPT !.header = FALSE]
      BY DEF WithHeader
    <3> HIDE DEF items, e
    <3>3. DOMAIN b = DOMAIN c /\ Kin(c, b)
      BY <3>1, KinEmit
    <3> HIDE DEF b, h
    <3>4. DOMAIN h = DOMAIN c /\ Kin(c, h)
      <4>1. CASE h = c
        BY <4>1 DEF Kin
      <4>2. CASE h = [b EXCEPT !.header = FALSE]
        <5>1. DOMAIN h = DOMAIN b /\ h.out = b.out /\ h.names = b.names /\ h.format = b.format
          BY <4>2
        <5>2. Kin(b, h)
          BY <3>3, <5>1, KinField DEF Kin
        <5> QED BY <3>3, <5>1, <5>2 DEF Kin
      <4> QED BY <3>2, <4>1, <4>2
    <3>5. t = [h EXCEPT !.off = IF c.format = "hex" THEN 0 ELSE @]
      BY DEF Started, h
    <3> HIDE DEF t
    <3>6. DOMAIN t = DOMAIN h /\ t.out = h.out /\ t.names = h.names /\ t.format = h.format
      BY <3>5
    <3>7. Kin(h, t)
      BY <3>4, <3>6, KinField DEF Kin
    <3> QED BY <2>2, <3>4, <3>7 DEF Kin, t
  <2> HIDE DEF n
  <2> DEFINE I == {j \in 0 .. n : Kin(c, f[j])}
  <2>5. I \in SUBSET (0 .. n) /\ 0 \in I
    BY <2>1, <2>4
  <2>6. ASSUME NEW j \in 1 .. n, j - 1 \in I PROVE j \in I
    <3> DEFINE b == f[j - 1]
    <3>1. Kin(c, b) /\ f[j] = Sample(b, w, j, garbage, c.header) /\ j \in 0 .. n
      BY <2>1, <2>2, <2>6
    <3> HIDE DEF b
    <3>2. Kin(b, Sample(b, w, j, garbage, c.header))
      BY <2>3, <3>1, KinSample DEF Kin
    <3> QED BY <3>1, <3>2 DEF Kin
  <2>7. I = 0 .. n
    <3> HIDE DEF I
    <3> QED BY <2>1, <2>5, <2>6, UpTo
  <2>8. n \in I
    BY <2>1, <2>7
  <2> QED BY <2>2, <2>8 DEF d
<1> QED BY <1>1, <1>2

\* and neither has an event.
LEMMA KinEvent ==
    ASSUME NEW c, Shape(c), c.format \in Formats,
           NEW type \in {"trigger", "end", "frame-begin", "frame-end"}
    PROVE  Kin(c, Event(c, type))
<1> DEFINE d == Event(c, type)
<1>1. Kin(c, c)
  BY DEF Kin
<1>2. ASSUME NEW b, DOMAIN b = DOMAIN c, Kin(c, b)
      PROVE  Kin(c, Closed(b))
  <2> DEFINE t == Closed(b)
  <2>1. DOMAIN t = DOMAIN b /\ t.out = b.out /\ t.names = b.names /\ t.format = b.format
    BY DEF Closed
  <2> HIDE DEF t
  <2>2. Kin(b, t)
    BY <1>2, <2>1, KinField DEF Kin
  <2> QED BY <1>2, <2>2 DEF Kin, t
<1>3. ASSUME NEW e, e.kind # "value"
      PROVE  DOMAIN Emit(c, <<e>>) = DOMAIN c /\ Kin(c, Emit(c, <<e>>))
  <2> DEFINE items == <<e>>
  <2>1. items = <<e>> \/ items = <<>>
    OBVIOUS
  <2> HIDE DEF items
  <2>2. DOMAIN Emit(c, items) = DOMAIN c /\ Kin(c, Emit(c, items))
    BY <1>3, <2>1, KinEmit
  <2> QED BY <2>2 DEF items
<1>4. CASE c.format \in Text
  <2>1. CASE type = "trigger"
    <3>1. d = [c EXCEPT !.mark = c.cnt]
      BY <1>4, <2>1 DEF Event, TextEvent, Text
    <3>2. DOMAIN d = DOMAIN c /\ d.out = c.out /\ d.names = c.names /\ d.format = c.format
      BY <3>1
    <3> HIDE DEF d
    <3> QED BY <3>2, KinField DEF d
  <2>2. CASE type = "end"
    <3>1. d = Closed(Flush(c))
      BY <1>4, <2>2 DEF Event, TextEvent, Text
    <3>2. DOMAIN Flush(c) = DOMAIN c /\ Kin(c, Flush(c))
      BY KinLine
    <3> QED BY <1>2, <3>1, <3>2
  <2>3. CASE type \notin {"trigger", "end"}
    <3>1. d = c
      BY <1>4, <2>3 DEF Event, TextEvent, Text
    <3> QED BY <1>1, <3>1
  <2> QED BY <2>1, <2>2, <2>3
<1>5. CASE c.format = "vcd"
  <2> DEFINE e == [kind |-> "dumpoff"]
  <2>1. d = c \/ d = Closed(Emit(c, <<e>>))
    BY <1>5 DEF Event, VcdEvent, Text
  <2>2. e.kind # "value"
    OBVIOUS
  <2> HIDE DEF e
  <2>3. DOMAIN Emit(c, <<e>>) = DOMAIN c /\ Kin(c, Emit(c, <<e>>))
    BY <1>3, <2>2
  <2> QED BY <1>1, <1>2, <2>1, <2>3
<1>6. CASE c.format \in {"csv", "gnuplot", "ols"}
  <2>1. d = c \/ d = Closed(c)
    BY <1>6 DEF Event, CsvEvent, GnuplotEvent, OlsEvent, Text
  <2> QED BY <1>1, <1>2, <2>1
<1>7. CASE c.format = "chronovu-la8"
  <2>1. d = c \/ d = Closed(Emit(c, ByteItems(La8Trail)))
    BY <1>7 DEF Event, La8Event, La8Trail, Text
  <2>2. IsSeq(La8Trail)
    BY TrailType, AnySeq
  <2>3. LET b == Emit(c, ByteItems(La8Trail)) IN DOMAIN b = DOMAIN c /\ Kin(c, b)
    BY <2>2, KinBytes
  <2> QED BY <1>1, <1>2, <2>1, <2>3
<1>8. CASE c.format = "float"
  <2> DEFINE e == [kind |-> type]
  <2>1. d = c \/ d = Closed(c) \/ d = Emit(c, <<e>>)
    BY <1>8 DEF Event, FloatEvent, Text
  <2>2. e.kind # "value"
    OBVIOUS
  <2> HIDE DEF e
  <2>3. Kin(c, Emit(c, <<e>>))
    BY <1>3, <2>2
  <2> QED BY <1>1, <1>2, <2>1, <2>3
<1>9. CASE c.format = "binary"
  <2>1. d = c
    BY <1>9 DEF Event, Text
  <2> QED BY <1>1, <2>1
<1> QED BY <1>4, <1>5, <1>6, <1>7, <1>8, <1>9 DEF Formats, Text, Raw, Unguarded

-----------------------------------------------------------------------------
(* The names of the probes, and the values of an oscilloscope *)

\* There is a name for each probe that is enabled.
LEMMA NamesAre ==
    ASSUME NEW probes, ProbesOf(probes)
    PROVE  LET names == Names(probes)
           IN  /\ IsSeq(names)
               /\ Len(names) = Len(PlacesOf(Len(probes), Chosen(probes)))
               /\ Chosen(probes) # {} => names # <<>>
<1> DEFINE S == {probes[i] : i \in DOMAIN probes}
           P == Chosen(probes)
           e == EnabledOf(probes)
           l == PlacesOf(Len(probes), P)
           names == Names(probes)
           N == {e[i].name : i \in DOMAIN e}
<1>1. probes \in Seq(S) /\ Len(probes) \in Nat /\ DOMAIN probes = 1 .. Len(probes)
  BY DEF ProbesOf
<1>2. e = Kept(probes, P)
  BY DEF EnabledOf, Chosen
<1> HIDE DEF S, e, P
<1>3. e \in Seq(S) /\ Len(e) = Len(l)
  BY <1>1, <1>2, KeptAt
<1>4. l \in Seq(1 .. Len(probes)) /\ Listed(l, P, Len(probes))
  BY <1>1, PlacesAre
<1>5. Len(e) \in Nat /\ DOMAIN e = 1 .. Len(e)
  BY <1>3
<1>6. names \in [1 .. Len(e) -> N]
  BY <1>5 DEF Names, e
<1> HIDE DEF N, l, names
<1>7. names \in Seq(N) /\ Len(names) = Len(e)
  BY <1>5, <1>6, AsSeq
<1>8. P # {} => names # <<>>
  <2>1. SUFFICES ASSUME NEW i \in P PROVE Len(names) # 0
    BY <1>7
  <2>2. i \in 1 .. Len(probes)
    BY <1>1 DEF P, Chosen
  <2>3. PICK b \in 1 .. Len(l) : l[b] = i
    BY <1>4, <2>2 DEF Listed
  <2>4. Len(l) \in Nat
    BY <1>4
  <2> QED BY <1>3, <1>7, <2>3, <2>4
<1>9. IsSeq(names)
  BY <1>7, AnySeq
<1> QED BY <1>3, <1>7, <1>8, <1>9 DEF names, l, P

\* What an oscilloscope sends of m samples, after n of them.
SentOf(names, n, m) ==
    [i \in 1 .. m * Len(names) |->
        [name |-> names[((i - 1) % Len(names)) + 1], n |-> n + (i - 1) \div Len(names)]]

\* The values are shown with the names of their channels, and with one channel
\* all of them.
LEMMA FloatShows ==
    ASSUME NEW c, Shape(c), NEW n \in Nat, NEW m \in Nat \ {0}, Labelled(c),
           Len(c.names) = 1 => Len(Of(c.out, "value")) = n
    PROVE  LET d == FloatData(c, SentOf(c.names, n, m), m)
           IN  /\ Shape(d) /\ d.format = c.format /\ d.names = c.names /\ Labelled(d)
               /\ Len(c.names) = 1 => Len(Of(d.out, "value")) = n + m
<1> DEFINE names == c.names
           k1 == Len(names)
           values == SentOf(names, n, m)
           q == (m + k1 - 1) \div k1
           shown == k1 * q
           item(i) == [kind |-> "value", name |-> names[((i - 1) % k1) + 1],
                       value |-> values[i]]
           items == [i \in 1 .. shown |-> item(i)]
           d == FloatData(c, values, m)
           S == {item(i) : i \in 1 .. shown}
           was == Of(c.out, "value")
<1>1. k1 \in Nat \ {0}
  BY SeqIs DEF Shape, IsSeq
<1>2. q \in Nat /\ q <= m /\ (k1 = 1 => q = m)
  <2> DEFINE t == q * k1
  <2>1. m \in Nat /\ m + k1 - 1 = m + k1 - 1 /\ q \in Nat /\ m <= t /\ t < m + k1 /\ t \in Nat
    <3> HIDE DEF k1
    <3> QED BY <1>1, DivUp
  <2>2. m + 1 <= q => (m + 1) * k1 <= q * k1
    <3> HIDE DEF k1, q
    <3> QED BY <1>1, <2>1, Multiples
  <2>3. (m + 1) * k1 = m * k1 + k1 /\ m * k1 \in Int /\ m * 1 <= m * k1
    <3>1. 1 * m <= k1 * m
      <4> HIDE DEF k1
      <4> QED BY <1>1, Multiples
    <3>2. 1 * m = m * 1 /\ k1 * m = m * k1
      <4> HIDE DEF k1
      <4> QED BY <1>1
    <3> HIDE DEF k1
    <3> QED BY <1>1, <3>1, <3>2, Multiples
  <2>4. m * 1 = m
    OBVIOUS
  <2> DEFINE r == m * k1
             w == (m + 1) * k1
  <2>5. q <= m
    <3>1. /\ m + 1 <= q => w <= t
          /\ w = r + k1 /\ r \in Int /\ m <= r
      BY <2>2, <2>3, <2>4
    <3> HIDE DEF k1, q, t, r, w
    <3> QED BY <1>1, <2>1, <3>1
  <2>6. k1 = 1 => q = m
    <3>1. k1 = 1 => t = q
      <4> HIDE DEF q
      <4> QED BY <2>1
    <3> HIDE DEF k1, q, t
    <3> QED BY <2>1, <2>5, <3>1
  <2> QED BY <2>1, <2>5, <2>6
<1> HIDE DEF q
<1>3. shown \in Nat /\ shown <= m * k1 /\ (k1 = 1 => shown = m)
  <2>1. q * k1 <= m * k1 /\ q * k1 \in Nat /\ m * k1 \in Int
    <3> HIDE DEF k1
    <3> QED BY <1>1, <1>2, Multiples
  <2>2. k1 * q = q * k1
    <3> HIDE DEF k1
    <3> QED BY <1>1, <1>2
  <2>3. k1 = 1 => k1 * q = m
    <3> HIDE DEF k1
    <3> QED BY <1>1, <1>2
  <2> QED BY <2>1, <2>2, <2>3
<1> HIDE DEF shown
<1>4. ASSUME NEW i \in 1 .. shown
      PROVE  /\ item(i).kind = "value" /\ item(i).name = item(i).value.name
             /\ k1 = 1 => item(i).value.n = n + (i - 1)
  <2>1. i \in 1 .. m * k1
    <3> DEFINE z == m * k1
    <3>1. z \in Int
      <4> HIDE DEF k1
      <4> QED BY <1>1
    <3> HIDE DEF z
    <3> QED BY <1>3, <3>1 DEF z
  <2>2. values[i] = [name |-> names[((i - 1) % k1) + 1], n |-> n + (i - 1) \div k1]
    BY <2>1 DEF SentOf
  <2> HIDE DEF values
  <2>3. k1 = 1 => (i - 1) \div k1 = i - 1
    <3>1. i - 1 \in Nat
      BY <1>3
    <3> DEFINE x == i - 1
    <3> HIDE DEF x
    <3>2. x \div 1 = x
      BY <3>1 DEF x
    <3> QED BY <3>2 DEF x
  <2> HIDE DEF k1
  <2> QED BY <2>2, <2>3
<1>5. items \in [1 .. shown -> S] /\ \A i \in 1 .. shown : items[i] = item(i)
  OBVIOUS
<1>6. d = Emit(c, items)
  BY DEF FloatData, shown, q
<1> HIDE DEF items, S, item, d
<1>7. items \in Seq(S) /\ Len(items) = shown
  BY <1>3, <1>5, AsSeq
<1>8. IsSeq(items)
  BY <1>7, AnySeq
<1>9. Of(items, "value") = items
  BY <1>4, <1>5, <1>7, <1>8, OfOne
<1>10. d.out = c.out \o items /\ GoesOn(c, d) /\ IsSeq(c.out)
  BY <1>6, <1>8, EmitIs DEF Shape
<1>11. Of(d.out, "value") = was \o items
  <2>1. Of(c.out \o items, "value") = was \o Of(items, "value")
    BY <1>8, <1>10, OfConcat
  <2> QED BY <1>9, <1>10, <2>1
<1>12. IsSeq(was) /\ Len(was) \in Nat /\ DOMAIN was = 1 .. Len(was)
  BY <1>10, OfOne, SeqIs
<1>13. \A i \in 1 .. Len(was) : /\ was[i].name = was[i].value.name
                                /\ k1 = 1 => was[i].value.n = i - 1
  BY <1>12 DEF Labelled
<1>14. k1 = 1 => Len(was) = n
  OBVIOUS
<1> HIDE DEF was, k1, names
<1> DEFINE now == was \o items
<1>15. /\ IsSeq(now) /\ Len(now) = Len(was) + shown
       /\ \A i \in 1 .. Len(was) : now[i] = was[i]
       /\ \A i \in 1 .. shown : now[Len(was) + i] = items[i]
  BY <1>7, <1>8, <1>12, SeqConcat
<1>16. DOMAIN now = 1 .. Len(was) + shown
  BY <1>15, SeqIs
<1> HIDE DEF now
<1>17. ASSUME NEW i \in DOMAIN now
       PROVE  now[i].name = now[i].value.name /\ (k1 = 1 => now[i].value.n = i - 1)
  <2>1. i \in 1 .. Len(was) + shown
    BY <1>16
  <2>2. CASE i <= Len(was)
    <3>1. i \in 1 .. Len(was)
      BY <1>3, <1>12, <2>1, <2>2
    <3> QED BY <1>13, <1>15, <3>1
  <2>3. CASE ~(i <= Len(was))
    <3> DEFINE j == i - Len(was)
    <3>1. j \in 1 .. shown /\ Len(was) + j = i
      BY <1>3, <1>12, <2>1, <2>3
    <3>2. k1 = 1 => n + (j - 1) = i - 1
      BY <1>12, <1>14, <2>1
    <3> HIDE DEF j
    <3>3. now[i] = item(j)
      BY <1>5, <1>15, <3>1
    <3> QED BY <1>4, <3>1, <3>2, <3>3
  <2> QED BY <2>2, <2>3
<1>18. Labelled(d)
  <2>1. Of(d.out, "value") = now /\ d.names = names
    BY <1>10, <1>11 DEF now, GoesOn, names
  <2> QED BY <1>17, <2>1 DEF Labelled, k1
<1>19. k1 = 1 => Len(Of(d.out, "value")) = n + m
  BY <1>3, <1>11, <1>12, <1>14, <1>15 DEF now
<1> QED BY <1>10, <1>18, <1>19 DEF GoesOn, d, values, k1, names

-----------------------------------------------------------------------------
(* Every step keeps the output: what a device or a file sends *)

\* What is not of the samples stays from step to step.
LEMMA OutputGoesOn ==
    ASSUME ContextInv, ValuesInv, Opened, Kin(o, o'), pc' \notin {"start", "ready"},
           UNCHANGED <<plan, k, source, dev>>, torn' => torn \/ Format = "hex",
           ~triggered' => ~triggered /\ marked' = marked,
           source # "scope" \/ UNCHANGED <<fed, received_samples>>,
           Format = "bits" /\ source = "scope" => o'.line = <<>> /\ Of(o'.out, "line") = <<>>
    PROVE  ContextInv' /\ ValuesInv'
<1>1. cmd' = cmd /\ Format' = Format
  BY SameCmd
<1>2. Running
  BY DEF Opened, Fed, Running
<1>3. Shape(o') /\ o'.format = Format /\ o'.names = Names(dev.probes)
      /\ Of(o'.out, "value") = Of(o.out, "value") /\ o'.names = o.names
  BY DEF Kin, ContextInv
<1>4. ContextInv'
  BY <1>1, <1>2, <1>3 DEF ContextInv
<1>5. Labelled(o')
  BY <1>3 DEF ValuesInv, Labelled
<1>6. source = "scope" => LimitReached' = LimitReached /\ fed' = fed
  BY <1>1 DEF LimitReached
<1>7. ValuesInv'
  BY <1>1, <1>3, <1>5, <1>6 DEF ValuesInv
<1> QED BY <1>4, <1>7

\* A context is one of its own.
LEMMA KinSame ==
    ASSUME ContextInv, Opened
    PROVE  Kin(o, o) /\ Shape(o) /\ o.format = Format
BY DEF Kin, ContextInv

\* A sample of the names is one of the list.
LEMMA ListedNames ==
    ASSUME Inv, ContextInv, Fed, source # "scope"
    PROVE  Probes0(o) = 0 .. Len(logic_probelist) - 1
<1>1. o.names = Names(dev.probes) /\ ProbesOf(dev.probes)
  BY DEF ContextInv, Opened, Running, Fed
<1>2. Len(Names(dev.probes)) = Len(PlacesOf(Len(dev.probes), Chosen(dev.probes)))
  BY <1>1, NamesAre
<1>3. logic_probelist = PlacesOf(Len(dev.probes), Chosen(dev.probes))
  BY DEF Inv, ListInv
<1> QED BY <1>1, <1>2, <1>3 DEF Probes0

\* The samples passed on are words of the input's size.
LEMMA PassedAre ==
    ASSUME Inv, Fed, source # "scope"
    PROVE  /\ in_unitsize \in Nat \ {0} /\ unitsize \in Nat \ {0}
           /\ given[k] \in Seq(Byte) /\ Len(given[k]) \in Nat
           /\ Passed \in Seq(WordOf(in_unitsize)) /\ IsSeq(Passed)
           /\ Len(Passed) = Len(given[k]) \div unitsize /\ Len(Passed) \in Nat
           /\ \A bytes \in Seq(Byte) : Words(bytes, unitsize) \in Seq(WordOf(in_unitsize))
<1>1. /\ in_unitsize \in Nat \ {0} /\ unitsize \in Nat \ {0} /\ unitsize <= in_unitsize
      /\ given[k] \in Seq(Byte)
  BY ListNow, CmdIs DEF Inv
<1>2. WordOf(unitsize) \subseteq WordOf(in_unitsize)
  <2>1. unitsize * ByteBits <= in_unitsize * ByteBits
        /\ unitsize * ByteBits \in Int /\ in_unitsize * ByteBits \in Int
    <3>1. ByteBits \in Nat /\ unitsize \in Int /\ in_unitsize \in Int
      BY <1>1, Widths
    <3> QED BY <1>1, <3>1, Multiples
  <2> DEFINE x == unitsize * ByteBits
             y == in_unitsize * ByteBits
  <2> HIDE DEF x, y
  <2>2. 0 .. x - 1 \subseteq 0 .. y - 1
    BY <2>1 DEF x, y
  <2> QED BY <2>2 DEF WordOf, x, y
<1>3. ASSUME NEW bytes \in Seq(Byte)
      PROVE  Words(bytes, unitsize) \in Seq(WordOf(in_unitsize))
  <2> DEFINE w == Words(bytes, unitsize)
  <2>1. w \in Seq(WordOf(unitsize))
    BY <1>1, WordsType
  <2> HIDE DEF w
  <2>2. \A i \in 1 .. Len(w) : w[i] \in WordOf(in_unitsize)
    BY <1>2, <2>1
  <2>3. w \in Seq(WordOf(in_unitsize))
    BY ONLY <2>1, <2>2, OtherRange
  <2> QED BY <2>3 DEF w
<1>4. Passed \in Seq(WordOf(in_unitsize))
  BY <1>1, <1>3 DEF Passed
<1>5. Len(Passed) = Len(given[k]) \div unitsize /\ Len(given[k]) \div unitsize \in Nat
  BY <1>1, WordsType DEF Passed
<1>6. IsSeq(Passed)
  BY <1>4, AnySeq
<1>7. Len(given[k]) \in Nat
  BY <1>1
<1> QED BY <1>1, <1>3, <1>4, <1>5, <1>6, <1>7

\* The output goes on with the samples of a packet.
LEMMA LogicOutputs ==
    ASSUME Inv, OutInv, FewProbes, pc = "feed", source # "scope",
           NEW bytes \in Seq(Byte), NEW garbage \in Garbage(in_unitsize),
           Logic(bytes, garbage),
           UNCHANGED <<plan, k, file, origin, inputVars, logic_probelist, unitsize,
                       triggered, marked, labels>>
    PROVE  OutInv'
<1> USE DEF inputVars
<1> DEFINE a == in_unitsize
           u == unitsize
           g == given[k]
           p == Passed
<1>1. /\ cmd' = cmd /\ Format' = Format /\ Saving' = Saving
      /\ source' = source /\ dev' = dev /\ k' = k /\ plan' = plan
      /\ in_unitsize' = a /\ unitsize' = u /\ marked' = marked /\ triggered' = triggered
  BY SameCmd
<1>2. Fed /\ Opened
  BY DEF Fed, Opened
<1>3. /\ ContextInv /\ ValuesInv /\ TrackInv /\ Shape(o) /\ Kin(o, o) /\ o.format = Format
  BY <1>2, KinSame DEF OutInv
<1>4. /\ a \in Nat \ {0} /\ u \in Nat \ {0} /\ g \in Seq(Byte) /\ Len(g) \in Nat
      /\ p \in Seq(WordOf(a)) /\ IsSeq(p) /\ Len(p) \in Nat
      /\ \A out \in Seq(Byte) : Words(out, u) \in Seq(WordOf(a))
  BY <1>2, PassedAre
<1>5. /\ ragged' = (ragged \/ (fed % a) # 0)
      /\ Leaves(bytes) \/ \E out \in Seq(Byte) : Passes(bytes, out, garbage)
  <2> HIDE DEF a
  <2> QED BY LogicIs DEF a
<1>6. k \in DOMAIN given
  <2>1. k \in DOMAIN plan /\ given \in [DOMAIN plan -> Seq(Byte)]
    BY DEF Inv, TypeInv
  <2> QED BY ONLY <2>1
<1>7. CASE Leaves(bytes)
  <2>1. o' = o /\ given' = given /\ torn' = torn /\ pc' \in {"feed", "crashed"}
    BY <1>7 DEF Leaves
  <2>2. ContextInv' /\ ValuesInv'
    <3> HIDE DEF a, u, g, p
    <3>1. Kin(o, o')
      BY <1>3, <2>1
    <3>2. pc' \notin {"start", "ready"}
      BY <2>1
    <3> QED BY <1>1, <1>2, <1>3, <2>1, <3>1, <3>2, OutputGoesOn
  <2>3. Passed' = Passed
    BY <1>1, <2>1 DEF Passed
  <2>4. Tracked' => Tracked
    BY <1>1, <1>5, <2>1 DEF Tracked
  <2>5. TrackInv'
    BY <1>1, <1>2, <1>3, <2>1, <2>3, <2>4 DEF TrackInv, Fed, Holding
  <2> QED BY <2>2, <2>5 DEF OutInv
<1>8. ASSUME NEW out \in Seq(Byte), Passes(bytes, out, garbage)
      PROVE  OutInv'
  <2> DEFINE w == Words(out, u)
             q == p \o w
  <2>1. /\ pc' = "feed" /\ ~LimitReached /\ PassOn(out, garbage)
        /\ ~Overruns(bytes, out) /\ OfProbes(w)
    BY <1>8 DEF Passes, Ignored
  <2>2. (given[k])' = g \o out
    BY <1>1, <1>6, <2>1 DEF PassOn
  <2>3. o' = IF Saving \/ Format = "float" THEN o ELSE Data(o, out, u, garbage)
    BY <2>1 DEF PassOn
  <2>4. torn' = (torn \/ (Format = "hex" /\ o.off # 0))
    BY <2>1 DEF PassOn
  <2>5. Kin(o, o')
    <3>1. CASE Saving \/ Format = "float"
      BY <1>3, <2>3, <3>1
    <3>2. CASE ~(Saving \/ Format = "float")
      <4>1. o.format \in Formats \ {"float"}
        BY <1>3, <3>2, CmdIs DEF Inv
      <4>2. Kin(o, Data(o, out, u, garbage))
        <5> HIDE DEF u
        <5> QED BY <1>3, <1>4, <4>1, KinData
      <4> QED BY <2>3, <3>2, <4>2
    <3> QED BY <3>1, <3>2
  <2>6. ContextInv' /\ ValuesInv'
    <3> HIDE DEF a, u, g, p
    <3>1. pc' \notin {"start", "ready"} /\ (torn' => torn \/ Format = "hex")
      BY <2>1, <2>4
    <3> QED BY <1>1, <1>2, <1>3, <2>5, <3>1, OutputGoesOn
  <2>7. ASSUME Tracked' PROVE TrackInv'
    <3>1. /\ ~Saving /\ Format \in Text \cup Unguarded /\ Format # "float" /\ ~ragged'
          /\ ~torn'
      BY <1>1, <2>7 DEF Tracked, Text, Unguarded
    <3>2. ~ragged /\ fed % a = 0 /\ ~torn /\ (Format = "hex" => o.off = 0)
      BY <1>5, <2>4, <3>1
    <3>3. Tracked
      BY <3>1, <3>2 DEF Tracked
    <3>4. Holding(o, p) /\ \A i \in DOMAIN p : p[i] \subseteq Probes0(o)
      BY <1>2, <1>3, <3>3 DEF TrackInv
    <3>5. Len(g) % u = 0
      BY <1>2, <2>1, <3>2 DEF Inv, WholeInv, Whole
    <3>6. Passed' = q
      <4>1. Passed' = Words(g \o out, u)
        BY <1>1, <2>2 DEF Passed
      <4>2. Words(g \o out, u) = Words(g, u) \o Words(out, u)
        <5> HIDE DEF g, u
        <5> QED BY <1>4, <3>5, WordsConcat
      <4> QED BY <4>1, <4>2 DEF Passed
    <3>7. w \in Seq(WordOf(a)) /\ IsSeq(w) /\ Len(w) \in Nat /\ DOMAIN w = 1 .. Len(w)
      <4>1. w \in Seq(WordOf(a))
        BY <1>4
      <4> HIDE DEF w, a
      <4> QED BY <4>1, AnySeq
    <3>8. \A i \in DOMAIN w : w[i] \subseteq Probes0(o)
      <4>1. Probes0(o) = 0 .. Len(logic_probelist) - 1
        BY <1>2, <1>3, ListedNames
      <4> HIDE DEF w
      <4> QED BY <2>1, <3>7, <4>1 DEF OfProbes
    <3>9. Rep(o, p, a) /\ o.header \in BOOLEAN
          /\ (o.format = "vcd" => (o.header <=> p = <<>>))
          /\ (o.format = "bits" => Marks(o, p, marked))
      BY <3>4 DEF Holding
    <3>10. o' = Data(o, out, u, garbage)
      BY <2>3, <3>1
    <3>11. /\ Same(o, o') /\ o'.header = FALSE /\ Rep(o', q, a)
           /\ o.format = "bits" => \A m : Marks(o, p, m) => Marks(o', q, m)
      <4> DEFINE d == Data(o, out, u, garbage)
      <4>1. /\ Same(o, d) /\ d.header = FALSE /\ Rep(d, q, a)
            /\ o.format = "bits" => \A m : Marks(o, p, m) => Marks(d, q, m)
        <5>1. /\ Shape(o) /\ o.format \in Text \cup Unguarded /\ o.header \in BOOLEAN
              /\ a \in Nat /\ p \in Seq(WordOf(a)) /\ Rep(o, p, a)
              /\ (\A i \in DOMAIN p : p[i] \subseteq Probes0(o))
              /\ Words(out, u) \in Seq(WordOf(a)) /\ garbage \in Garbage(a)
              /\ (\A i \in DOMAIN Words(out, u) : Words(out, u)[i] \subseteq Probes0(o))
              /\ (o.format = "vcd" => (o.header <=> p = <<>>))
              /\ (o.format = "hex" => o.off = 0)
          BY <1>3, <1>4, <3>1, <3>2, <3>4, <3>7, <3>8, <3>9
        <5> HIDE DEF p, u, a
        <5> QED BY ONLY <5>1, PacketKeeps
      <4> QED BY <3>10, <4>1
    <3>12. o'.format = "vcd" => q # <<>>
      <4>1. SUFFICES ASSUME Format = "vcd" PROVE q # <<>>
        BY <1>3, <3>11 DEF Same
      <4>2. ~(Len(out) < u)
        BY <2>1, <3>1, <4>1 DEF Overruns, Unguarded
      <4>3. Len(w) = Len(out) \div u /\ Len(out) \in Nat
        <5> HIDE DEF u
        <5> QED BY <1>4, WordsType
      <4>4. Len(w) # 0
        <5> DEFINE n == Len(out) \div u
                   r == Len(out) % u
        <5>1. n \in Nat /\ Len(out) = n * u + r /\ r \in 0 .. u - 1
          BY <1>4, <4>3, Division
        <5>2. n = 0 => n * u = 0
          <6> HIDE DEF n, u
          <6> QED BY <1>4
        <5> HIDE DEF n, r, u
        <5> QED BY <1>4, <4>2, <4>3, <5>1, <5>2 DEF n
      <4> HIDE DEF p, w
      <4>5. Len(q) = Len(p) + Len(w)
        BY <1>4, <3>7, SeqConcat
      <4> HIDE DEF q
      <4>6. q = <<>> => Len(q) = 0
        OBVIOUS
      <4> QED BY <1>4, <3>7, <4>4, <4>5, <4>6
    <3>13. Holding(o, Passed)'
      <4>1. o'.format = o.format
        BY <3>11 DEF Same
      <4>2. Rep(o', Passed', in_unitsize')
        BY <1>1, <3>6, <3>11
      <4>3. o'.header \in BOOLEAN /\ (o'.format = "vcd" => (o'.header <=> Passed' = <<>>))
        BY <3>6, <3>11, <3>12
      <4>4. o'.format = "bits" => Marks(o', Passed', marked')
        BY <1>1, <3>6, <3>9, <3>11, <4>1
      <4> QED BY <4>2, <4>3, <4>4 DEF Holding
    <3>14. (\A i \in DOMAIN Passed : Passed[i] \subseteq Probes0(o))'
      <4>1. Probes0(o') = Probes0(o)
        BY <3>11 DEF Same, Probes0
      <4>2. ASSUME NEW i \in DOMAIN q PROVE q[i] \subseteq Probes0(o)
        <5> HIDE DEF p, w
        <5>1. /\ IsSeq(q) /\ Len(q) = Len(p) + Len(w)
              /\ (\A j \in 1 .. Len(p) : q[j] = p[j])
              /\ (\A j \in 1 .. Len(w) : q[Len(p) + j] = w[j])
          BY <1>4, <3>7, SeqConcat
        <5>2. DOMAIN q = 1 .. Len(p) + Len(w) /\ DOMAIN p = 1 .. Len(p)
          BY <1>4, <5>1, SeqIs
        <5> HIDE DEF q
        <5>3. CASE i <= Len(p)
          <6>1. i \in 1 .. Len(p)
            BY <1>4, <3>7, <5>2, <5>3
          <6> QED BY <3>4, <5>1, <5>2, <6>1
        <5>4. CASE ~(i <= Len(p))
          <6> DEFINE j == i - Len(p)
          <6>1. j \in 1 .. Len(w) /\ Len(p) + j = i
            BY <1>4, <3>7, <5>2, <5>4
          <6> HIDE DEF j
          <6> QED BY <3>7, <3>8, <5>1, <6>1
        <5> QED BY <5>3, <5>4
      <4> HIDE DEF q
      <4> QED BY <3>6, <4>1, <4>2
    <3> QED BY <2>1, <3>13, <3>14 DEF TrackInv, Fed
  <2>8. TrackInv'
    <3>1. ~Tracked' => TrackInv'
      BY DEF TrackInv
    <3> QED BY <2>7, <3>1
  <2> QED BY <2>6, <2>8 DEF OutInv
<1> QED BY <1>5, <1>7, <1>8

\* So the output goes on with what is read and what a device sends,
LEMMA ReadOutputs ==
    ASSUME Inv, OutInv, FewProbes, ReadChunk \/ ReadLa8 \/ DeviceSends
    PROVE  OutInv'
<1>1. /\ pc = "feed" /\ source # "scope"
      /\ UNCHANGED <<plan, k, file, origin, inputVars, logic_probelist, unitsize,
                     triggered, marked, labels>>
  BY DEF ReadChunk, ReadLa8, DeviceSends
<1>2. \E bytes \in Seq(Byte), garbage \in Garbage(in_unitsize) : Logic(bytes, garbage)
  <2>1. CASE ReadChunk \/ ReadLa8
    <3>1. \E size \in {ChunkSize, La8PacketSize}, garbage \in Garbage(in_unitsize) :
             Logic(Chunk(size), garbage)
      BY <2>1 DEF ReadChunk, ReadLa8
    <3>2. ASSUME NEW size \in {ChunkSize, La8PacketSize} PROVE Chunk(size) \in Seq(Byte)
      <4>1. size \in Nat
        BY Sizes, Widths
      <4> QED BY <4>1, ChunkIs DEF Inv
    <3> QED BY <3>1, <3>2
  <2>2. CASE DeviceSends
    <3>1. PICK n \in 1 .. MaxPacket, garbage \in Garbage(in_unitsize) :
             /\ pos + n <= Len(Signal)
             /\ Logic(ToBytes(SubSeq(Signal, pos + 1, pos + n), DevUnitsize), garbage)
      BY <2>2 DEF DeviceSends
    <3> DEFINE bytes == ToBytes(SubSeq(Signal, pos + 1, pos + n), DevUnitsize)
    <3>2. bytes \in Seq(Byte)
      BY <3>1, SentIs
    <3>3. Logic(bytes, garbage)
      BY <3>1
    <3> HIDE DEF bytes
    <3> QED BY <3>2, <3>3
  <2> QED BY <2>1, <2>2
<1>3. PICK bytes \in Seq(Byte), garbage \in Garbage(in_unitsize) : Logic(bytes, garbage)
  BY <1>2
<1> QED BY <1>1, <1>3, LogicOutputs

\* with a trigger, which sets the mark at the samples passed on so far,
LEMMA TriggerOutputs ==
    ASSUME Inv, OutInv, DeviceTriggers
    PROVE  OutInv'
<1>1. /\ pc = "feed" /\ pc' = "feed" /\ source = "device" /\ ~triggered /\ triggered' = TRUE
      /\ o' = Event(o, "trigger") /\ marked' = Len(given[k]) \div unitsize
      /\ plan' = plan /\ k' = k /\ source' = source /\ dev' = dev
      /\ in_unitsize' = in_unitsize /\ unitsize' = unitsize /\ given' = given
      /\ ragged' = ragged /\ torn' = torn
  BY DEF DeviceTriggers, inputVars
<1>2. cmd' = cmd /\ Format' = Format /\ Saving' = Saving /\ Format \in Formats
  BY <1>1, SameCmd, CmdIs DEF Inv
<1>3. Fed /\ Opened /\ Fed'
  BY <1>1 DEF Fed, Opened
<1>4. ContextInv /\ ValuesInv /\ TrackInv /\ Shape(o) /\ o.format = Format
  BY <1>3, KinSame DEF OutInv
<1>5. Kin(o, o')
  BY <1>1, <1>2, <1>4, KinEvent
<1>6. ContextInv' /\ ValuesInv'
  BY <1>1, <1>3, <1>4, <1>5, OutputGoesOn
<1>7. ASSUME Tracked PROVE Holding(o, Passed)'
  <2> DEFINE p == Passed
  <2>1. /\ Holding(o, p) /\ marked = -1
    BY <1>1, <1>4, <1>7 DEF TrackInv, ContextInv
  <2>2. IsSeq(p) /\ Len(p) = marked'
    BY <1>1, <1>3, PassedAre
  <2>3. p' = p
    BY <1>1 DEF Passed
  <2>4. Rep(o, p, in_unitsize) /\ o.header \in BOOLEAN
        /\ (o.format = "vcd" => (o.header <=> p = <<>>))
        /\ (o.format = "bits" => Marks(o, p, -1))
    BY <2>1 DEF Holding
  <2> HIDE DEF p
  <2>5. /\ Same(o, o') /\ o'.header = o.header
        /\ \A a : Rep(o, p, a) => Rep(o', p, a)
        /\ o.format = "bits" /\ TextRep(o, p) /\ Marks(o, p, -1) => Marks(o', p, Len(p))
    BY <1>1, <1>4, <2>2, TriggerMarks
  <2>6. o.format = "bits" => TextRep(o, p)
    BY <2>4 DEF Rep, Text
  <2>7. o'.format = o.format
    BY <2>5 DEF Same
  <2>8. /\ Rep(o', p', in_unitsize') /\ o'.header \in BOOLEAN
        /\ (o'.format = "vcd" => (o'.header <=> p' = <<>>))
        /\ (o'.format = "bits" => Marks(o', p', marked'))
    BY <1>1, <2>2, <2>3, <2>4, <2>5, <2>6, <2>7
  <2> QED BY <2>8 DEF Holding, p
<1>8. (\A i \in DOMAIN Passed : Passed[i] \subseteq Probes0(o))'
      \/ ~(\A i \in DOMAIN Passed : Passed[i] \subseteq Probes0(o))
  <2>1. Passed' = Passed /\ Probes0(o') = Probes0(o)
    BY <1>1, <1>5 DEF Passed, Kin, Probes0
  <2> QED BY <2>1
<1>9. Tracked' => Tracked
  BY <1>1, <1>2 DEF Tracked
<1>10. TrackInv'
  BY <1>1, <1>3, <1>4, <1>7, <1>8, <1>9 DEF TrackInv
<1> QED BY <1>6, <1>10 DEF OutInv

\* and to its end, where what is left of a line is written.
LEMMA EndOutputs ==
    ASSUME Inv, OutInv, EndOfFeed
    PROVE  OutInv'
<1>1. /\ pc = "feed" /\ pc' = "ended" /\ o' = Event(o, "end")
      /\ plan' = plan /\ k' = k /\ source' = source /\ dev' = dev
      /\ in_unitsize' = in_unitsize /\ unitsize' = unitsize /\ given' = given
      /\ ragged' = ragged /\ torn' = torn /\ marked' = marked /\ triggered' = triggered
      /\ fed' = fed /\ received_samples' = received_samples
  BY DEF EndOfFeed, inputVars, feedVars, history
<1>2. cmd' = cmd /\ Format' = Format /\ Saving' = Saving /\ Format \in Formats
  BY <1>1, SameCmd, CmdIs DEF Inv
<1>3. Fed /\ Opened /\ Fed'
  BY <1>1 DEF Fed, Opened
<1>4. ContextInv /\ ValuesInv /\ TrackInv /\ Shape(o) /\ o.format = Format
  BY <1>3, KinSame DEF OutInv
<1>5. Kin(o, o')
  BY <1>1, <1>2, <1>4, KinEvent
<1>6. Format = "bits" /\ source = "scope" => o'.line = <<>> /\ Of(o'.out, "line") = <<>>
  <2>1. SUFFICES ASSUME Format = "bits", source = "scope"
                 PROVE  o'.line = <<>> /\ Of(o'.out, "line") = <<>>
    OBVIOUS
  <2>2. o.line = <<>> /\ Of(o.out, "line") = <<>>
    BY <1>3, <1>4, <2>1 DEF ValuesInv
  <2>3. o' = Closed(o)
    BY <1>1, <1>4, <2>1, <2>2 DEF Event, Text, TextEvent, Flush
  <2>4. Alike(o, o')
    BY <1>4, <2>3, ClosedIs
  <2> QED BY <2>2, <2>4 DEF Alike, Told
<1>7. ContextInv' /\ ValuesInv'
  BY <1>1, <1>3, <1>4, <1>5, <1>6, OutputGoesOn
<1>8. ASSUME Tracked
      PROVE  /\ EndRep(o', Passed', in_unitsize')
             /\ o'.format = "bits" => MarkedLines(Of(o'.out, "line"), marked')
  <2> DEFINE p == Passed
  <2>1. Holding(o, p)
    BY <1>1, <1>4, <1>8 DEF TrackInv
  <2>2. IsSeq(p) /\ p' = p
    <3>1. source # "scope"
      BY <1>8 DEF Tracked
    <3>2. p' = p
      BY <1>1 DEF Passed
    <3> QED BY <1>3, <3>1, <3>2, PassedAre
  <2>3. Rep(o, p, in_unitsize) /\ (o.format = "bits" => Marks(o, p, marked))
    BY <2>1 DEF Holding
  <2>4. o.format \in Text \cup Unguarded
    BY <1>4, <1>8 DEF Tracked
  <2> HIDE DEF p
  <2>5. /\ o'.format = o.format /\ EndRep(o', p, in_unitsize)
        /\ o.format = "bits" =>
              \A m : Marks(o, p, m) => MarkedLines(Of(o'.out, "line"), m)
    BY <1>1, <1>4, <2>2, <2>3, <2>4, EndKeeps
  <2> QED BY <1>1, <2>2, <2>3, <2>5 DEF p
<1>9. (\A i \in DOMAIN Passed : Passed[i] \subseteq Probes0(o))'
      \/ ~(\A i \in DOMAIN Passed : Passed[i] \subseteq Probes0(o))
  <2>1. Passed' = Passed /\ Probes0(o') = Probes0(o)
    BY <1>1, <1>5 DEF Passed, Kin, Probes0
  <2> QED BY <2>1
<1>10. Tracked' => Tracked
  BY <1>1, <1>2 DEF Tracked
<1>11. TrackInv'
  BY <1>1, <1>3, <1>4, <1>8, <1>9, <1>10 DEF TrackInv
<1> QED BY <1>7, <1>11 DEF OutInv

\* The metadata are not of the output: no sample has been passed on.
LEMMA MetaOutputs ==
    ASSUME Inv, OutInv, Meta
    PROVE  OutInv'
<1>1. /\ pc = "header" /\ pc' \in {"feed", "failed"} /\ o' = o
      /\ plan' = plan /\ k' = k /\ source' = source /\ dev' = dev
      /\ in_unitsize' = in_unitsize /\ given' = given
      /\ ragged' = ragged /\ torn' = torn /\ marked' = marked /\ triggered' = triggered
      /\ fed' = fed /\ received_samples' = received_samples
  BY DEF Meta, inputVars, history
<1>2. cmd' = cmd /\ Format' = Format /\ Saving' = Saving
  BY <1>1, SameCmd
<1>3. Opened
  BY <1>1 DEF Opened
<1>4. ContextInv /\ ValuesInv /\ TrackInv /\ Kin(o, o)
  BY <1>3, KinSame DEF OutInv
<1>5. Format = "bits" /\ source = "scope" => o.line = <<>> /\ Of(o.out, "line") = <<>>
  BY <1>3, <1>4 DEF ValuesInv
<1>6. ContextInv' /\ ValuesInv'
  BY <1>1, <1>3, <1>4, <1>5, OutputGoesOn
<1>7. ASSUME Tracked', pc' = "feed" PROVE Passed' = <<>>
  <2>1. Inv' /\ source' # "scope" /\ Fed' /\ Running'
    BY <1>7, MetaKeeps DEF Tracked, Fed, Running
  <2>2. Roomy(dev.probes, in_unitsize)'
    BY <2>1 DEF Inv, DevInv
  <2>3. unitsize' = UnitsizeOf(Len(PlacesOf(Len(dev'.probes), Chosen(dev'.probes))))
    BY <2>1 DEF Inv, ListInv
  <2>4. unitsize' \in Nat \ {0}
    BY <2>2, <2>3, ListIs
  <2>5. (given[k])' = <<>>
    BY <1>1 DEF Inv, Fresh
  <2> QED BY <2>4, <2>5, Nothing DEF Passed
<1>8. Tracked' => Tracked
  BY <1>1, <1>2 DEF Tracked
<1>9. ASSUME Tracked', pc' = "feed"
      PROVE  Holding(o, Passed)' /\ \A i \in DOMAIN Passed' : Passed'[i] \subseteq Probes0(o')
  <2>1. Holding(o, <<>>) /\ Passed' = <<>>
    BY <1>1, <1>4, <1>7, <1>8, <1>9 DEF TrackInv
  <2> QED BY <1>1, <2>1 DEF Holding
<1>10. TrackInv'
  BY <1>1, <1>9 DEF TrackInv, Fed
<1> QED BY <1>6, <1>10 DEF OutInv

\* A process that has ended has its output in the file.
LEMMA ExitOutputs ==
    ASSUME Inv, OutInv, Exit
    PROVE  OutInv'
<1>1. /\ pc' = "left" /\ o' = o /\ plan' = plan /\ k' = k
      /\ torn' = torn /\ marked' = marked /\ triggered' = triggered
  BY DEF Exit, feedVars, history
<1>2. Format' = Format
  BY <1>1, SameCmd
<1>3. ContextInv /\ Labelled(o)
  BY DEF OutInv, ValuesInv
<1>4. ContextInv'
  BY <1>1, <1>2, <1>3 DEF ContextInv, Running, Opened, Fed
<1>5. TrackInv'
  BY <1>1 DEF TrackInv, Fed
<1>6. ValuesInv'
  BY <1>1, <1>3 DEF ValuesInv, Opened, Fed
<1> QED BY <1>4, <1>5, <1>6 DEF OutInv

\* Where nothing changes, nothing is written.
LEMMA StutterOutputs ==
    ASSUME OutInv, UNCHANGED vars
    PROVE  OutInv'
<1>1. /\ plan' = plan /\ k' = k /\ pc' = pc /\ source' = source /\ dev' = dev
      /\ in_unitsize' = in_unitsize /\ o' = o /\ unitsize' = unitsize
      /\ triggered' = triggered /\ received_samples' = received_samples /\ fed' = fed
      /\ given' = given /\ marked' = marked /\ ragged' = ragged /\ torn' = torn
  BY DEF vars, inputVars, feedVars, history
<1>2. cmd' = cmd /\ Format' = Format /\ Saving' = Saving /\ LimitReached' = LimitReached
  BY <1>1, SameCmd DEF LimitReached
<1>3. Passed' = Passed /\ Tracked' = Tracked
  BY <1>1, <1>2 DEF Passed, Tracked
<1>4. ContextInv'
  BY <1>1, <1>2 DEF OutInv, ContextInv, Running, Opened, Fed
<1>5. TrackInv'
  BY <1>1, <1>3 DEF OutInv, TrackInv, Holding, Fed
<1>6. ValuesInv'
  BY <1>1, <1>2 DEF OutInv, ValuesInv, Opened, Fed
<1> QED BY <1>4, <1>5, <1>6 DEF OutInv

-----------------------------------------------------------------------------
(* Every step keeps the output: its beginning, and an oscilloscope *)

\* Nothing has been written.
LEMMA NoItems ==
    ASSUME NEW kind
    PROVE  Of(<<>>, kind) = <<>> /\ IsSeq(<<>>) /\ Len(<<>>) = 0
<1>1. IsSeq(<<>>) /\ Len(<<>>) = 0
  BY DEF IsSeq
<1> QED BY <1>1, OfOne

\* A context that has just been made.
Empty(c) ==
    /\ Shape(c) /\ c.out = <<>> /\ c.line = <<>> /\ c.cnt = 0 /\ c.off = 0
    /\ c.mark = -1 /\ c.values = [b \in 1 .. ByteBits |-> {}] /\ c.prev = {}
    /\ c.count = 0 /\ c.header \in BOOLEAN

\* It is one of the format and of the names.
LEMMA OpenIs ==
    ASSUME NEW format \in Formats, NEW names, IsSeq(names), names # <<>>,
           NEW spl, NEW rate, NEW driver,
           Open(format, names, spl, rate, driver) # NoContext
    PROVE  LET c == Open(format, names, spl, rate, driver)
           IN  /\ Empty(c) /\ c.format = format /\ c.names = names
               /\ format \in Text => c.spl = spl
               /\ format = "vcd" => c.header = TRUE
<1> DEFINE c == Open(format, names, spl, rate, driver)
           b(h) == Context(format, names, h)
<1> SUFFICES /\ Empty(c) /\ c.format = format /\ c.names = names
             /\ format \in Text => c.spl = spl
             /\ format = "vcd" => c.header = TRUE
  OBVIOUS
<1>1. ASSUME NEW h \in BOOLEAN
      PROVE  /\ DOMAIN b(h) = Fields /\ Empty(b(h)) /\ b(h).header = h
             /\ b(h).format = format /\ b(h).names = names
  <2>1. IsSeq(<<>>)
    BY NoItems
  <2> QED BY <2>1 DEF Context, Fields, Empty, Shape
<1>2. CASE format \in Text
  <2>1. c = [b(TRUE) EXCEPT !.spl = spl]
    BY <1>2 DEF Open, InitText, Text
  <2>2. DOMAIN b(TRUE) = Fields /\ Empty(b(TRUE)) /\ b(TRUE).format = format
        /\ b(TRUE).names = names
    BY <1>1
  <2> HIDE DEF b, c
  <2> QED BY <1>2, <2>1, <2>2 DEF Empty, Shape, Fields, Text
<1>3. CASE format = "vcd"
  <2>1. c = [b(TRUE) EXCEPT !.rate = rate]
    BY <1>3 DEF Open, InitVcd, Text
  <2>2. DOMAIN b(TRUE) = Fields /\ Empty(b(TRUE)) /\ b(TRUE).format = format
        /\ b(TRUE).names = names /\ b(TRUE).header = TRUE
    BY <1>1
  <2> HIDE DEF b, c
  <2> QED BY <1>3, <2>1, <2>2 DEF Empty, Shape, Fields, Text
<1>4. CASE format \notin Text \cup {"vcd"}
  <2>1. \E h \in BOOLEAN : c = b(h)
    BY <1>4 DEF Open, InitCsv, InitGnuplot, InitOls, InitLa8, InitFloat, Formats, Text,
                Raw, Unguarded
  <2>2. PICK h \in BOOLEAN : c = b(h)
    BY <2>1
  <2> HIDE DEF b, c
  <2> QED BY <1>1, <1>4, <2>2
<1> QED BY <1>2, <1>3, <1>4

\* It holds no samples.
LEMMA EmptyHolds ==
    ASSUME NEW c, Empty(c), c.format \in Text => c.spl = SamplesPerLine, NEW a
    PROVE  Rep(c, <<>>, a) /\ Marks(c, <<>>, -1)
<1> DEFINE p == <<>>
<1>1. /\ Shape(c) /\ c.out = <<>> /\ c.line = <<>> /\ c.cnt = 0 /\ c.off = 0
      /\ c.mark = -1 /\ c.values = [b \in 1 .. ByteBits |-> {}] /\ c.prev = {}
      /\ c.count = 0
  BY DEF Empty
<1>2. Len(p) = 0 /\ IsSeq(p) /\ \A kind : Of(c.out, kind) = <<>>
  BY <1>1, NoItems
<1>3. SamplesPerLine \in Nat \ {0} /\ ByteBits \in Nat \ {0} /\ 0 * SamplesPerLine = 0
  BY Sizes, Widths
<1>4. ASSUME c.format \in Text PROVE TextRep(c, p)
  <2>1. Cells(c.format, <<>>, 0, 0, p)
    BY <1>4, NoCells
  <2>2. FullLines(c.format, <<>>, p)
    BY <1>2 DEF FullLines
  <2>3. TextLines(c, p, Len(p))
    <3>1. Len(Of(c.out, "line")) = 0 /\ 0 = 0 * SamplesPerLine + c.cnt
          /\ c.cnt \in 0 .. SamplesPerLine
      BY <1>1, <1>2, <1>3
    <3> QED BY <1>1, <1>2, <1>3, <1>4, <2>1, <2>2, <3>1 DEF TextLines
  <2>4. AsciiRep(c, p) /\ c.cnt < SamplesPerLine
    BY <1>1, <1>3 DEF AsciiRep
  <2>5. HexRep(c, p)
    <3>1. 0 \div ByteBits = 0
      BY <1>3, Nothing
    <3> DEFINE v == [b \in 1 .. ByteBits |-> {}]
    <3>2. v \in [1 .. ByteBits -> {{}}]
      OBVIOUS
    <3> HIDE DEF v
    <3>3. v \in Seq({{}}) /\ Len(v) = ByteBits
      BY <1>3, <3>2, AsSeq
    <3>4. IsSeq(v)
      BY <3>3, AnySeq
    <3>5. Window(v, p)
      BY <1>2, <1>3, <3>3, <3>4 DEF Window
    <3> QED BY <1>1, <3>1, <3>5 DEF HexRep, v
  <2> QED BY <2>3, <2>4, <2>5 DEF TextRep
<1>5. VcdRep(c, p)
  BY <1>1, <1>2 DEF VcdRep
<1>6. CsvRep(c, p)
  <2>1. [i \in 1 .. 0 |-> CsvRow(p[i], Len(c.names))] = <<>>
    OBVIOUS
  <2> HIDE DEF p
  <2> QED BY <1>2, <2>1 DEF CsvRep
<1>7. OlsRep(c, p)
  <2>1. [i \in 1 .. 0 |-> [kind |-> "sample", n |-> i - 1, s |-> p[i]]] = <<>>
    OBVIOUS
  <2> HIDE DEF p
  <2> QED BY <1>1, <1>2, <2>1 DEF OlsRep
<1>8. GnuplotRep(c, p, a)
  <2>1. [i \in DOMAIN p |-> p[i].s] = <<>>
    OBVIOUS
  <2>2. Of(c.out, "point") = p
    BY <1>2
  <2>3. c.count \in Nat /\ (c.count = 0 <=> p = <<>>)
    BY <1>1
  <2> QED BY <2>1, <2>2, <2>3 DEF GnuplotRep
<1>9. Rep(c, p, a)
  BY <1>4, <1>5, <1>6, <1>7, <1>8 DEF Rep
<1>10. Marks(c, p, -1)
  <2>1. MarkedLines(<<>>, -1)
    BY <1>2 DEF MarkedLines
  <2>2. MarkOf(0 * SamplesPerLine, c.cnt + 1, -1) = -1
    BY <1>1, <1>3 DEF MarkOf
  <2> QED BY <1>1, <1>2, <2>1, <2>2 DEF Marks
<1> QED BY <1>9, <1>10

\* No context has no values.
LEMMA NoneLabelled == Labelled(NoContext) /\ Of(NoContext.out, "value") = <<>>
<1>1. NoContext.out = <<>>
  BY DEF NoContext, Context
<1>2. Of(NoContext.out, "value") = <<>> /\ DOMAIN <<>> = {}
  BY <1>1, NoItems
<1> QED BY <1>2 DEF Labelled

\* The output begins with the header packet, with no samples,
LEMMA HeaderOutputs ==
    ASSUME Inv, OutInv, Header
    PROVE  OutInv'
<1>1. /\ pc = "ready" /\ pc' = IF o' = NoContext THEN "failed" ELSE "header"
      /\ o' = Open(Format, Names(dev.probes), SamplesPerLine, dev.rate, dev.driver)
      /\ plan' = plan /\ k' = k /\ source' = source /\ dev' = dev
      /\ in_unitsize' = in_unitsize /\ torn' = torn /\ marked' = marked
      /\ triggered' = triggered /\ fed' = fed
  BY DEF Header, inputVars, feedVars, history
<1>2. Format' = Format /\ Format \in Formats
  BY <1>1, SameCmd, CmdIs DEF Inv
<1>3. /\ ContextInv /\ ProbesOf(dev.probes) /\ Chosen(dev.probes) # {}
      /\ marked = -1 /\ fed = 0
  BY <1>1 DEF OutInv, ContextInv, Running, Inv, Fresh
<1>4. CASE o' = NoContext
  <2>1. pc' = "failed"
    BY <1>1, <1>4
  <2>2. ContextInv'
    BY <1>1, <1>2, <1>3, <2>1 DEF ContextInv, Running, Opened, Fed
  <2>3. TrackInv'
    BY <2>1 DEF TrackInv, Fed
  <2>4. ValuesInv'
    BY <1>4, <2>1, NoneLabelled DEF ValuesInv, Opened, Fed
  <2> QED BY <2>2, <2>3, <2>4 DEF OutInv
<1>5. CASE o' # NoContext
  <2> DEFINE names == Names(dev.probes)
  <2>1. pc' = "header"
    BY <1>1, <1>5
  <2>2. IsSeq(names) /\ names # <<>>
    BY <1>3, NamesAre
  <2>3. /\ Empty(o') /\ o'.format = Format /\ o'.names = names
        /\ Format \in Text => o'.spl = SamplesPerLine
        /\ Format = "vcd" => o'.header = TRUE
    <3> HIDE DEF names
    <3>1. o' = Open(Format, names, SamplesPerLine, dev.rate, dev.driver)
      BY <1>1 DEF names
    <3>2. Format \in Formats /\ IsSeq(names) /\ names # <<>> /\ o' # NoContext
      BY <1>2, <1>5, <2>2
    <3> DEFINE c == Open(Format, names, SamplesPerLine, dev.rate, dev.driver)
    <3>3. /\ Empty(c) /\ c.format = Format /\ c.names = names
          /\ Format \in Text => c.spl = SamplesPerLine
          /\ Format = "vcd" => c.header = TRUE
      BY <3>1, <3>2, OpenIs
    <3> QED BY <3>1, <3>3
  <2>4. Rep(o', <<>>, in_unitsize) /\ Marks(o', <<>>, -1)
    BY <2>3, EmptyHolds
  <2>5. ContextInv'
    BY <1>1, <1>2, <1>3, <2>1, <2>3 DEF ContextInv, Running, Empty
  <2>6. Holding(o, <<>>)'
    <3>1. o'.header \in BOOLEAN /\ (o'.format = "vcd" => (o'.header <=> <<>> = <<>>))
      BY <2>3 DEF Empty
    <3>2. Rep(o', <<>>, in_unitsize') /\ Marks(o', <<>>, marked')
      BY <1>1, <1>3, <2>4
    <3> QED BY <3>1, <3>2 DEF Holding
  <2>7. TrackInv'
    BY <2>1, <2>6 DEF TrackInv, Fed
  <2>8. \A kind : Of(o'.out, kind) = <<>>
    BY <2>3, NoItems DEF Empty
  <2>9. ValuesInv'
    <3>1. Len(<<>>) = 0 /\ DOMAIN <<>> = {}
      OBVIOUS
    <3>2. Labelled(o')
      BY <2>8, <3>1 DEF Labelled
    <3>3. Len(Of(o'.out, "value")) = fed' /\ o'.line = <<>>
      BY <1>1, <1>3, <2>3, <2>8, <3>1 DEF Empty
    <3> QED BY <2>8, <3>2, <3>3 DEF ValuesInv
  <2> QED BY <2>5, <2>7, <2>9 DEF OutInv
<1> QED BY <1>4, <1>5

\* and goes on with the frames of an oscilloscope, of which it shows the values
\* in one format.
LEMMA ScopeOutputs ==
    ASSUME Inv, OutInv, ScopeSends
    PROVE  OutInv'
<1>1. PICK m \in 1 .. MaxPacket : Analog(m)
  BY DEF ScopeSends
<1>2. /\ pc = "feed" /\ pc' = "feed" /\ source = "scope"
      /\ plan' = plan /\ k' = k /\ source' = source /\ dev' = dev
      /\ torn' = torn /\ marked' = marked /\ triggered' = triggered
  BY DEF ScopeSends, inputVars
<1>3. cmd' = cmd /\ Format' = Format /\ Format \in Formats
  BY <1>2, SameCmd, CmdIs DEF Inv
<1>4. Opened /\ Running
  BY <1>2 DEF Opened, Fed, Running
<1>5. ContextInv /\ ValuesInv /\ Shape(o) /\ o.format = Format /\ o.names = Names(dev.probes)
  BY <1>4 DEF OutInv, ContextInv
<1>6. m \in Nat \ {0} /\ fed \in Nat /\ fed' = fed + m
  <2>1. m \in Nat \ {0}
    BY Sizes
  <2>2. fed \in Nat
    BY DEF Inv, TypeInv
  <2>3. fed' = fed + m
    BY <1>1 DEF Analog
  <2> QED BY <2>1, <2>2, <2>3
<1> DEFINE begun == Event(o, "frame-begin")
           values == SentOf(Names(dev.probes), fed, m)
           shown == FloatData(begun, values, m)
<1>7. /\ LimitReached => o' = Event(begun, "frame-end") /\ received_samples' = received_samples
      /\ ~LimitReached =>
            o' = Event(IF Format = "float" THEN shown ELSE begun, "frame-end")
  BY <1>1 DEF Analog, SentOf
<1>8. Kin(o, begun)
  BY <1>3, <1>5, KinEvent
<1> HIDE DEF begun
<1>9. Shape(begun) /\ begun.format = Format /\ begun.names = o.names
      /\ Of(begun.out, "value") = Of(o.out, "value")
  BY <1>5, <1>8 DEF Kin
<1>10. Kin(begun, Event(begun, "frame-end"))
  BY <1>3, <1>9, KinEvent
<1>11. TrackInv'
  BY <1>2 DEF TrackInv, Tracked
<1>12. Labelled(o) /\ Labelled(begun)
  BY <1>5, <1>9 DEF ValuesInv, Labelled
<1>13. CASE LimitReached \/ Format # "float"
  <2>1. o' = Event(begun, "frame-end")
    BY <1>7, <1>13
  <2>2. Kin(o, o')
    <3>1. Kin(begun, o')
      BY <1>10, <2>1
    <3> HIDE DEF values, shown
    <3> QED BY <1>5, <1>9, <3>1 DEF Kin
  <2>3. ContextInv'
    BY <1>2, <1>3, <1>5, <2>2 DEF ContextInv, Running, Opened, Fed, Kin
  <2>4. Labelled(o')
    BY <1>12, <2>2 DEF Kin, Labelled
  <2>5. Format # "float" => Of(o'.out, "value") = <<>>
    BY <1>4, <1>5, <2>2 DEF ValuesInv, Kin
  <2>6. LimitReached => LimitReached'
    BY <1>3, <1>7 DEF LimitReached
  <2>7. Format = "bits" => o' = o
    BY <1>5, <2>1 DEF begun, Event, TextEvent, Text
  <2>8. Format = "bits" => o'.line = <<>> /\ Of(o'.out, "line") = <<>>
    BY <1>2, <1>4, <1>5, <2>7 DEF ValuesInv
  <2>9. Format = "float" => LimitReached'
    BY <1>13, <2>6
  <2>10. ValuesInv'
    BY <1>2, <1>3, <2>4, <2>5, <2>8, <2>9 DEF ValuesInv
  <2> QED BY <1>11, <2>3, <2>10 DEF OutInv
<1>14. CASE ~LimitReached /\ Format = "float"
  <2>1. o' = Event(shown, "frame-end")
    BY <1>7, <1>14
  <2>2. Len(begun.names) = 1 => Len(Of(begun.out, "value")) = fed
    BY <1>2, <1>4, <1>5, <1>9, <1>14 DEF ValuesInv
  <2>3. /\ Shape(shown) /\ shown.format = begun.format /\ shown.names = begun.names
        /\ Labelled(shown)
        /\ Len(begun.names) = 1 => Len(Of(shown.out, "value")) = fed + m
    <3>1. values = SentOf(begun.names, fed, m)
      BY <1>5, <1>9
    <3> HIDE DEF values
    <3>2. shown = FloatData(begun, SentOf(begun.names, fed, m), m)
      BY <3>1
    <3> HIDE DEF shown
    <3> QED BY <1>6, <1>9, <1>12, <2>2, <3>2, FloatShows
  <2> HIDE DEF shown
  <2>4. Kin(shown, o')
    BY <1>3, <1>9, <2>1, <2>3, KinEvent
  <2>5. /\ Shape(o') /\ o'.format = Format /\ o'.names = o.names
        /\ Of(o'.out, "value") = Of(shown.out, "value")
    BY <1>9, <2>3, <2>4 DEF Kin
  <2>6. ContextInv'
    BY <1>2, <1>3, <1>5, <2>5 DEF ContextInv, Running, Opened, Fed
  <2>7. Labelled(o') /\ (Len(o'.names) = 1 => Len(Of(o'.out, "value")) = fed')
    BY <1>6, <1>9, <2>3, <2>5 DEF Labelled
  <2>8. ValuesInv'
    BY <1>2, <1>3, <1>14, <2>7 DEF ValuesInv
  <2> QED BY <1>11, <2>6, <2>8 DEF OutInv
<1> QED BY <1>13, <1>14

\* A sequence of probes, of which some are enabled.
LEMMA ProbedProbes ==
    ASSUME NEW n \in Nat, NEW s, Probed(s, n), \A i \in 1 .. n : s[i].enabled \in BOOLEAN,
           \E i \in 1 .. n : s[i].enabled
    PROVE  ProbesOf(s) /\ Chosen(s) # {}
<1>1. DOMAIN s = 1 .. n
  BY DEF Probed
<1>2. s \in [1 .. n -> {s[i] : i \in DOMAIN s}]
  BY <1>1 DEF Probed
<1> DEFINE S == {s[i] : i \in DOMAIN s}
<1>3. s \in Seq(S)
  <2>1. s \in [1 .. n -> S] /\ n \in Nat
    BY <1>2
  <2> HIDE DEF S
  <2> QED BY ONLY <2>1
<1> QED BY <1>1, <1>3 DEF ProbesOf, Chosen

\* A command begins without a context, and with probes that are enabled.
LEMMA BeginOutputs ==
    ASSUME Inv, OutInv, Begin
    PROVE  OutInv'
<1>1. /\ pc = "start" /\ plan' = plan /\ k' = k /\ o' = o /\ torn' = torn
      /\ marked' = marked /\ triggered' = triggered
      /\ OpenDevice \/ OpenSession \/ OpenRaw
  BY DEF Begin, feedVars, history
<1>2. pc' \in {"ready", "failed"}
  BY <1>1 DEF OpenDevice, OpenSession, OpenRaw, Uses, Fails
<1>3. Format' = Format /\ ContextInv /\ o = NoContext
  BY <1>1, SameCmd DEF OutInv, ContextInv
<1>4. ASSUME pc' = "ready"
      PROVE  ProbesOf(dev'.probes) /\ Chosen(dev'.probes) # {}
  <2>1. CASE source' # "scope"
    <3>1. DevInv' /\ Running'
      BY <1>4, BeginKeeps DEF Inv, Running
    <3>2. Roomy(dev'.probes, in_unitsize')
      BY <2>1, <3>1 DEF DevInv
    <3> QED BY <3>2 DEF Roomy
  <2>2. CASE source' = "scope"
    <3> DEFINE C == [i \in DOMAIN Channels |-> Probe(Channels[i], "")]
               n == Len(Channels)
               s == Select(C)
    <3>1. TypeInv /\ InputFormat \in {"binary", "chronovu-la8"}
      BY CmdIs DEF Inv, InputFormat
    <3>2. OpenDevice
      BY <1>1, <1>4, <2>2, <3>1 DEF OpenSession, OpenRaw, Uses, Fails
    <3>3. dev'.probes = s
      <4>1. Uses("scope", "hw", FALSE, s, 0)
        BY <1>4, <2>2, <3>2 DEF OpenDevice, Uses, Fails
      <4> HIDE DEF s
      <4> QED BY <4>1 DEF Uses
    <3>4. n \in Nat \ {0} /\ DOMAIN Channels = 1 .. n
      BY Sizes
    <3>5. Probed(C, n) /\ \A i \in 1 .. n : C[i].enabled = TRUE
      BY <3>4 DEF Probed, Probe
    <3>6. /\ Probed(s, n) /\ \A i \in 1 .. n : s[i].enabled \in BOOLEAN
          /\ \E i \in 1 .. n : s[i].enabled
      <4> HIDE DEF C, n
      <4> QED BY <3>1, <3>4, <3>5, SelectIs
    <3> HIDE DEF s, n
    <3> QED BY <3>3, <3>4, <3>6, ProbedProbes
  <2> QED BY <2>1, <2>2
<1>5. ContextInv'
  BY <1>1, <1>2, <1>3, <1>4 DEF ContextInv, Running, Opened, Fed
<1>6. TrackInv'
  BY <1>2 DEF TrackInv, Fed
<1>7. ValuesInv'
  BY <1>1, <1>2, <1>3, NoneLabelled DEF ValuesInv, Opened, Fed
<1> QED BY <1>5, <1>6, <1>7 DEF OutInv

\* So does the next one,
LEMMA NextCommandOutputs ==
    ASSUME NextCommand
    PROVE  OutInv'
<1>1. pc' = "start" /\ o' = NoContext /\ torn' = FALSE /\ marked' = -1
  BY DEF NextCommand
<1>2. ContextInv' /\ TrackInv'
  BY <1>1 DEF ContextInv, TrackInv, Running, Opened, Fed
<1>3. ValuesInv'
  BY <1>1, NoneLabelled DEF ValuesInv, Opened, Fed
<1> QED BY <1>2, <1>3 DEF OutInv

\* and the first.
LEMMA InitOutputs == Init => OutInv
<1> SUFFICES ASSUME Init PROVE OutInv
  OBVIOUS
<1>1. pc = "start" /\ o = NoContext /\ torn = FALSE /\ marked = -1
  BY DEF Init
<1>2. ContextInv /\ TrackInv
  BY <1>1 DEF ContextInv, TrackInv, Running, Opened, Fed
<1>3. ValuesInv
  BY <1>1, NoneLabelled DEF ValuesInv, Opened, Fed
<1> QED BY <1>2, <1>3 DEF OutInv

\* Every step keeps what the output holds.
LEMMA NextOutputs == FewProbes /\ Inv /\ OutInv /\ [Next]_vars => OutInv'
BY BeginOutputs, HeaderOutputs, MetaOutputs, ReadOutputs, TriggerOutputs, ScopeOutputs,
   EndOutputs, ExitOutputs, NextCommandOutputs, StutterOutputs DEF Next

-----------------------------------------------------------------------------
(* What a reader of the output finds *)

\* The lines of the text formats show the samples.
LEMMA TextReads ==
    ASSUME Shape(o), o.format \in Text, IsSeq(Passed), TextEnd(o, Passed)
    PROVE  LinesShow
<1> DEFINE p == Passed
           lines == Of(o.out, "line")
<1>1. Lines = lines
  BY DEF Lines, Items, Of
<1>2. SamplesPerLine \in Nat \ {0} /\ Len(p) \in Nat
  BY Sizes, SeqIs
<1>3. /\ Len(lines) = (Len(p) + SamplesPerLine - 1) \div SamplesPerLine
      /\ Len(lines) \in Nat /\ DOMAIN lines = 1 .. Len(lines)
  <2>1. IsSeq(lines)
    BY OfOne DEF Shape
  <2>2. Len(lines) \in Nat /\ DOMAIN lines = 1 .. Len(lines)
    <3> HIDE DEF lines
    <3> QED BY <2>1, SeqIs
  <2> QED BY <2>2 DEF TextEnd
<1>4. ASSUME NEW i \in DOMAIN lines
      PROVE  /\ Len(lines[i].cells) = CellsOf(LineLength(i))
             /\ \A q \in 0 .. LineLength(i) - 1 :
                   /\ Shows(i, q) = p[SamplesPerLine * (i - 1) + q + 1]
                   /\ o.format = "ascii" =>
                         IsEdge(lines[i].cells[q + 1], SamplesPerLine * (i - 1) + q + 1)
  <2> DEFINE b == (i - 1) * SamplesPerLine
             n == Min({SamplesPerLine, Len(p) - b})
             cells == lines[i].cells
  <2>1. i \in Nat \ {0}
    <3> HIDE DEF lines
    <3> QED BY <1>3
  <2>2. b \in Nat /\ SamplesPerLine * (i - 1) = b
    BY <1>2, <2>1
  <2>3. LineLength(i) = n
    BY <2>2 DEF LineLength
  <2>4. Cells(o.format, cells, b, n, p)
    BY <1>3 DEF TextEnd
  <2>5. n \in Int
    <3> DEFINE m == Len(p) - b
    <3>1. m \in Int
      BY <1>2, <2>2
    <3> HIDE DEF m
    <3>2. Min({SamplesPerLine, m}) = IF SamplesPerLine <= m THEN SamplesPerLine ELSE m
      BY <1>2, <3>1, MinOf
    <3> QED BY <1>2, <3>1, <3>2 DEF m
  <2>6. ASSUME NEW q PROVE Shows(i, q) = IF o.format # "hex" THEN cells[q + 1].high
                                         ELSE HexShows(cells, n, q)
    BY <1>1, <2>3 DEF Shows, HexShows
  <2> HIDE DEF n, b, cells, p
  <2>7. CASE o.format = "hex"
    <3>1. Len(cells) = UnitsizeOf(n) /\ \A q \in 0 .. n - 1 : HexShows(cells, n, q) = p[b + q + 1]
      BY <2>4, <2>7 DEF Cells, HexCells
    <3> QED BY <2>2, <2>3, <2>6, <2>7, <3>1 DEF CellsOf, cells
  <2>8. CASE o.format # "hex"
    <3>1. BitCells(cells, b, n, p) /\ (o.format = "ascii" => EdgeCells(cells, b, n, p))
      BY <2>4, <2>8 DEF Cells, Text
    <3>2. Len(cells) = n /\ \A x \in 1 .. n : cells[x].high = p[b + x]
      BY <3>1 DEF BitCells
    <3>3. ASSUME NEW q \in 0 .. n - 1
          PROVE  /\ Shows(i, q) = p[b + q + 1]
                 /\ o.format = "ascii" => IsEdge(cells[q + 1], b + q + 1)
      <4> DEFINE x == q + 1
      <4>1. x \in 1 .. n /\ b + q + 1 = b + x /\ (b + x) - 1 = b + x - 1
        BY <2>2, <2>5
      <4>2. Shows(i, q) = cells[x].high
        BY <2>6, <2>8
      <4> HIDE DEF x
      <4>3. cells[x].high = p[b + x]
        BY <3>2, <4>1
      <4>4. ASSUME o.format = "ascii" PROVE IsEdge(cells[x], b + x)
        <5>1. /\ cells[x].rise = p[b + x] \ (IF b + x = 1 THEN {} ELSE p[b + x - 1])
              /\ b + x < Len(p) => cells[x].fall = p[b + x] \ p[b + x + 1]
          BY <3>1, <4>1, <4>4 DEF EdgeCells
        <5> DEFINE y == b + x
        <5>2. /\ cells[x].rise = p[y] \ (IF y = 1 THEN {} ELSE p[y - 1])
              /\ y < Len(p) => cells[x].fall = p[y] \ p[y + 1]
              /\ cells[x].high = p[y]
          BY <4>1, <4>3, <5>1
        <5> HIDE DEF y
        <5>3. IsEdge(cells[x], y)
          BY <5>2 DEF IsEdge, p
        <5> QED BY <5>3 DEF y
      <4>5. Shows(i, q) = p[b + q + 1]
        BY <4>1, <4>2, <4>3
      <4>6. o.format = "ascii" => IsEdge(cells[q + 1], b + q + 1)
        BY <4>1, <4>4 DEF x
      <4> QED BY <4>5, <4>6
    <3> QED BY <2>2, <2>3, <2>8, <3>2, <3>3 DEF CellsOf, cells
  <2> QED BY <2>7, <2>8
<1> HIDE DEF lines, p
<1>5. Len(Lines) = (Len(p) + SamplesPerLine - 1) \div SamplesPerLine
  BY <1>1, <1>3
<1> QED BY <1>1, <1>4, <1>5 DEF LinesShow, p

\* The levels of the changes, the rows, the samples and the points are those
\* of the samples.
LEMMA ItemsRead ==
    ASSUME Shape(o), o.format \in Unguarded \ Text, IsSeq(Passed), NEW a,
           Rep(o, Passed, a), \A i \in DOMAIN Passed : Passed[i] \subseteq Probes0(o)
    PROVE  ReadsBack
<1> DEFINE p == Passed
<1>1. DOMAIN p = 1 .. Len(p) /\ Len(p) \in Nat
  BY SeqIs
<1>2. \A kind : Items(kind) = Of(o.out, kind)
  BY DEF Items, Of
<1>3. CASE o.format = "vcd"
  <2>1. VcdRep(o, p)
    BY <1>3 DEF Rep, Text
  <2>2. SUFFICES ASSUME o.rate, NEW n \in DOMAIN p PROVE Level(n) = p[n]
    BY <1>3 DEF ReadsBack, Text
  <2>3. LevelOf(Items("change"), n, Probes0(o)) = p[n]
    BY <1>1, <1>2, <2>1, <2>2 DEF VcdRep
  <2>4. Level(n) = LevelOf(Items("change"), n, Probes0(o))
    BY DEF Level, LevelOf
  <2> QED BY <2>3, <2>4
<1>4. CASE o.format = "csv"
  <2> DEFINE rows == Items("row")
             n == Len(o.names)
             row(i) == {q \in Probes0(o) : rows[i].cells[n - q]}
  <2>1. rows = [i \in 1 .. Len(p) |-> CsvRow(p[i], n)]
    BY <1>2, <1>4 DEF Rep, Text, CsvRep
  <2>2. n \in Nat
    BY SeqIs DEF Shape
  <2>3. DOMAIN rows = 1 .. Len(p) /\ \A i \in 1 .. Len(p) : rows[i] = CsvRow(p[i], n)
    <3> HIDE DEF p, n
    <3> QED BY <2>1
  <2>4. ASSUME NEW i \in 1 .. Len(p) PROVE row(i) = p[i]
    <3>1. \A x \in 1 .. n : rows[i].cells[x] = (n - x \in p[i])
      <4> HIDE DEF rows, p, n
      <4>1. rows[i] = CsvRow(p[i], n)
        BY <2>3, <2>4
      <4>2. rows[i].cells = [x \in 1 .. n |-> n - x \in p[i]]
        BY <4>1 DEF CsvRow
      <4> QED BY <4>2, Zenon
    <3>2. p[i] \subseteq 0 .. n - 1 /\ Probes0(o) = 0 .. n - 1
      BY <1>1, <2>4 DEF Probes0
    <3> HIDE DEF rows, p, n
    <3>3. ASSUME NEW q \in 0 .. n - 1 PROVE rows[i].cells[n - q] = (q \in p[i])
      <4>1. n - q \in 1 .. n /\ n - (n - q) = q
        BY <2>2
      <4> QED BY <3>1, <4>1
    <3> QED BY <3>2, <3>3
  <2>5. [i \in DOMAIN rows |-> row(i)] = p
    <3>1. p = [i \in 1 .. Len(p) |-> p[i]]
      BY <1>1 DEF IsSeq
    <3> HIDE DEF rows, p, row
    <3> QED BY <2>3, <2>4, <3>1
  <2> QED BY <1>4, <2>5 DEF ReadsBack, Text
<1>5. CASE o.format = "ols"
  <2>1. OlsRep(o, p)
    BY <1>5 DEF Rep, Text
  <2> QED BY <1>1, <1>2, <1>5, <2>1 DEF ReadsBack, Text, OlsRep
<1>6. CASE o.format = "gnuplot"
  <2>1. GnuplotRep(o, p, a)
    BY <1>6 DEF Rep, Text
  <2>2. Points = [i \in DOMAIN Of(o.out, "point") |-> Of(o.out, "point")[i].s]
    BY <1>2 DEF Points
  <2>3. Destutter(Points) = Destutter(p) /\ (p = <<>> <=> Points = <<>>)
    BY <2>1, <2>2 DEF GnuplotRep
  <2> QED BY <1>6, <2>3 DEF ReadsBack, Text
<1> QED BY <1>3, <1>4, <1>5, <1>6 DEF Unguarded, Text

\* The bytes of the raw formats are those of the samples.
LEMMA RawReads ==
    ASSUME Inv, pc = "ended", Format \in Raw
    PROVE  ReadsBack
<1> DEFINE g == given[k]
<1>1. /\ o.format = Format
      /\ o.out = IF Format = "chronovu-la8" THEN ByteItems(g \o La8Trail) ELSE ByteItems(g)
  BY DEF Inv, RawInv, Fed
<1>2. g \in Seq(Byte) /\ La8Trail \in Seq(Byte)
  BY CmdIs, TrailType DEF Inv
<1> HIDE DEF g
<1>3. BytesOf(o.out) = g \o La8Trail \/ BytesOf(o.out) = g
  <2>1. g \o La8Trail \in Seq(Byte)
    BY <1>2
  <2> QED BY <1>1, <1>2, <2>1, BytesOfItems
<1>4. SubSeq(g \o La8Trail, 1, Len(g)) = g
  BY <1>2, ConcatProperties
<1>5. SubSeq(g, 1, Len(g)) = g
  BY <1>2
<1>6. SubSeq(BytesOf(o.out), 1, Len(g)) = g
  BY <1>3, <1>4, <1>5
<1> QED BY <1>1, <1>6 DEF ReadsBack, Raw, Text, g

\* A reader gets the samples that were passed on.
LEMMA ReadsOutput == Inv /\ OutInv => OutputReadsBack
<1> SUFFICES ASSUME Inv, OutInv, pc = "ended", ~Saving, source # "scope",
                    Format # "float", ~ragged, ~torn
             PROVE  ReadsBack
  BY DEF OutputReadsBack
<1>1. Fed /\ Opened /\ Format \in Formats
  BY CmdIs DEF Fed, Opened, Inv
<1>2. Shape(o) /\ o.format = Format /\ IsSeq(Passed)
  BY <1>1, PassedAre DEF OutInv, ContextInv
<1>3. CASE Format \in Raw
  BY <1>3, RawReads
<1>4. CASE Format \in Text \cup Unguarded
  <2>1. /\ EndRep(o, Passed, in_unitsize)
        /\ \A i \in DOMAIN Passed : Passed[i] \subseteq Probes0(o)
    BY <1>1, <1>4 DEF OutInv, TrackInv, Tracked
  <2>2. CASE Format \in Text
    <3>1. LinesShow
      BY <1>2, <2>1, <2>2, TextReads DEF EndRep
    <3> QED BY <1>2, <2>2, <3>1 DEF ReadsBack, Text
  <2>3. CASE Format \notin Text
    <3>1. Rep(o, Passed, in_unitsize)
      BY <1>2, <2>1, <2>3 DEF EndRep
    <3> QED BY <1>2, <1>4, <2>1, <2>3, <3>1, ItemsRead
  <2> QED BY <2>2, <2>3
<1> QED BY <1>1, <1>3, <1>4 DEF Formats

\* The trigger mark is where it belongs.
LEMMA MarksRead == Inv /\ OutInv => MarkUnderSample
<1> SUFFICES ASSUME Inv, OutInv, pc = "ended", o.format = "bits", ~Saving, ~ragged,
                    NEW i \in DOMAIN Lines
             PROVE  Lines[i].mark =
                       IF marked \in SamplesPerLine * (i - 1) .. SamplesPerLine * i - 1
                       THEN marked - SamplesPerLine * (i - 1) ELSE -1
  BY DEF MarkUnderSample
<1>1. Fed /\ Opened /\ Lines = Of(o.out, "line")
  BY DEF Fed, Opened, Lines, Items, Of
<1>2. Shape(o) /\ Format = "bits" /\ ~torn
  BY <1>1 DEF OutInv, ContextInv
<1> DEFINE lines == Of(o.out, "line")
<1>3. IsSeq(lines) /\ Len(lines) \in Nat /\ DOMAIN lines = 1 .. Len(lines)
  <2>1. IsSeq(lines)
    BY <1>2, OfOne DEF Shape
  <2> HIDE DEF lines
  <2> QED BY <2>1, SeqIs
<1>4. source # "scope"
  <2>1. source = "scope" => lines = <<>>
    BY <1>1, <1>2 DEF OutInv, ValuesInv
  <2>2. DOMAIN <<>> = {}
    OBVIOUS
  <2> QED BY <1>1, <2>1, <2>2
<1>5. Tracked
  BY <1>2, <1>4 DEF Tracked, Text
<1>6. MarkedLines(lines, marked)
  BY <1>5 DEF OutInv, TrackInv
<1>7. i \in 1 .. Len(lines) /\ i \in Nat
  BY <1>1, <1>3
<1> HIDE DEF lines
<1>8. lines[i].mark = MarkOf((i - 1) * SamplesPerLine, SamplesPerLine, marked)
  BY <1>6, <1>7 DEF MarkedLines
<1> DEFINE b == (i - 1) * SamplesPerLine
<1>9. /\ SamplesPerLine * (i - 1) = b /\ SamplesPerLine * i = b + SamplesPerLine
      /\ b \in Int /\ SamplesPerLine \in Int
  <2>1. i - 1 \in Int /\ SamplesPerLine \in Int /\ (i - 1) + 1 = i
    BY <1>7, Sizes
  <2>2. ((i - 1) + 1) * SamplesPerLine = (i - 1) * SamplesPerLine + SamplesPerLine
    BY <2>1, Multiples
  <2>3. i * SamplesPerLine = SamplesPerLine * i /\ b = SamplesPerLine * (i - 1) /\ b \in Int
    BY <1>7, <2>1
  <2> QED BY <2>1, <2>2, <2>3
<1>10. Lines[i].mark = MarkOf(b, SamplesPerLine, marked)
  BY <1>1, <1>8 DEF lines
<1> HIDE DEF b
<1> QED BY <1>9, <1>10 DEF MarkOf

\* Each value has the name of its channel.
LEMMA ValuesRead == OutInv => ValuesLabelled
<1>1. Items("value") = Of(o.out, "value")
  BY DEF Items, Of
<1> QED BY <1>1 DEF OutInv, ValuesInv, Labelled, ValuesLabelled

\* An output file says what was measured: its samples in every format, however
\* they came in packets, the mark of the trigger in the bits format, and the
\* names of the channels of an oscilloscope.
THEOREM OutputsAreFaithful ==
    ASSUME FewProbes
    PROVE  Spec => []OutputFaithful
<1>1. Inv /\ OutInv => OutputFaithful
  BY ReadsOutput, MarksRead, ValuesRead DEF OutputFaithful
<1>2. FewProbes
  OBVIOUS
<1>3. Init => Inv /\ OutInv
  BY InitInv, InitOutputs
<1>4. Inv /\ OutInv /\ [Next]_vars => (Inv /\ OutInv)'
  BY <1>2, NextKeeps, NextOutputs
<1> QED BY <1>1, <1>3, <1>4, PTL DEF Spec

=============================================================================
