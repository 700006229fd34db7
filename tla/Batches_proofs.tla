---------------------------- MODULE Batches_proofs ----------------------------
(***************************************************************************)
(* What the batches of a play are, for every list of hosts, every strategy *)
(* and every list of sizes; and the facts about natural numbers and        *)
(* recursive functions that this rests on, in a form without operators as  *)
(* parameters: induction is over a set of numbers.                         *)
(***************************************************************************)
EXTENDS Batches, FiniteSetTheorems, SequenceTheorems, WellFoundedInduction, TLAPS

(* A set of numbers that is not empty has a least element.                 *)
LEMMA LeastNumber ==
  ASSUME NEW T, T \subseteq Nat, T # {}
  PROVE  \E x \in T : \A y \in T : x <= y
<1>1. PICK x \in T : \A y \in T : ~ (<<y, x>> \in OpToRel(<, Nat))
  BY NatLessThanWellFounded, WFMin
<1>2. ASSUME NEW y \in T PROVE ~(y < x)
  <2>1. y < x => <<y, x>> \in OpToRel(<, Nat)
    BY DEF OpToRel
  <2> QED
    BY <2>1, <1>1
<1> QED
  BY <1>2

(* Induction, for a set of numbers.                                        *)
LEMMA Induction ==
  ASSUME NEW S, 0 \in S, \A n \in Nat : n \in S => n + 1 \in S
  PROVE  Nat \subseteq S
<1> SUFFICES ASSUME Nat \ S # {} PROVE FALSE
  OBVIOUS
<1>1. PICK x \in Nat \ S : \A y \in Nat \ S : x <= y
  <2>1. Nat \ S \subseteq Nat
    OBVIOUS
  <2> QED
    BY LeastNumber, <2>1
<1>2. x # 0
  OBVIOUS
<1>3. x - 1 \in Nat /\ x - 1 \in S
  BY <1>1, <1>2
<1> QED
  BY <1>3

(* Induction up to a bound.                                                *)
LEMMA BoundedInduction ==
  ASSUME NEW n \in Nat, NEW S, 0 \in S, \A j \in 1 .. n : j - 1 \in S => j \in S
  PROVE  0 .. n \subseteq S
<1> DEFINE T == {j \in Nat : j \in 0 .. n => j \in S}
<1>1. 0 \in T /\ \A j \in Nat : j \in T => j + 1 \in T
  <2>1. ASSUME NEW j \in Nat, j \in T, j + 1 \in 0 .. n PROVE j + 1 \in S
    <3>1. j \in 0 .. n /\ j + 1 \in 1 .. n /\ (j + 1) - 1 = j
      BY <2>1
    <3> QED
      BY <3>1, <2>1
  <2> QED
    BY <2>1
<1>2. Nat \subseteq T
  <2> HIDE DEF T
  <2> QED
    BY <1>1, Induction
<1> QED
  BY <1>2

(* A function that begins with a and goes on as g says exists.             *)
Iterates(f, n, V, a, g) == f \in [0 .. n -> V] /\ f[0] = a /\ \A j \in 1 .. n : f[j] = g[j][f[j - 1]]

LEMMA RecursiveFunction ==
  ASSUME NEW n \in Nat, NEW V, NEW a \in V, NEW g \in [Nat -> [V -> V]]
  PROVE  \E f : Iterates(f, n, V, a, g)
<1> DEFINE S == {m \in Nat : \E f : Iterates(f, m, V, a, g)}
<1>1. 0 \in S
  <2> DEFINE f == [j \in 0 .. 0 |-> a]
  <2>1. f \in [0 .. 0 -> V] /\ f[0] = a /\ 1 .. 0 = {}
    OBVIOUS
  <2> QED
    BY <2>1 DEF Iterates
<1>2. ASSUME NEW m \in Nat, m \in S PROVE m + 1 \in S
  <2>1. PICK f : Iterates(f, m, V, a, g)
    BY <1>2
  <2>f. f \in [0 .. m -> V] /\ f[0] = a /\ \A j \in 1 .. m : f[j] = g[j][f[j - 1]]
    BY <2>1 DEF Iterates
  <2> DEFINE h == [j \in 0 .. m + 1 |-> IF j = m + 1 THEN g[j][f[m]] ELSE f[j]]
  <2>2. h \in [0 .. m + 1 -> V]
    <3>1. m \in 0 .. m /\ f[m] \in V /\ m + 1 \in Nat
      BY <2>f
    <3>2. g[m + 1][f[m]] \in V
      BY <3>1
    <3>3. \A j \in 0 .. m + 1 : j # m + 1 => j \in 0 .. m
      OBVIOUS
    <3> QED
      BY <3>2, <3>3, <2>f
  <2>3. \A j \in 0 .. m : h[j] = f[j]
    OBVIOUS
  <2>4. h[m + 1] = g[m + 1][f[m]]
    OBVIOUS
  <2>5. ASSUME NEW j \in 1 .. m + 1 PROVE h[j] = g[j][h[j - 1]]
    <3> HIDE DEF h
    <3>1. CASE j = m + 1
      <4>1. j - 1 = m /\ m \in 0 .. m
        BY <3>1
      <4> QED
        BY <3>1, <4>1, <2>3, <2>4
    <3>2. CASE j # m + 1
      <4>1. j \in 1 .. m /\ j \in 0 .. m /\ j - 1 \in 0 .. m
        BY <3>2
      <4> QED
        BY <4>1, <2>f, <2>3
    <3> QED
      BY <3>1, <3>2
  <2>6. h[0] = a
    BY <2>f, <2>3
  <2>7. Iterates(h, m + 1, V, a, g)
    <3> HIDE DEF h
    <3> QED
      BY <2>2, <2>5, <2>6 DEF Iterates
  <2> QED
    BY <2>7
<1>4. n \in S
  <2> HIDE DEF S
  <2> QED
    BY <1>1, <1>2, Induction
<1> QED
  BY <1>4

-----------------------------------------------------------------------------
(* Where the batches end: at growing positions, each as far from the one   *)
(* before as its size says, until all hosts are dealt with.                *)
LEMMA EndsAre ==
  ASSUME NEW n \in Nat, NEW sizes \in Seq(Nat \ {0}), sizes # <<>>
  PROVE  /\ Ends(n, sizes) \in [0 .. n -> 0 .. n]
         /\ Ends(n, sizes)[0] = 0
         /\ \A j \in 1 .. n : /\ AtMost(j, Len(sizes)) \in 1 .. Len(sizes)
                              /\ sizes[AtMost(j, Len(sizes))] \in Nat \ {0}
                              /\ Ends(n, sizes)[j] = AtMost(Ends(n, sizes)[j - 1] + sizes[AtMost(j, Len(sizes))], n)
<1> DEFINE size(j) == sizes[AtMost(j, Len(sizes))]
           g == [j \in Nat |-> [x \in 0 .. n |-> IF j = 0 THEN 0 ELSE AtMost(x + size(j), n)]]
           e == Ends(n, sizes)
<1>1. Len(sizes) \in Nat \ {0}
  BY EmptySeq
<1>2. \A j \in Nat \ {0} : AtMost(j, Len(sizes)) \in 1 .. Len(sizes) /\ size(j) \in Nat \ {0}
  BY <1>1 DEF AtMost
<1>3. g \in [Nat -> [0 .. n -> 0 .. n]]
  <2>1. ASSUME NEW j \in Nat, NEW x \in 0 .. n
        PROVE  (IF j = 0 THEN 0 ELSE AtMost(x + size(j), n)) \in 0 .. n
    <3>1. j # 0 => size(j) \in Nat
      BY <1>2
    <3> HIDE DEF size
    <3> QED
      BY <3>1 DEF AtMost
  <2> HIDE DEF size
  <2> QED
    BY <2>1
<1> DEFINE eq(f) == f = [j \in 0 .. n |-> IF j = 0 THEN 0 ELSE AtMost(f[j - 1] + size(j), n)]
<1>4. \E f \in [0 .. n -> 0 .. n] : eq(f)
  <2>1. 0 \in 0 .. n
    OBVIOUS
  <2>2. PICK f : Iterates(f, n, 0 .. n, 0, g)
    <3> HIDE DEF g
    <3> QED
      BY <1>3, <2>1, RecursiveFunction
  <2>f. f \in [0 .. n -> 0 .. n] /\ f[0] = 0 /\ \A j \in 1 .. n : f[j] = g[j][f[j - 1]]
    <3> HIDE DEF g
    <3> QED
      BY <2>2 DEF Iterates
  <2>3. ASSUME NEW j \in 0 .. n, j # 0 PROVE f[j] = AtMost(f[j - 1] + size(j), n)
    <3>1. j - 1 \in 0 .. n /\ j \in Nat \ {0} /\ j \in 1 .. n
      BY <2>3
    <3>2. f[j - 1] \in 0 .. n
      BY <2>f, <3>1
    <3>3. g[j][f[j - 1]] = AtMost(f[j - 1] + size(j), n)
      <4> HIDE DEF size
      <4> QED
        BY <3>1, <3>2
    <3> HIDE DEF size, g
    <3> QED
      BY <2>f, <3>1, <3>3
  <2>4. eq(f)
    <3> HIDE DEF g, size
    <3> QED
      BY <2>f, <2>3
  <2> HIDE DEF eq, g, size
  <2> QED
    BY <2>4, <2>f
<1>5. e = CHOOSE f : eq(f)
  BY DEF Ends
<1>6. eq(e)
  <2> HIDE DEF eq, e
  <2> QED
    BY <1>4, <1>5
<1>7. e[0] = 0 /\ \A j \in 1 .. n : e[j] = AtMost(e[j - 1] + size(j), n)
  <2> HIDE DEF size, e
  <2> QED
    BY <1>6
<1> DEFINE S == {j \in 0 .. n : e[j] \in 0 .. n}
<1>8. 0 .. n \subseteq S
  <2>1. 0 \in S
    BY <1>7
  <2>2. ASSUME NEW j \in 1 .. n, j - 1 \in S PROVE j \in S
    <3>1. e[j - 1] \in 0 .. n /\ j \in Nat \ {0} /\ j \in 0 .. n
      BY <2>2
    <3>2. size(j) \in Nat
      BY <1>2, <3>1
    <3>3. AtMost(e[j - 1] + size(j), n) \in 0 .. n
      <4> HIDE DEF e, size
      <4> QED
        BY <3>1, <3>2 DEF AtMost
    <3> HIDE DEF e, size
    <3> QED
      BY <3>1, <3>3, <1>7
  <2> HIDE DEF S, e, size
  <2> QED
    BY <2>1, <2>2, BoundedInduction
<1>9. e \in [0 .. n -> 0 .. n]
  <2>1. DOMAIN e = 0 .. n /\ e = [j \in 0 .. n |-> e[j]]
    <3> HIDE DEF e, size
    <3> QED
      BY <1>6
  <2> HIDE DEF e
  <2> QED
    BY <1>8, <2>1
<1> QED
  <2>1. \A j \in 1 .. n : j \in Nat \ {0}
    OBVIOUS
  <2> QED
    BY <1>2, <1>7, <1>9, <2>1
-----------------------------------------------------------------------------
(* b cuts s at the positions e: batch j is what lies between e[j-1] and    *)
(* e[j], and never nothing.                                                *)
CutsAt(b, s, e) ==
  /\ e \in [0 .. Len(b) -> 0 .. Len(s)]
  /\ e[0] = 0 /\ e[Len(b)] = Len(s)
  /\ \A j \in 1 .. Len(b) : e[j - 1] < e[j] /\ b[j] = SubSeq(s, e[j - 1] + 1, e[j])

IsCut(b, s) == \E e : CutsAt(b, s, e)

(* Positions that start at 0 and advance, by at least one host each time,  *)
(* until n: they reach n after m steps, and not before.                    *)
Advances(e, size, n) == e[0] = 0 /\ \A j \in 1 .. n : e[j] = AtMost(e[j - 1] + size[j], n)
Growing(e, m) == \A j \in 1 .. m : e[j - 1] < e[j]

LEMMA Reach ==
  ASSUME NEW n \in Nat, NEW e \in [0 .. n -> 0 .. n], NEW size \in [1 .. n -> Nat \ {0}],
         Advances(e, size, n)
  PROVE  \E m \in 0 .. n : /\ e[m] = n
                           /\ \A j \in 0 .. m - 1 : e[j] < n
                           /\ {j \in 0 .. n - 1 : e[j] < n} = 0 .. m - 1
                           /\ Growing(e, m)
<1>a. \A x, y \in 0 .. n : \A d \in Nat \ {0} :
         y = AtMost(x + d, n) => /\ y = n \/ y = x + d
                                 /\ x = n => y = n
                                 /\ x < n => x < y
  BY DEF AtMost
<1>e. \A j \in 1 .. n : /\ j \in 0 .. n /\ j - 1 \in 0 .. n
                        /\ e[j] \in 0 .. n /\ e[j - 1] \in 0 .. n
                        /\ e[j] = n \/ e[j] = e[j - 1] + size[j]
                        /\ e[j - 1] = n => e[j] = n
                        /\ e[j - 1] < n => e[j - 1] < e[j]
  <2> TAKE j \in 1 .. n
  <2>1. j \in 0 .. n /\ j - 1 \in 0 .. n
    OBVIOUS
  <2>2. e[j] \in 0 .. n /\ e[j - 1] \in 0 .. n
    BY <2>1
  <2>3. size[j] \in Nat \ {0}
    OBVIOUS
  <2>4. e[j] = AtMost(e[j - 1] + size[j], n)
    BY DEF Advances
  <2> QED
    BY <2>1, <2>2, <2>3, <2>4, <1>a
(* Every step takes at least one host, so after n of them nobody is left.  *)
<1>2. 0 .. n \subseteq {j \in 0 .. n : e[j] >= j}
  <2> DEFINE S == {j \in 0 .. n : e[j] >= j}
  <2>1. 0 \in S
    BY DEF Advances
  <2>2. ASSUME NEW j \in 1 .. n, j - 1 \in S PROVE j \in S
    <3>1. e[j - 1] >= j - 1
      BY <2>2
    <3>2. j \in 0 .. n /\ e[j] \in 0 .. n /\ e[j - 1] \in 0 .. n /\ (e[j - 1] = n => e[j] = n)
          /\ (e[j - 1] < n => e[j - 1] < e[j])
      BY <1>e
    <3>3. \A x, y \in 0 .. n : x >= j - 1 /\ (x = n => y = n) /\ (x < n => x < y) => y >= j
      OBVIOUS
    <3>4. e[j] >= j
      BY <3>1, <3>2, <3>3
    <3> QED
      BY <3>2, <3>4
  <2> HIDE DEF S
  <2>3. 0 .. n \subseteq S
    BY <2>1, <2>2, BoundedInduction
  <2> QED
    BY <2>3 DEF S
<1>3. PICK m \in 0 .. n : e[m] = n /\ \A j \in 0 .. m - 1 : e[j] < n
  <2> DEFINE T == {j \in 0 .. n : e[j] = n}
  <2>1. T \subseteq Nat
    OBVIOUS
  <2>2. n \in T
    <3>1. n \in 0 .. n /\ e[n] \in 0 .. n /\ e[n] >= n
      BY <1>2
    <3> QED
      BY <3>1
  <2>3. PICK m \in T : \A j \in T : m <= j
    <3> HIDE DEF T
    <3> QED
      BY <2>1, <2>2, LeastNumber
  <2>4. \A j \in 0 .. m - 1 : j \in 0 .. n /\ j \notin T
    BY <2>3
  <2>5. \A j \in 0 .. n : e[j] \in 0 .. n
    OBVIOUS
  <2> QED
    BY <2>3, <2>4, <2>5
(* ... and once nobody is left it stays so.                                *)
<1>4. \A j \in m .. n : e[j] = n
  <2> DEFINE S == {j \in 0 .. n : j >= m => e[j] = n}
  <2>1. 0 \in S
    BY <1>3
  <2>2. ASSUME NEW j \in 1 .. n, j - 1 \in S PROVE j \in S
    <3>1. j \in 0 .. n /\ (e[j - 1] = n => e[j] = n)
      BY <1>e
    <3>2. j > m => e[j - 1] = n
      BY <2>2
    <3> QED
      BY <3>1, <3>2, <1>3
  <2> HIDE DEF S
  <2>3. 0 .. n \subseteq S
    BY <2>1, <2>2, BoundedInduction
  <2> QED
    BY <2>3, <1>3 DEF S
<1>5. {j \in 0 .. n - 1 : e[j] < n} = 0 .. m - 1
  <2>1. ASSUME NEW j \in 0 .. n - 1, e[j] < n PROVE j \in 0 .. m - 1
    <3>1. j \in m .. n => e[j] = n
      BY <1>4
    <3> QED
      BY <2>1, <3>1
  <2>2. ASSUME NEW j \in 0 .. m - 1 PROVE j \in 0 .. n - 1 /\ e[j] < n
    BY <1>3
  <2> QED
    BY <2>1, <2>2
<1>6. ASSUME NEW j \in 1 .. m PROVE e[j - 1] < e[j]
  <2>1. j \in 1 .. n /\ j - 1 \in 0 .. m - 1
    BY <1>3
  <2>2. e[j - 1] < n => e[j - 1] < e[j]
    BY <1>e, <2>1
  <2> QED
    BY <2>1, <2>2, <1>3
<1> QED
  BY <1>3, <1>5, <1>6 DEF Growing

(* The batches at given ends.                                              *)
Between(s, e, m) == [j \in 1 .. m |-> SubSeq(s, e[j - 1] + 1, e[j])]
UpTo(e, m) == [j \in 0 .. m |-> e[j]]

LEMMA BatchesAt ==
  ASSUME NEW X, NEW s \in Seq(X), NEW m \in 0 .. Len(s), NEW e \in [0 .. Len(s) -> 0 .. Len(s)],
         e[0] = 0, e[m] = Len(s), Growing(e, m),
         NEW b, b = Between(s, e, m)
  PROVE  b \in Seq(Seq(X)) /\ Len(b) = m /\ CutsAt(b, s, UpTo(e, m))
<1> DEFINE d == UpTo(e, m)
<1>1. ASSUME NEW j \in 1 .. m PROVE SubSeq(s, e[j - 1] + 1, e[j]) \in Seq(X)
  <2>1. j \in 0 .. Len(s) /\ j - 1 \in 0 .. Len(s)
    OBVIOUS
  <2>2. e[j - 1] \in 0 .. Len(s) /\ e[j] \in 0 .. Len(s)
    BY <2>1
  <2>4. \A i \in e[j - 1] + 1 .. e[j] : s[i] \in X
    BY <2>2
  <2> QED
    BY <2>2, <2>4, SubSeqProperties
<1>2. b \in Seq(Seq(X)) /\ Len(b) = m
  <2>1. m \in Nat
    OBVIOUS
  <2> QED
    BY <1>1, <2>1 DEF Between
<1>3. d \in [0 .. m -> 0 .. Len(s)] /\ d[0] = 0 /\ d[m] = Len(s)
  <2>1. 0 \in 0 .. m /\ m \in 0 .. m /\ \A j \in 0 .. m : j \in 0 .. Len(s)
    OBVIOUS
  <2> QED
    BY <2>1 DEF UpTo
<1>4. ASSUME NEW j \in 1 .. m
      PROVE  d[j - 1] < d[j] /\ b[j] = SubSeq(s, d[j - 1] + 1, d[j])
  <2>1. j \in 0 .. m /\ j - 1 \in 0 .. m
    OBVIOUS
  <2>2. d[j - 1] = e[j - 1] /\ d[j] = e[j]
    BY <2>1 DEF UpTo
  <2>3. b[j] = SubSeq(s, e[j - 1] + 1, e[j])
    BY DEF Between
  <2> HIDE DEF d
  <2> QED
    BY <2>2, <2>3 DEF Growing
<1> HIDE DEF d
<1>5. CutsAt(b, s, d)
  BY <1>2, <1>3, <1>4 DEF CutsAt
<1> QED
  BY <1>2, <1>5 DEF d

(* Batch j ends where the size for it says.                                *)
SizedAs(b, s, sizes, e) ==
  \A j \in 1 .. Len(b) : /\ AtMost(j, Len(sizes)) \in 1 .. Len(sizes)
                         /\ e[j] = AtMost(e[j - 1] + sizes[AtMost(j, Len(sizes))], Len(s))
                         /\ j < Len(b) => e[j] < Len(s)

LEMMA CutIs ==
  ASSUME NEW X, NEW s \in Seq(X), NEW sizes \in Seq(Nat \ {0}), sizes # <<>>
  PROVE  /\ Cut(s, sizes) \in Seq(Seq(X))
         /\ \E e : CutsAt(Cut(s, sizes), s, e) /\ SizedAs(Cut(s, sizes), s, sizes, e)
<1> DEFINE n == Len(s)
           size == [j \in 1 .. n |-> sizes[AtMost(j, Len(sizes))]]
           b == Cut(s, sizes)
<1>0. n \in Nat
  OBVIOUS
<1>1. PICK e : /\ e = Ends(n, sizes)
               /\ e \in [0 .. n -> 0 .. n] /\ e[0] = 0
               /\ \A j \in 1 .. n : e[j] = AtMost(e[j - 1] + sizes[AtMost(j, Len(sizes))], n)
               /\ \A j \in 1 .. n : /\ AtMost(j, Len(sizes)) \in 1 .. Len(sizes)
                                    /\ sizes[AtMost(j, Len(sizes))] \in Nat \ {0}
  <2> HIDE DEF n
  <2> QED
    BY <1>0, EndsAre
<1>2. size \in [1 .. n -> Nat \ {0}]
  BY <1>1
<1>3. \A j \in 1 .. n : size[j] = sizes[AtMost(j, Len(sizes))]
  OBVIOUS
<1>4. PICK m \in 0 .. n : /\ e[m] = n
                          /\ \A j \in 0 .. m - 1 : e[j] < n
                          /\ {j \in 0 .. n - 1 : e[j] < n} = 0 .. m - 1
                          /\ Growing(e, m)
  <2>1. Advances(e, size, n) /\ e \in [0 .. n -> 0 .. n]
    BY <1>1, <1>3 DEF Advances
  <2> HIDE DEF size, n, b
  <2> QED
    BY <2>1, <1>0, <1>2, Reach
<1>5. Cardinality({j \in 0 .. n - 1 : e[j] < n}) = m
  <2>1. 0 \in Int /\ m - 1 \in Int /\ m \in Nat
    BY <1>0, <1>4
  <2>2. Cardinality(0 .. m - 1) = IF 0 > m - 1 THEN 0 ELSE (m - 1) - 0 + 1
    BY <2>1, FS_Interval
  <2>3. Cardinality(0 .. m - 1) = m
    BY <2>1, <2>2
  <2> QED
    BY <2>3, <1>4
<1>6. b = Between(s, e, m)
  BY <1>1, <1>5 DEF Cut, Between
<1> DEFINE d == UpTo(e, m)
<1>7. b \in Seq(Seq(X)) /\ Len(b) = m /\ CutsAt(b, s, d)
  <2>1. /\ e \in [0 .. Len(s) -> 0 .. Len(s)] /\ e[0] = 0 /\ m \in 0 .. Len(s) /\ e[m] = Len(s)
        /\ Growing(e, m)
    BY <1>1, <1>4
  <2> HIDE DEF b, size
  <2> QED
    BY <2>1, <1>6, BatchesAt
<1>8. SizedAs(b, s, sizes, d)
  <2> SUFFICES ASSUME NEW j \in 1 .. m
               PROVE  /\ AtMost(j, Len(sizes)) \in 1 .. Len(sizes)
                      /\ d[j] = AtMost(d[j - 1] + sizes[AtMost(j, Len(sizes))], n)
                      /\ j < m => d[j] < n
    <3> HIDE DEF b, d
    <3> QED
      BY <1>7 DEF SizedAs
  <2>1. j \in 1 .. n /\ j \in 0 .. m /\ j - 1 \in 0 .. m /\ (j < m => j \in 0 .. m - 1)
    BY <1>0, <1>4
  <2>2. d[j] = e[j] /\ d[j - 1] = e[j - 1]
    BY <2>1 DEF UpTo
  <2> HIDE DEF d
  <2> QED
    BY <2>1, <2>2, <1>1, <1>4
<1> HIDE DEF b, d
<1> QED
  BY <1>7, <1>8 DEF b

(* Cutting and joining again gives the list back.                          *)
Flattens(f, b) == f = [i \in 1 .. Len(b) |-> IF i = 1 THEN b[i] ELSE f[i - 1] \o b[i]]

LEMMA FlattenCuts ==
  ASSUME NEW X, NEW s \in Seq(X), NEW b \in Seq(Seq(X)), b # <<>>, NEW e, CutsAt(b, s, e)
  PROVE  FlattenSeq(b) = s
<1> DEFINE n == Len(b)
           h == [i \in 1 .. n |-> SubSeq(s, 1, e[i])]
<1>1. n \in Nat \ {0} /\ Len(s) \in Nat
  OBVIOUS
<1>2. \A i \in 1 .. n : /\ i \in 0 .. n /\ i - 1 \in 0 .. n
                        /\ e[i] \in 0 .. Len(s) /\ e[i - 1] \in 0 .. Len(s)
                        /\ e[i - 1] < e[i]
                        /\ b[i] = SubSeq(s, e[i - 1] + 1, e[i])
  <2> TAKE i \in 1 .. n
  <2>1. i \in 0 .. n /\ i - 1 \in 0 .. n
    BY <1>1
  <2>2. e[i] \in 0 .. Len(s) /\ e[i - 1] \in 0 .. Len(s)
    BY <2>1 DEF CutsAt
  <2>3. e[i - 1] < e[i] /\ b[i] = SubSeq(s, e[i - 1] + 1, e[i])
    BY DEF CutsAt
  <2> QED
    BY <2>1, <2>2, <2>3
<1>0. e[0] = 0 /\ e[n] = Len(s)
  BY DEF CutsAt
<1>3. ASSUME NEW i \in 1 .. n
      PROVE  h[i] = IF i = 1 THEN b[i] ELSE h[i - 1] \o b[i]
  <2>1. CASE i = 1
    <3>1. h[i] = SubSeq(s, 1, e[i]) /\ b[i] = SubSeq(s, e[0] + 1, e[i])
      BY <2>1, <1>2
    <3>2. e[0] + 1 = 1
      BY <1>0
    <3> HIDE DEF h
    <3> QED
      BY <2>1, <3>1, <3>2
  <2>2. CASE i # 1
    <3>1. i - 1 \in 1 .. n
      BY <2>2
    <3>2. h[i - 1] = SubSeq(s, 1, e[i - 1]) /\ h[i] = SubSeq(s, 1, e[i])
      BY <3>1
    <3>3. /\ e[i] \in 0 .. Len(s) /\ e[i - 1] \in 0 .. Len(s) /\ e[i - 1] < e[i]
          /\ b[i] = SubSeq(s, e[i - 1] + 1, e[i])
      BY <1>2
    <3>4. 1 \in 1 .. Len(s) + 1 /\ e[i - 1] \in 1 - 1 .. Len(s) /\ e[i] \in e[i - 1] .. Len(s)
      BY <3>3
    <3>5. SubSeq(s, 1, e[i - 1]) \o SubSeq(s, e[i - 1] + 1, e[i]) = SubSeq(s, 1, e[i])
      BY <3>4, ConcatAdjacentSubSeq
    <3> QED
      BY <2>2, <3>2, <3>3, <3>5
  <2> QED
    BY <2>1, <2>2
<1>4. Flattens(h, b)
  BY <1>3 DEF Flattens
<1> HIDE DEF h
<1>5. ASSUME NEW f, Flattens(f, b) PROVE f[n] = h[n]
  <2> DEFINE S == {i \in 0 .. n : i # 0 => f[i] = h[i]}
  <2>1. \A i \in 1 .. n : f[i] = IF i = 1 THEN b[i] ELSE f[i - 1] \o b[i]
    BY <1>5 DEF Flattens
  <2>2. \A i \in 1 .. n : h[i] = IF i = 1 THEN b[i] ELSE h[i - 1] \o b[i]
    BY <1>3
  <2>3. ASSUME NEW i \in 1 .. n, i - 1 \in S PROVE i \in S
    <3>1. i \in 0 .. n /\ (i # 1 => f[i - 1] = h[i - 1])
      BY <2>3
    <3>2. f[i] = IF i = 1 THEN b[i] ELSE f[i - 1] \o b[i]
      BY <2>1
    <3>3. h[i] = IF i = 1 THEN b[i] ELSE h[i - 1] \o b[i]
      BY <2>2
    <3> QED
      BY <3>1, <3>2, <3>3
  <2>4. 0 .. n \subseteq S
    <3>1. 0 \in S
      BY <1>1
    <3> HIDE DEF S
    <3> QED
      BY <3>1, <2>3, <1>1, BoundedInduction
  <2> QED
    BY <2>4, <1>1
<1>6. FlattenSeq(b) = (CHOOSE f : Flattens(f, b))[n]
  BY <1>1 DEF FlattenSeq, Flattens
<1>7. FlattenSeq(b) = h[n]
  BY <1>4, <1>5, <1>6
<1> QED
  <2>1. h[n] = SubSeq(s, 1, Len(s))
    BY <1>0, <1>1 DEF h
  <2> QED
    BY <1>7, <2>1

(* One host of its own before a cut of the others is a cut too.            *)
LEMMA CanaryCuts ==
  ASSUME NEW X, NEW s \in Seq(X), s # <<>>, NEW b \in Seq(Seq(X)), NEW e,
         CutsAt(b, Tail(s), e),
         NEW c, c = <<SubSeq(s, 1, 1)>> \o b
  PROVE  c \in Seq(Seq(X)) /\ Len(c) = Len(b) + 1 /\ IsCut(c, s)
<1> DEFINE n == Len(b)
           d == [j \in 0 .. Len(c) |-> IF j = 0 THEN 0 ELSE e[j - 1] + 1]
<1>1. n \in Nat /\ Len(s) \in Nat \ {0} /\ Len(Tail(s)) = Len(s) - 1 /\ Tail(s) \in Seq(X)
      /\ \A i \in 1 .. Len(s) - 1 : Tail(s)[i] = s[i + 1]
  BY HeadTailProperties, EmptySeq
<1>2. SubSeq(s, 1, 1) \in Seq(X)
  <2>1. \A i \in 1 .. 1 : s[i] \in X
    BY <1>1
  <2> QED
    BY <2>1, SubSeqProperties
<1>3. /\ c \in Seq(Seq(X)) /\ Len(c) = n + 1
      /\ c[1] = SubSeq(s, 1, 1) /\ \A j \in 1 .. n : c[j + 1] = b[j]
  <2> DEFINE one == <<SubSeq(s, 1, 1)>>
  <2>1. one \in Seq(Seq(X)) /\ Len(one) = 1 /\ one[1] = SubSeq(s, 1, 1)
    BY <1>2
  <2> HIDE DEF one
  <2>c. /\ one \o b \in Seq(Seq(X)) /\ Len(one \o b) = Len(one) + Len(b)
        /\ \A i \in 1 .. Len(one) + Len(b) :
              (one \o b)[i] = IF i <= Len(one) THEN one[i] ELSE b[i - Len(one)]
    BY <2>1, ConcatProperties
  <2>2. /\ one \o b \in Seq(Seq(X)) /\ Len(one \o b) = 1 + n
        /\ \A i \in 1 .. 1 + n : (one \o b)[i] = IF i <= 1 THEN one[i] ELSE b[i - 1]
    BY <2>1, <2>c
  <2>3. (one \o b)[1] = one[1]
    BY <2>2, <1>1
  <2>4. ASSUME NEW j \in 1 .. n PROVE (one \o b)[j + 1] = b[j]
    <3>1. j + 1 \in 1 .. 1 + n /\ ~(j + 1 <= 1) /\ (j + 1) - 1 = j
      BY <1>1
    <3> QED
      BY <3>1, <2>2
  <2> QED
    BY <2>1, <2>2, <2>3, <2>4, <1>1 DEF one
<1>4. e \in [0 .. n -> 0 .. Len(s) - 1] /\ e[0] = 0 /\ e[n] = Len(s) - 1
  BY <1>1 DEF CutsAt
<1>5. \A j \in 1 .. n + 1 : j - 1 \in 0 .. n /\ d[j] = e[j - 1] + 1 /\ e[j - 1] \in 0 .. Len(s) - 1
  <2> TAKE j \in 1 .. n + 1
  <2>1. j - 1 \in 0 .. n /\ j \in 0 .. n + 1 /\ j # 0
    BY <1>1
  <2>2. d[j] = e[j - 1] + 1
    BY <2>1, <1>3
  <2>3. e[j - 1] \in 0 .. Len(s) - 1
    BY <2>1, <1>4
  <2> HIDE DEF d
  <2> QED
    BY <2>1, <2>2, <2>3
<1>6. d[0] = 0 /\ d[1] = 1 /\ d[n + 1] = Len(s)
  <2>1. d[0] = 0
    BY <1>1, <1>3
  <2>2. 1 \in 1 .. n + 1 /\ n + 1 \in 1 .. n + 1 /\ (n + 1) - 1 = n /\ 1 - 1 = 0
    BY <1>1
  <2>3. d[1] = e[0] + 1 /\ d[n + 1] = e[n] + 1
    BY <2>2, <1>5
  <2> HIDE DEF d
  <2> QED
    BY <2>1, <2>3, <1>1, <1>4
<1>7. d \in [0 .. Len(c) -> 0 .. Len(s)]
  <2>1. ASSUME NEW j \in 0 .. n + 1 PROVE (IF j = 0 THEN 0 ELSE e[j - 1] + 1) \in 0 .. Len(s)
    <3>1. j # 0 => j \in 1 .. n + 1
      BY <1>1
    <3>2. j # 0 => e[j - 1] \in 0 .. Len(s) - 1
      BY <3>1, <1>5
    <3> QED
      BY <3>2, <1>1
  <2> QED
    BY <2>1, <1>3
<1>8. ASSUME NEW j \in 1 .. n + 1
      PROVE  d[j - 1] < d[j] /\ c[j] = SubSeq(s, d[j - 1] + 1, d[j])
  <2>1. CASE j = 1
    <3>1. d[j - 1] = 0 /\ d[j] = 1 /\ d[j - 1] + 1 = 1
      BY <2>1, <1>6
    <3> HIDE DEF d
    <3> QED
      BY <2>1, <3>1, <1>3
  <2>2. CASE j # 1
    <3> DEFINE i == j - 1
    <3>1. i \in 1 .. n /\ j = i + 1 /\ i \in 1 .. n + 1 /\ i - 1 \in 0 .. n /\ i \in 0 .. n
      BY <2>2, <1>1
    <3>2. d[j] = e[i] + 1 /\ d[i] = e[i - 1] + 1
      BY <3>1, <1>5
    <3>3. e[i] \in 0 .. Len(s) - 1 /\ e[i - 1] \in 0 .. Len(s) - 1
      BY <3>1, <1>4
    <3>4. e[i - 1] < e[i] /\ b[i] = SubSeq(Tail(s), e[i - 1] + 1, e[i])
      BY <3>1 DEF CutsAt
    <3>5. c[j] = b[i]
      BY <3>1, <1>3
    <3>6. \A x \in 0 .. Len(s) - 1 : \A y \in 0 .. Len(s) - 1 :
            SubSeq(Tail(s), x + 1, y) = SubSeq(s, (x + 1) + 1, y + 1)
      <4> TAKE x \in 0 .. Len(s) - 1
      <4> TAKE y \in 0 .. Len(s) - 1
      <4>1. \A l \in 1 .. y - x : /\ (x + 1) + l - 1 \in 1 .. Len(s) - 1
                                  /\ ((x + 1) + 1) + l - 1 = ((x + 1) + l - 1) + 1
        BY <1>1
      <4>2. \A l \in 1 .. y - x : Tail(s)[(x + 1) + l - 1] = s[((x + 1) + 1) + l - 1]
        BY <4>1, <1>1
      <4>3. y - (x + 1) + 1 = y - x /\ (y + 1) - ((x + 1) + 1) + 1 = y - x
        BY <1>1
      <4> QED
        BY <4>2, <4>3
    <3>7. b[i] = SubSeq(s, (e[i - 1] + 1) + 1, e[i] + 1)
      BY <3>3, <3>4, <3>6
    <3>8. e[i - 1] + 1 < e[i] + 1
      BY <3>3, <3>4
    <3> HIDE DEF d
    <3>9. d[j - 1] = e[i - 1] + 1 /\ d[j] = e[i] + 1
      BY <3>2
    <3>10. SubSeq(s, d[j - 1] + 1, d[j]) = SubSeq(s, (e[i - 1] + 1) + 1, e[i] + 1)
      BY <3>9
    <3> HIDE DEF i
    <3> QED
      BY <3>5, <3>7, <3>8, <3>9, <3>10
  <2> QED
    BY <2>1, <2>2
<1> HIDE DEF d
<1>9. CutsAt(c, s, d)
  BY <1>1, <1>3, <1>6, <1>7, <1>8 DEF CutsAt
<1> QED
  BY <1>3, <1>9 DEF IsCut

-----------------------------------------------------------------------------
(* A percentage of the hosts, rounded up and at least 1: x is 100 times it.*)
LEMMA Percent ==
  ASSUME NEW x \in Nat
  PROVE  AtLeast((x + 99) \div 100, 1) = CHOOSE s \in 1 .. x + 1 : /\ 100 * s >= x
                                                                   /\ \A r \in 1 .. s - 1 : 100 * r < x
<1> DEFINE p(s) == 100 * s >= x /\ \A r \in 1 .. s - 1 : 100 * r < x
           s0 == AtLeast((x + 99) \div 100, 1)
<1>1. /\ (x + 99) \div 100 \in Nat /\ 100 * ((x + 99) \div 100) >= x
      /\ 100 * (((x + 99) \div 100) - 1) < x \/ x = 0
      /\ (x + 99) \div 100 <= x
  OBVIOUS
<1>2. s0 \in 1 .. x + 1 /\ p(s0)
  <2> DEFINE q == (x + 99) \div 100
  <2> HIDE DEF q
  <2>1. q \in Nat /\ 100 * q >= x /\ (100 * (q - 1) < x \/ x = 0) /\ q <= x
    BY <1>1 DEF q
  <2>2. AtLeast(q, 1) \in 1 .. x + 1 /\ p(AtLeast(q, 1))
    BY <2>1 DEF AtLeast
  <2> QED
    BY <2>2 DEF q
<1>3. \A s, r \in 1 .. x + 1 : p(s) /\ p(r) => s = r
  <2> SUFFICES ASSUME NEW s \in 1 .. x + 1, NEW r \in 1 .. x + 1, p(s), p(r), s < r PROVE FALSE
    OBVIOUS
  <2>1. s \in 1 .. r - 1
    OBVIOUS
  <2> QED
    BY <2>1
<1> HIDE DEF p, s0
<1>4. s0 = CHOOSE s \in 1 .. x + 1 : p(s)
  BY <1>2, <1>3
<1> QED
  BY <1>4 DEF p, s0

(* A quarter of the hosts, rounded up.                                     *)
LEMMA Quarter ==
  ASSUME NEW n \in Nat \ {0}
  PROVE  DefaultBatchSize(n) = CHOOSE s \in 1 .. n : IF n < 4 THEN s = n
                                          ELSE 4 * s >= n /\ 4 * (s - 1) < n
<1> DEFINE p(s) == IF n < 4 THEN s = n ELSE 4 * s >= n /\ 4 * (s - 1) < n
<1>1. /\ (n + 3) \div 4 \in Nat /\ 4 * ((n + 3) \div 4) >= n
      /\ 4 * (((n + 3) \div 4) - 1) < n /\ (n + 3) \div 4 <= n
  OBVIOUS
<1>2. DefaultBatchSize(n) \in 1 .. n /\ p(DefaultBatchSize(n))
  <2> DEFINE q == (n + 3) \div 4
  <2> HIDE DEF q
  <2>1. q \in Nat /\ 4 * q >= n /\ 4 * (q - 1) < n /\ q <= n
    BY <1>1 DEF q
  <2>2. DefaultBatchSize(n) = IF n < 4 THEN n ELSE q
    BY DEF DefaultBatchSize, q
  <2> QED
    BY <2>1, <2>2
<1>3. \A s, r \in 1 .. n : p(s) /\ p(r) => s = r
  OBVIOUS
<1> HIDE DEF p
<1>4. DefaultBatchSize(n) = CHOOSE s \in 1 .. n : p(s)
  BY <1>2, <1>3
<1> QED
  BY <1>4 DEF p

(* A size is what the documentation says of it, and at least one host.     *)
LEMMA SizeAsMeant ==
  ASSUME NEW total \in Nat \ {0}, NEW e, e.n \in Int
  PROVE  ParseBatchSize(e, total) = Meant(e, total) /\ ParseBatchSize(e, total) \in Nat \ {0}
<1>1. CASE e.kind = "percent" /\ e.n >= 0
  <2> DEFINE x == total * e.n
  <2>1. x \in Nat
    BY <1>1
  <2>2. ParseBatchSize(e, total) = AtLeast((x + 99) \div 100, 1)
    BY <1>1 DEF ParseBatchSize
  <2>3. Meant(e, total) = CHOOSE s \in 1 .. x + 1 : /\ 100 * s >= x
                                                    /\ \A r \in 1 .. s - 1 : 100 * r < x
    BY <1>1 DEF Meant
  <2> HIDE DEF x
  <2>4. Meant(e, total) = AtLeast((x + 99) \div 100, 1)
    BY <2>1, <2>3, Percent
  <2>5. AtLeast((x + 99) \div 100, 1) \in Nat \ {0}
    BY <2>1 DEF AtLeast
  <2> QED
    BY <2>2, <2>4, <2>5
<1>2. CASE e.kind = "count" /\ e.n >= 1
  BY <1>2 DEF ParseBatchSize, Meant, AtMost
<1>3. CASE ~(e.kind = "percent" /\ e.n >= 0) /\ ~(e.kind = "count" /\ e.n >= 1)
  <2>1. ParseBatchSize(e, total) = DefaultBatchSize(total)
    BY <1>3 DEF ParseBatchSize
  <2>2. Meant(e, total) = CHOOSE s \in 1 .. total : IF total < 4 THEN s = total
                                          ELSE 4 * s >= total /\ 4 * (s - 1) < total
    BY <1>3 DEF Meant
  <2>3. DefaultBatchSize(total) \in Nat \ {0}
    BY DEF DefaultBatchSize
  <2> QED
    BY <2>1, <2>2, <2>3, Quarter
<1> QED
  BY <1>1, <1>2, <1>3

-----------------------------------------------------------------------------
(* The batches of a play.                                                  *)


LEMMA CutNotEmpty ==
  ASSUME NEW X, NEW s \in Seq(X), NEW b \in Seq(Seq(X)), IsCut(b, s), s # <<>>
  PROVE  b # <<>>
<1>1. PICK e : CutsAt(b, s, e)
  BY DEF IsCut
<1>2. e[0] = 0 /\ e[Len(b)] = Len(s)
  BY <1>1 DEF CutsAt
<1>3. Len(s) # 0
  BY EmptySeq
<1> QED
  BY <1>2, <1>3

(* As many hosts in each batch as its size says, the last one at most.     *)
Sized(b, sizes) ==
  \A j \in 1 .. Len(b) : /\ AtMost(j, Len(sizes)) \in 1 .. Len(sizes)
                         /\ Len(b[j]) \in 1 .. sizes[AtMost(j, Len(sizes))]
                         /\ j < Len(b) => Len(b[j]) = sizes[AtMost(j, Len(sizes))]
EvenlySized(b, size) ==
  \A j \in 1 .. Len(b) : /\ Len(b[j]) \in 1 .. size
                         /\ j < Len(b) => Len(b[j]) = size

LEMMA CutSizes ==
  ASSUME NEW X, NEW s \in Seq(X), NEW sizes \in Seq(Nat \ {0}), sizes # <<>>,
         NEW b, b = Cut(s, sizes)
  PROVE  /\ b \in Seq(Seq(X)) /\ IsCut(b, s)
         /\ Sized(b, sizes)
<1>1. b \in Seq(Seq(X)) /\ Len(b) \in Nat /\ \E e : CutsAt(b, s, e) /\ SizedAs(b, s, sizes, e)
  BY CutIs
<1>2. PICK e : CutsAt(b, s, e) /\ SizedAs(b, s, sizes, e)
  BY <1>1
<1>3. ASSUME NEW j \in 1 .. Len(b)
      PROVE  /\ AtMost(j, Len(sizes)) \in 1 .. Len(sizes)
             /\ Len(b[j]) \in 1 .. sizes[AtMost(j, Len(sizes))]
             /\ j < Len(b) => Len(b[j]) = sizes[AtMost(j, Len(sizes))]
  <2>1. j \in 0 .. Len(b) /\ j - 1 \in 0 .. Len(b)
    BY <1>1
  <2>2. PICK x \in 0 .. Len(s), y \in 0 .. Len(s) : x = e[j - 1] /\ y = e[j]
    BY <2>1, <1>2 DEF CutsAt
  <2>3. x < y /\ b[j] = SubSeq(s, x + 1, y)
    BY <1>2, <2>2 DEF CutsAt
  <2>4. AtMost(j, Len(sizes)) \in 1 .. Len(sizes)
    BY <1>2 DEF SizedAs
  <2>5. PICK d \in Nat \ {0} : d = sizes[AtMost(j, Len(sizes))]
    BY <2>4
  <2>6. y = AtMost(x + d, Len(s)) /\ (j < Len(b) => y < Len(s))
    BY <1>2, <2>2, <2>5 DEF SizedAs
  <2>7. Len(b[j]) = y - x
    <3>1. \A i \in x + 1 .. y : s[i] \in X
      OBVIOUS
    <3>2. Len(SubSeq(s, x + 1, y)) = IF x + 1 <= y THEN y - (x + 1) + 1 ELSE 0
      BY <3>1, SubSeqProperties
    <3> QED
      BY <3>2, <2>3
  <2>8. y - x \in 1 .. d /\ (j < Len(b) => y - x = d)
    BY <2>3, <2>6 DEF AtMost
  <2> QED
    BY <2>4, <2>5, <2>7, <2>8
<1>4. IsCut(b, s)
  BY <1>2 DEF IsCut
<1> QED
  BY <1>1, <1>3, <1>4 DEF Sized

LEMMA ChunkSizes ==
  ASSUME NEW X, NEW s \in Seq(X), NEW size \in Nat \ {0}, NEW b, b = ChunkHosts(s, size)
  PROVE  /\ b \in Seq(Seq(X)) /\ IsCut(b, s)
         /\ EvenlySized(b, size)
<1> DEFINE sizes == <<size>>
<1>1. sizes \in Seq(Nat \ {0}) /\ sizes # <<>> /\ Len(sizes) = 1 /\ sizes[1] = size
  OBVIOUS
<1>2. b = Cut(s, sizes)
  BY DEF ChunkHosts, AtLeast
<1> HIDE DEF sizes
<1>3. /\ b \in Seq(Seq(X)) /\ IsCut(b, s)
      /\ Sized(b, sizes)
  BY <1>1, <1>2, CutSizes
<1>4. \A j \in 1 .. Len(b) : sizes[AtMost(j, Len(sizes))] = size
  BY <1>1, <1>3 DEF Sized
<1> QED
  BY <1>3, <1>4 DEF Sized, EvenlySized

(* The batches of a play cut its hosts, and each has the size asked for.   *)
SizesAsked(b, s, strategy, batch, serial) ==
  \A i \in 1 .. Len(b) : /\ Len(b[i]) \in 1 .. AskedSize(s, strategy, batch, serial, i)
                         /\ i < Len(b) => Len(b[i]) = AskedSize(s, strategy, batch, serial, i)

LEMMA MainBatchesAre ==
  ASSUME NEW X, NEW s \in Seq(X), s # <<>>, NEW strategy, NEW batch \in SizeExprs,
         NEW serial \in Seq(SizeExprs), NEW b, b = MainBatches(s, strategy, batch, serial)
  PROVE  /\ b \in Seq(Seq(X)) /\ IsCut(b, s)
         /\ SizesAsked(b, s, strategy, batch, serial)
<1> DEFINE n == Len(s)
           size == ParseBatchSize(batch, n)
<1>1. n \in Nat \ {0}
  BY EmptySeq
<1>2. size = Meant(batch, n) /\ size \in Nat \ {0}
  <2>1. batch.n \in Int
    BY DEF SizeExprs
  <2> QED
    BY <2>1, <1>1, SizeAsMeant
<1> HIDE DEF size
<1>3. CASE strategy = "none" /\ serial = <<>>
  <2>1. b = <<s>>
    BY <1>3 DEF MainBatches, SplitBatches
  <2>2. b \in Seq(Seq(X)) /\ Len(b) = 1 /\ b[1] = s
    BY <2>1
  <2>3. CutsAt(b, s, [j \in 0 .. 1 |-> IF j = 0 THEN 0 ELSE n])
    <3> DEFINE e == [j \in 0 .. 1 |-> IF j = 0 THEN 0 ELSE n]
    <3>1. e \in [0 .. 1 -> 0 .. n] /\ e[0] = 0 /\ e[1] = n
      BY <1>1
    <3>2. SubSeq(s, 0 + 1, n) = s
      OBVIOUS
    <3>3. ASSUME NEW j \in 1 .. 1 PROVE e[j - 1] < e[j] /\ b[j] = SubSeq(s, e[j - 1] + 1, e[j])
      <4>1. j = 1 /\ e[j - 1] = 0 /\ e[j] = n
        BY <3>1
      <4> HIDE DEF e
      <4> QED
        BY <4>1, <3>2, <2>2, <1>1
    <3> HIDE DEF e
    <3>4. CutsAt(b, s, e)
      BY <3>1, <3>3, <2>2 DEF CutsAt
    <3> QED
      BY <3>4 DEF e
  <2>4. IsCut(b, s)
    BY <2>3 DEF IsCut
  <2>5. \A i \in 1 .. 1 : AskedSize(s, strategy, batch, serial, i) = n
    BY <1>3 DEF AskedSize
  <2>6. \A i \in 1 .. 1 : Len(b[i]) = n
    BY <2>2
  <2> QED
    BY <2>2, <2>4, <2>5, <2>6, <1>1 DEF SizesAsked
<1>4. CASE strategy = "none" /\ serial # <<>>
  <2> DEFINE sizes == [i \in DOMAIN serial |-> ParseBatchSize(serial[i], n)]
  <2>1. \A i \in 1 .. Len(serial) : /\ ParseBatchSize(serial[i], n) = Meant(serial[i], n)
                                    /\ ParseBatchSize(serial[i], n) \in Nat \ {0}
    <3> TAKE i \in 1 .. Len(serial)
    <3>0. serial[i] \in SizeExprs
      OBVIOUS
    <3>1. serial[i].n \in Int
      BY <3>0 DEF SizeExprs
    <3> QED
      BY <3>1, <1>1, SizeAsMeant
  <2>2. sizes \in Seq(Nat \ {0}) /\ Len(sizes) = Len(serial) /\ sizes # <<>>
    BY <2>1, <1>4
  <2>3. \A i \in 1 .. Len(serial) : sizes[i] = Meant(serial[i], n)
    BY <2>1
  <2>4. b = Cut(s, sizes)
    BY <1>4 DEF MainBatches, SplitBatches
  <2>5. \A i : AskedSize(s, strategy, batch, serial, i) = Meant(serial[AtMost(i, Len(serial))], n)
    BY <1>4 DEF AskedSize
  <2> HIDE DEF sizes, n
  <2>6. /\ b \in Seq(Seq(X)) /\ IsCut(b, s)
        /\ Sized(b, sizes)
    BY <2>2, <2>4, CutSizes
  <2>7. \A j \in 1 .. Len(b) : sizes[AtMost(j, Len(sizes))] = AskedSize(s, strategy, batch, serial, j)
    BY <2>2, <2>3, <2>5, <2>6 DEF Sized
  <2> QED
    BY <2>6, <2>7 DEF SizesAsked, Sized
<1>5. CASE strategy = "canary" /\ Len(s) > 1
  <2> DEFINE rest == ChunkHosts(Tail(s), size)
             one == <<SubSeq(s, 1, 1)>>
  <2>1. b = one \o rest
    BY <1>5 DEF MainBatches, size
  <2>2. Tail(s) \in Seq(X)
    BY HeadTailProperties
  <2>3. /\ rest \in Seq(Seq(X)) /\ IsCut(rest, Tail(s))
        /\ EvenlySized(rest, size)
    BY <1>2, <2>2, ChunkSizes
  <2> HIDE DEF rest
  <2>4. PICK e : CutsAt(rest, Tail(s), e)
    BY <2>3 DEF IsCut
  <2>5. b \in Seq(Seq(X)) /\ Len(b) = Len(rest) + 1 /\ IsCut(b, s)
    BY <2>1, <2>3, <2>4, CanaryCuts
  <2>7. one \in Seq(Seq(X)) /\ Len(one) = 1 /\ Len(one[1]) = 1
    <3>1. \A i \in 1 .. 1 : s[i] \in X
      BY <1>1
    <3>2. SubSeq(s, 1, 1) \in Seq(X) /\ Len(SubSeq(s, 1, 1)) = 1
      BY <3>1, SubSeqProperties
    <3> QED
      BY <3>2
  <2> HIDE DEF one
  <2>8. \A i \in 1 .. Len(one) + Len(rest) :
          (one \o rest)[i] = IF i <= Len(one) THEN one[i] ELSE rest[i - Len(one)]
    BY <2>3, <2>7, ConcatProperties
  <2>9. ASSUME NEW i \in 1 .. Len(b)
        PROVE  /\ Len(b[i]) \in 1 .. AskedSize(s, strategy, batch, serial, i)
               /\ i < Len(b) => Len(b[i]) = AskedSize(s, strategy, batch, serial, i)
    <3>1. AskedSize(s, strategy, batch, serial, i) = IF i = 1 THEN 1 ELSE size
      BY <1>2, <1>5 DEF AskedSize
    <3>2. CASE i = 1
      BY <3>1, <3>2, <2>1, <2>3, <2>5, <2>7, <2>8 DEF EvenlySized
    <3>3. CASE i # 1
      <4>1. i - 1 \in 1 .. Len(rest) /\ (i < Len(b) => i - 1 < Len(rest))
        BY <3>3, <2>3, <2>5
      <4>2. b[i] = rest[i - 1]
        BY <4>1, <3>3, <2>1, <2>3, <2>5, <2>7, <2>8
      <4> QED
        BY <4>1, <4>2, <3>1, <3>3, <2>3 DEF EvenlySized
    <3> QED
      BY <3>2, <3>3
  <2> QED
    BY <2>5, <2>9 DEF SizesAsked
<1>6. CASE strategy # "none" /\ ~(strategy = "canary" /\ Len(s) > 1)
  <2>1. b = ChunkHosts(s, size)
    BY <1>6 DEF MainBatches, size
  <2>2. \A i : AskedSize(s, strategy, batch, serial, i) = size
    BY <1>2, <1>6 DEF AskedSize
  <2>3. /\ b \in Seq(Seq(X)) /\ IsCut(b, s)
        /\ EvenlySized(b, size)
    BY <1>2, <2>1, ChunkSizes
  <2> QED
    BY <2>2, <2>3 DEF SizesAsked, EvenlySized
<1> QED
  BY <1>3, <1>4, <1>5, <1>6

(* The hosts of a play, cut under every strategy, batch size and serial:    *)
(* joined again they are the hosts in their order, nobody left out and      *)
(* nobody twice, and every batch has the size its expression means (which   *)
(* a run checks of the hosts of its inventories).                          *)
THEOREM BatchesAreAsAsked ==
  ASSUME NEW X, NEW s \in Seq(X), NEW strategy, NEW batch \in SizeExprs,
         NEW serial \in Seq(SizeExprs)
  PROVE  AsAsked(s, strategy, batch, serial)
<1> DEFINE b == MainBatches(s, strategy, batch, serial)
<1> SUFFICES ASSUME s # <<>>
             PROVE  /\ FlattenSeq(b) = s
                    /\ \A i \in DOMAIN b :
                         /\ Len(b[i]) \in 1 .. AskedSize(s, strategy, batch, serial, i)
                         /\ i < Len(b) => Len(b[i]) = AskedSize(s, strategy, batch, serial, i)
  BY DEF AsAsked
<1> HIDE DEF b
<1>1. b \in Seq(Seq(X)) /\ IsCut(b, s) /\ SizesAsked(b, s, strategy, batch, serial)
  BY MainBatchesAre DEF b
<1>2. b # <<>> /\ DOMAIN b = 1 .. Len(b)
  BY <1>1, CutNotEmpty
<1>3. FlattenSeq(b) = s
  BY <1>1, <1>2, FlattenCuts DEF IsCut
<1> QED
  BY <1>1, <1>2, <1>3 DEF SizesAsked

-----------------------------------------------------------------------------
(* The order of the hosts over the batches, when no host is listed twice.  *)
Ordered(b, s) ==
  /\ \A q \in 1 .. Len(b) : ToSet(b[q]) \subseteq ToSet(s)
  /\ \A i \in 1 .. Len(s) : \E q \in 1 .. Len(b) : s[i] \in ToSet(b[q])
  /\ \A p, q \in 1 .. Len(b) : \A i, j \in 1 .. Len(s) :
       s[i] \in ToSet(b[p]) /\ s[j] \in ToSet(b[q]) /\ p < q => i < j

(* The first batch of a canary rollout is one host, if there are more.      *)
CanaryFirst(b, s, strategy) ==
  strategy = "canary" /\ Len(s) > 1 => Len(b) >= 1 /\ \A x : x \in ToSet(b[1]) <=> x = s[1]

LEMMA MemberOfSeq ==
  ASSUME NEW X, NEW c \in Seq(X)
  PROVE  \A v : v \in ToSet(c) <=> \E l \in 1 .. Len(c) : v = c[l]
  BY DEF ToSet

LEMMA CutOrdered ==
  ASSUME NEW X, NEW s \in Seq(X), IsInjective(s), NEW b \in Seq(Seq(X)), IsCut(b, s)
  PROVE  Ordered(b, s)
<1> DEFINE n == Len(b)
<1>0. n \in Nat /\ Len(s) \in Nat
  OBVIOUS
<1>1. PICK e : CutsAt(b, s, e)
  BY DEF IsCut
<1>2. e \in [0 .. n -> 0 .. Len(s)] /\ e[0] = 0 /\ e[n] = Len(s)
  BY <1>1 DEF CutsAt
<1>3. \A q \in 1 .. n : e[q - 1] < e[q] /\ b[q] = SubSeq(s, e[q - 1] + 1, e[q])
  BY <1>1 DEF CutsAt
<1>n. \A q \in 0 .. n : e[q] \in Nat
  <2> TAKE q \in 0 .. n
  <2>1. e[q] \in 0 .. Len(s)
    BY <1>2
  <2> QED
    BY <2>1
(* What is in batch q is what lies between its ends.                       *)
<1>4. ASSUME NEW q \in 1 .. n
      PROVE  /\ ToSet(b[q]) \subseteq ToSet(s)
             /\ \A i \in 1 .. Len(s) : s[i] \in ToSet(b[q]) <=> e[q - 1] < i /\ i <= e[q]
  <2>1. q \in 0 .. n /\ q - 1 \in 0 .. n
    OBVIOUS
  <2>2. PICK x \in 0 .. Len(s), y \in 0 .. Len(s) : x = e[q - 1] /\ y = e[q]
    BY <1>2, <2>1
  <2>3. x < y /\ b[q] = SubSeq(s, x + 1, y)
    BY <1>3, <2>2
  <2> DEFINE c == SubSeq(s, x + 1, y)
  <2>4. /\ c \in Seq(X) /\ Len(c) = y - x
        /\ \A l \in 1 .. y - x : c[l] = s[x + l]
    <3>1. \A i \in x + 1 .. y : s[i] \in X
      OBVIOUS
    <3>2. /\ c \in Seq(X)
          /\ Len(c) = IF x + 1 <= y THEN y - (x + 1) + 1 ELSE 0
          /\ \A l \in 1 .. y - (x + 1) + 1 : c[l] = s[(x + 1) + l - 1]
      BY <3>1, SubSeqProperties
    <3>3. Len(c) = y - x /\ y - (x + 1) + 1 = y - x /\ \A l \in 1 .. y - x : (x + 1) + l - 1 = x + l
      BY <3>2, <2>3
    <3> HIDE DEF c
    <3> QED
      BY <3>2, <3>3
  <2> HIDE DEF c
  <2>5. \A v : v \in ToSet(c) <=> \E l \in 1 .. y - x : v = c[l]
    BY <2>4, MemberOfSeq
  <2>6. \A v : v \in ToSet(c) <=> \E i \in x + 1 .. y : v = s[i]
    <3>1. ASSUME NEW l \in 1 .. y - x PROVE \E i \in x + 1 .. y : c[l] = s[i]
      <4>1. x + l \in x + 1 .. y /\ c[l] = s[x + l]
        BY <2>4
      <4> QED
        BY <4>1
    <3>2. ASSUME NEW i \in x + 1 .. y PROVE \E l \in 1 .. y - x : s[i] = c[l]
      <4>1. i - x \in 1 .. y - x /\ x + (i - x) = i
        OBVIOUS
      <4>2. c[i - x] = s[x + (i - x)]
        BY <4>1, <2>4
      <4> QED
        BY <4>1, <4>2
    <3> TAKE v
    <3>3. ASSUME v \in ToSet(c) PROVE \E i \in x + 1 .. y : v = s[i]
      <4>1. PICK l \in 1 .. y - x : v = c[l]
        BY <3>3, <2>5
      <4> QED
        BY <4>1, <3>1
    <3>4. ASSUME NEW i \in x + 1 .. y, v = s[i] PROVE v \in ToSet(c)
      <4>1. PICK l \in 1 .. y - x : s[i] = c[l]
        BY <3>2
      <4> QED
        BY <3>4, <4>1, <2>5
    <3> QED
      BY <3>3, <3>4
  <2>7. \A v : v \in ToSet(s) <=> \E i \in 1 .. Len(s) : v = s[i]
    BY MemberOfSeq
  <2>8. \A i \in x + 1 .. y : i \in 1 .. Len(s)
    OBVIOUS
  <2>9. ASSUME NEW i \in 1 .. Len(s) PROVE s[i] \in ToSet(c) <=> x < i /\ i <= y
    <3>1. ASSUME NEW l \in x + 1 .. y, s[i] = s[l] PROVE i = l
      BY <3>1, <2>8 DEF IsInjective
    <3> QED
      BY <2>6, <3>1
  <2> QED
    BY <2>2, <2>3, <2>6, <2>7, <2>8, <2>9 DEF c
(* The ends grow.                                                          *)
<1>5. ASSUME NEW p \in 0 .. n, NEW q \in 0 .. n, p <= q PROVE e[p] <= e[q]
  <2> DEFINE S == {l \in 0 .. n : p <= l => e[p] <= e[l]}
  <2>1. 0 \in S
    BY <1>2
  <2>2. ASSUME NEW l \in 1 .. n, l - 1 \in S PROVE l \in S
    <3>a. l \in 0 .. n /\ l - 1 \in 0 .. n
      BY <1>0
    <3>b. e[p] \in Nat /\ e[l] \in Nat /\ e[l - 1] \in Nat
      BY <1>n, <3>a
    <3>1. l \in 0 .. n /\ l - 1 \in 0 .. n /\ e[l - 1] < e[l] /\ e[p] \in Nat /\ e[l] \in Nat /\ e[l - 1] \in Nat
      BY <1>3, <3>a, <3>b
    <3>2. p <= l - 1 => e[p] <= e[l - 1]
      BY <2>2
    <3>3. p <= l /\ p # l => p <= l - 1
      BY <3>1
    <3>4. p <= l => e[p] <= e[l]
      BY <3>1, <3>2, <3>3
    <3> QED
      BY <3>1, <3>4
  <2> HIDE DEF S
  <2>3. q \in S
    BY <2>1, <2>2, <1>0, BoundedInduction
  <2> QED
    BY <2>3, <1>5 DEF S
<1>6. ASSUME NEW i \in 1 .. Len(s) PROVE \E q \in 1 .. n : s[i] \in ToSet(b[q])
  <2> DEFINE T == {q \in 0 .. n : i <= e[q]}
  <2>1. T \subseteq Nat /\ n \in T
    BY <1>0, <1>2
  <2>2. PICK q \in T : \A l \in T : q <= l
    <3> HIDE DEF T
    <3> QED
      BY <2>1, LeastNumber
  <2>3. q \in 1 .. n /\ q - 1 \in 0 .. n
    BY <2>2, <1>2
  <2>4. q - 1 \notin T
    BY <2>2, <2>3
  <2>5. e[q - 1] < i /\ i <= e[q]
    <3>1. e[q - 1] \in Nat /\ ~(i <= e[q - 1])
      BY <2>3, <2>4, <1>n
    <3> QED
      BY <2>2, <3>1
  <2> QED
    BY <2>3, <2>5, <1>4
<1>7. ASSUME NEW p \in 1 .. n, NEW q \in 1 .. n, NEW i \in 1 .. Len(s), NEW j \in 1 .. Len(s),
             s[i] \in ToSet(b[p]), s[j] \in ToSet(b[q]), p < q
      PROVE  i < j
  <2>1. i <= e[p] /\ e[q - 1] < j
    BY <1>4, <1>7
  <2>2. p \in 0 .. n /\ q - 1 \in 0 .. n /\ p <= q - 1
    BY <1>7
  <2>3. e[p] <= e[q - 1]
    BY <2>2, <1>5
  <2>4. e[p] \in Nat /\ e[q - 1] \in Nat
    BY <1>n, <2>2
  <2> QED
    BY <2>1, <2>3, <2>4
<1> QED
  BY <1>4, <1>6, <1>7 DEF Ordered

(* No batch of nobody is cut out of nobody.                                *)
LEMMA CutOfNobody ==
  ASSUME NEW sizes
  PROVE  Cut(<<>>, sizes) = <<>>
<1>1. {j \in 0 .. 0 - 1 : Ends(0, sizes)[j] < 0} = {}
  OBVIOUS
<1>2. Cardinality({j \in 0 .. 0 - 1 : Ends(0, sizes)[j] < 0}) = 0
  BY <1>1, FS_EmptySet
<1>3. Len(<<>>) = 0
  OBVIOUS
<1>4. Cut(<<>>, sizes) = [j \in 1 .. 0 |-> SubSeq(<<>>, Ends(0, sizes)[j - 1] + 1, Ends(0, sizes)[j])]
  BY <1>2, <1>3 DEF Cut
<1> QED
  BY <1>4

(* What a run needs of its batches.                                        *)
LEMMA MainBatchesOrdered ==
  ASSUME NEW X, NEW s \in Seq(X), IsInjective(s), NEW strategy, NEW batch \in SizeExprs,
         NEW serial \in Seq(SizeExprs), NEW b, b = MainBatches(s, strategy, batch, serial)
  PROVE  b \in Seq(Seq(X)) /\ Ordered(b, s) /\ CanaryFirst(b, s, strategy)
<1>1. CASE s # <<>>
  <2>1. b \in Seq(Seq(X)) /\ IsCut(b, s)
    BY <1>1, MainBatchesAre
  <2>2. Ordered(b, s)
    BY <2>1, CutOrdered
  <2>3. ASSUME strategy = "canary", Len(s) > 1
        PROVE  Len(b) >= 1 /\ \A x : x \in ToSet(b[1]) <=> x = s[1]
    <3> DEFINE rest == ChunkHosts(Tail(s), ParseBatchSize(batch, Len(s)))
               one == <<SubSeq(s, 1, 1)>>
    <3>1. b = one \o rest
      BY <2>3 DEF MainBatches
    <3>2. \A i \in 1 .. 1 : s[i] \in X
      BY <2>3
    <3>3. SubSeq(s, 1, 1) \in Seq(X) /\ Len(SubSeq(s, 1, 1)) = 1 /\ SubSeq(s, 1, 1)[1] = s[1]
      <4>1. /\ SubSeq(s, 1, 1) \in Seq(X) /\ Len(SubSeq(s, 1, 1)) = 1
            /\ \A i \in 1 .. 1 : SubSeq(s, 1, 1)[i] = s[1 + i - 1]
        BY <3>2, SubSeqProperties
      <4> QED
        BY <4>1
    <3>4. one \in Seq(Seq(X)) /\ Len(one) = 1 /\ one[1] = SubSeq(s, 1, 1)
      BY <3>3
    <3>5. rest \in Seq(Seq(X))
      <4>1. Tail(s) \in Seq(X)
        BY <1>1, HeadTailProperties
      <4>2. Len(s) \in Nat \ {0}
        BY <2>3
      <4>3. ParseBatchSize(batch, Len(s)) \in Nat \ {0}
        BY <4>2, SizeAsMeant DEF SizeExprs
      <4> QED
        BY <4>1, <4>3, ChunkSizes
    <3> HIDE DEF rest, one
    <3>6. /\ Len(one \o rest) = Len(one) + Len(rest)
          /\ \A i \in 1 .. Len(one) + Len(rest) :
               (one \o rest)[i] = IF i <= Len(one) THEN one[i] ELSE rest[i - Len(one)]
      BY <3>4, <3>5, ConcatProperties
    <3>7. b[1] = one[1] /\ Len(b) >= 1
      BY <3>1, <3>4, <3>5, <3>6
    <3>8. \A x : x \in ToSet(SubSeq(s, 1, 1)) <=> \E l \in 1 .. 1 : x = SubSeq(s, 1, 1)[l]
      <4> DEFINE u == SubSeq(s, 1, 1)
      <4>1. u \in Seq(X) /\ Len(u) = 1
        BY <3>3
      <4> HIDE DEF u
      <4>2. \A x : x \in ToSet(u) <=> \E l \in 1 .. 1 : x = u[l]
        BY <4>1, MemberOfSeq
      <4> QED
        BY <4>2 DEF u
    <3> QED
      BY <3>3, <3>4, <3>7, <3>8
  <2> QED
    BY <2>1, <2>2, <2>3 DEF CanaryFirst
<1>2. CASE s = <<>>
  <2>1. b = <<>> \/ b = << <<>> >>
    BY <1>2, CutOfNobody DEF MainBatches, SplitBatches, ChunkHosts
  <2>2. Len(s) = 0
    BY <1>2
  <2>3. CASE b = <<>>
    BY <2>2, <2>3 DEF Ordered, CanaryFirst
  <2>4. CASE b = << <<>> >>
    <3>1. b \in Seq(Seq(X)) /\ Len(b) = 1 /\ b[1] = <<>>
      BY <2>4
    <3>2. ToSet(<<>>) = {}
      BY DEF ToSet
    <3> QED
      BY <2>2, <3>1, <3>2 DEF Ordered, CanaryFirst
  <2> QED
    BY <2>1, <2>3, <2>4
<1> QED
  BY <1>1, <1>2
===============================================================================
