---------------------------- MODULE NatRecursion ----------------------------
(***************************************************************************)
(* Induction and recursion over the natural numbers in a first-order form: *)
(* about sets of numbers and functions, where NaturalsInduction is about   *)
(* operators.  The loops of the kernel are written as recursive functions, *)
(* and these lemmas are what proofs about them rest on.                    *)
(***************************************************************************)
EXTENDS Integers, WellFoundedInduction, TLAPS

(* Some well-founded relation holds whenever m < n. *)
LEMMA LessThan ==
  \E R : IsWellFoundedOn(R, Nat) /\ \A m, n \in Nat : m < n => <<m, n>> \in R
<1>1. \A m, n \in Nat : m < n => <<m, n>> \in OpToRel(<, Nat)
  BY DEF OpToRel
<1>2. IsWellFoundedOn(OpToRel(<, Nat), Nat)
  BY NatLessThanWellFounded
<1> QED
  BY <1>1, <1>2, Zenon

(* The least members of a set under such a relation. *)
LEMMA Minimal ==
  ASSUME NEW R, IsWellFoundedOn(R, Nat), NEW T, T \subseteq Nat, T # {}
  PROVE  \E x \in T : \A y \in T : <<y, x>> \notin R
  BY WFMin, Zenon

(* A set of numbers that is not empty has a least element. *)
LEMMA LeastNumber ==
  ASSUME NEW T, T \subseteq Nat, T # {}
  PROVE  \E m \in T : \A n \in T : m <= n
<1>1. PICK R : IsWellFoundedOn(R, Nat) /\ \A m, n \in Nat : m < n => <<m, n>> \in R
  BY LessThan
<1>2. PICK x \in T : \A y \in T : <<y, x>> \notin R
  BY <1>1, Minimal, Zenon
<1>3. \A n \in T : n \in Nat /\ x \in Nat /\ ~(n < x)
  BY <1>1, <1>2
<1> QED
  BY <1>3

(* A set that has 0, and n if it has n - 1, has all numbers up to N. *)
LEMMA InductionUpTo ==
  ASSUME NEW N \in Nat, NEW S, 0 \in S, \A n \in 1..N : n - 1 \in S => n \in S
  PROVE  0..N \subseteq S
<1> DEFINE T == (0..N) \ S
<1>1. SUFFICES ASSUME T # {} PROVE FALSE
  OBVIOUS
<1>2. T \subseteq Nat
  OBVIOUS
<1> HIDE DEF T
<1>3. PICK m \in T : \A n \in T : m <= n
  BY <1>1, <1>2, LeastNumber
<1>4. m \in 1..N /\ m \notin S /\ m - 1 \notin T /\ m - 1 \in 0..N
  BY <1>2, <1>3 DEF T
<1> QED
  BY <1>4 DEF T

(* f starts with c and goes on with step. *)
Iterates(f, step, c, N) ==
  f[0] = c /\ \A i \in 1..N : f[i] = step[<<f[i - 1], i>>]

(* There is such a function. *)
LEMMA RecursionUpTo ==
  ASSUME NEW N \in Nat, NEW V, NEW c \in V, NEW step \in [V \X (1..N) -> V]
  PROVE  \E f \in [0..N -> V] : Iterates(f, step, c, N)
<1> DEFINE S == {n \in 0..N : \E f \in [0..n -> V] : Iterates(f, step, c, n)}
<1>1. 0 \in S
  <2>1. [i \in 0..0 |-> c] \in [0..0 -> V] /\ Iterates([i \in 0..0 |-> c], step, c, 0)
    BY DEF Iterates
  <2>2. \E f \in [0..0 -> V] : Iterates(f, step, c, 0)
    BY <2>1, Zenon
  <2> QED
    BY <2>2
<1>2. ASSUME NEW n \in 1..N, n - 1 \in S
      PROVE  n \in S
  <2>1. PICK g \in [0..(n - 1) -> V] : Iterates(g, step, c, n - 1)
    BY <1>2
  <2> DEFINE f == [i \in 0..n |-> IF i = n THEN step[<<g[n - 1], n>>] ELSE g[i]]
  <2>2. step[<<g[n - 1], n>>] \in V
    OBVIOUS
  <2>3. f \in [0..n -> V]
    BY <2>2
  <2>4. f[0] = c
    BY <2>1 DEF Iterates
  <2>5. ASSUME NEW i \in 1..n
        PROVE  f[i] = step[<<f[i - 1], i>>]
    <3>1. f[i - 1] = g[i - 1]
      OBVIOUS
    <3>2. CASE i = n
      BY <3>1, <3>2
    <3>3. CASE i # n
      BY <2>1, <3>1, <3>3 DEF Iterates
    <3> QED
      BY <3>2, <3>3
  <2>6. Iterates(f, step, c, n)
    BY <2>4, <2>5 DEF Iterates
  <2>7. \E h \in [0..n -> V] : Iterates(h, step, c, n)
    <3> HIDE DEF f
    <3> QED
      BY <2>3, <2>6, Zenon
  <2> QED
    BY <2>7
<1>3. 0..N \subseteq S
  <2> HIDE DEF S
  <2> QED
    BY <1>1, <1>2, InductionUpTo
<1>4. N \in S
  BY <1>3
<1> QED
  BY <1>4

(* Two functions that start alike and go on alike are alike. *)
LEMMA IteratesUnique ==
  ASSUME NEW N \in Nat, NEW step, NEW c, NEW f, NEW g,
         Iterates(f, step, c, N), Iterates(g, step, c, N)
  PROVE  \A i \in 0..N : f[i] = g[i]
<1> DEFINE S == {i \in 0..N : f[i] = g[i]}
<1>1. 0 \in S
  BY DEF Iterates
<1>2. ASSUME NEW n \in 1..N, n - 1 \in S
      PROVE  n \in S
  <2>1. f[n - 1] = g[n - 1]
    BY <1>2
  <2>2. f[n] = step[<<f[n - 1], n>>] /\ g[n] = step[<<g[n - 1], n>>]
    BY DEF Iterates
  <2> QED
    BY <2>1, <2>2
<1>3. 0..N \subseteq S
  <2> HIDE DEF S
  <2> QED
    BY <1>1, <1>2, InductionUpTo
<1> QED
  BY <1>3

(* The same without a bound. *)
IteratesOn(f, step, c) ==
  f[0] = c /\ \A i \in Nat \ {0} : f[i] = step[<<f[i - 1], i>>]

(* There is such a function, too. *)
LEMMA RecursionOnNat ==
  ASSUME NEW V, NEW c \in V, NEW step \in [V \X Nat -> V]
  PROVE  \E f \in [Nat -> V] : IteratesOn(f, step, c)
<1> DEFINE Upto(n, g) == g \in [0..n -> V] /\ Iterates(g, step, c, n)
           first(n) == CHOOSE g : Upto(n, g)
           f == [n \in Nat |-> first(n)[n]]
<1>1. ASSUME NEW n \in Nat
      PROVE  Upto(n, first(n))
  <2> DEFINE some == [p \in V \X (1..n) |-> step[p]]
  <2>1. some \in [V \X (1..n) -> V]
    OBVIOUS
  <2>2. PICK g \in [0..n -> V] : Iterates(g, some, c, n)
    <3> HIDE DEF some
    <3> QED
      BY <2>1, RecursionUpTo, Zenon
  <2>3. ASSUME NEW i \in 1..n
        PROVE  g[i] = step[<<g[i - 1], i>>]
    <3>1. <<g[i - 1], i>> \in V \X (1..n)
      OBVIOUS
    <3>2. g[i] = some[<<g[i - 1], i>>]
      BY <2>2 DEF Iterates
    <3> QED
      BY <3>1, <3>2
  <2>4. Upto(n, g)
    BY <2>2, <2>3 DEF Iterates
  <2> HIDE DEF Upto
  <2> QED
    BY <2>4, Zenon
<1>2. ASSUME NEW n \in Nat
      PROVE  f[n] \in V /\ f[n] = first(n)[n]
  <2>1. first(n) \in [0..n -> V] /\ n \in 0..n
    BY <1>1
  <2> HIDE DEF first
  <2> QED
    BY <2>1
<1>3. f[0] = c
  <2>1. Iterates(first(0), step, c, 0)
    BY <1>1
  <2> HIDE DEF f, first
  <2> QED
    BY <1>2, <2>1 DEF Iterates
<1>4. ASSUME NEW n \in Nat \ {0}
      PROVE  f[n] = step[<<f[n - 1], n>>]
  <2>1. Iterates(first(n), step, c, n) /\ Iterates(first(n - 1), step, c, n - 1)
    <3>1. n - 1 \in Nat
      OBVIOUS
    <3> HIDE DEF first
    <3> QED
      BY <1>1, <3>1
  <2>2. Iterates(first(n), step, c, n - 1)
    <3> HIDE DEF first
    <3> QED
      BY <2>1 DEF Iterates
  <2>3. first(n)[n - 1] = first(n - 1)[n - 1]
    <3>1. n - 1 \in Nat /\ n - 1 \in 0..(n - 1)
      OBVIOUS
    <3> HIDE DEF first
    <3>2. ASSUME NEW m \in Nat, NEW g, NEW h,
                 Iterates(g, step, c, m), Iterates(h, step, c, m)
          PROVE  \A i \in 0..m : g[i] = h[i]
      BY <3>2, IteratesUnique
    <3>3. \A i \in 0..(n - 1) : first(n)[i] = first(n - 1)[i]
      BY <2>1, <2>2, <3>1, <3>2
    <3> QED
      BY <3>1, <3>3
  <2>4. f[n - 1] = first(n - 1)[n - 1] /\ f[n] = first(n)[n]
    <3>1. n - 1 \in Nat
      OBVIOUS
    <3> HIDE DEF f, first
    <3> QED
      BY <1>2, <3>1
  <2> HIDE DEF f, first
  <2>5. first(n)[n] = step[<<first(n)[n - 1], n>>]
    BY <2>1 DEF Iterates
  <2> QED
    BY <2>3, <2>4, <2>5
<1>5. f \in [Nat -> V]
  BY <1>2
<1>6. IteratesOn(f, step, c)
  <2> HIDE DEF f
  <2> QED
    BY <1>3, <1>4 DEF IteratesOn
<1> HIDE DEF f
<1> QED
  BY <1>5, <1>6, Zenon
=============================================================================
