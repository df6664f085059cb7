---------------------------- MODULE ConsoleProofs ----------------------------
(***************************************************************************)
(* The console, for any number of processes, any formats, any depth of the *)
(* transmitter's FIFO and words of any width: the digits that kprintf      *)
(* makes of a number are those that a reader expects, what arrives of a    *)
(* flow's text arrives in order, and a character that was waited for is    *)
(* only lost by a flow that was overtaken.                                 *)
(***************************************************************************)
EXTENDS Console, NatRecursion, SequenceTheorems
LOCAL INSTANCE SequencesExt

-----------------------------------------------------------------------------
(* To put three texts together, in any order. *)
LEMMA Associative ==
  \A x, y, z \in Seq(Chars) : (x \o y) \o z = x \o (y \o z)
  BY ConcatAssociative, SMTT(60)

(* FlattenSeq concatenates one sequence after the other: f[i] is the       *)
(* concatenation of the first i.                                           *)
Concatenates(f, seqs, S) ==
  /\ f \in [0..Len(seqs) -> Seq(S)]
  /\ f[0] = << >>
  /\ \A i \in 1..Len(seqs) : f[i] = f[i - 1] \o seqs[i]

(* There is such a function. *)
LEMMA ConcatenationExists ==
  ASSUME NEW S, NEW seqs \in Seq(Seq(S))
  PROVE  \E f : Concatenates(f, seqs, S)
<1> DEFINE N == Len(seqs)
           V == Seq(S)
           step == [p \in V \X (1..N) |-> p[1] \o seqs[p[2]]]
<1>1. N \in Nat /\ << >> \in V /\ \A i \in 1..N : seqs[i] \in Seq(S)
  OBVIOUS
<1>2. step \in [V \X (1..N) -> V]
  <2> SUFFICES ASSUME NEW p \in V \X (1..N)
               PROVE  p[1] \o seqs[p[2]] \in V
    OBVIOUS
  <2>1. p[1] \in Seq(S) /\ seqs[p[2]] \in Seq(S)
    BY <1>1
  <2> QED
    BY <2>1
<1>3. \A v \in V, i \in 1..N : step[<<v, i>>] = v \o seqs[i]
  OBVIOUS
<1> HIDE DEF step, V, N
<1>4. PICK f \in [0..N -> V] : Iterates(f, step, << >>, N)
  BY <1>1, <1>2, RecursionUpTo
<1>5. f[0] = << >> /\ \A i \in 1..N : f[i] = step[<<f[i - 1], i>>]
  BY <1>4, Zenon DEF Iterates
<1>6. ASSUME NEW i \in 1..N
      PROVE  f[i] = f[i - 1] \o seqs[i]
  <2>1. i - 1 \in 0..N
    BY <1>1
  <2>2. f[i - 1] \in V
    BY <1>4, <2>1
  <2> QED
    BY <1>3, <1>5, <2>2, Zenon
<1> QED
  BY <1>4, <1>5, <1>6, Zenon DEF Concatenates, N, V

(* It says what FlattenSeq is. *)
LEMMA FlattenIsConcatenation ==
  ASSUME NEW S, NEW seqs \in Seq(Seq(S)), NEW f, Concatenates(f, seqs, S)
  PROVE  FlattenSeq(seqs) = f[Len(seqs)]
<1> DEFINE N == Len(seqs)
           Flattens(g) == g = [i \in 1..N |-> IF i = 1 THEN seqs[i] ELSE g[i - 1] \o seqs[i]]
           flatten == CHOOSE g : Flattens(g)
<1>1. N \in Nat /\ \A i \in 1..N : seqs[i] \in Seq(S)
  OBVIOUS
<1>2. /\ f[0] = << >> /\ \A i \in 0..N : f[i] \in Seq(S)
      /\ \A i \in 1..N : f[i] = f[i - 1] \o seqs[i]
  BY DEF Concatenates
<1>3. CASE N = 0
  <2>1. seqs = << >>
    BY <1>3
  <2> QED
    BY <1>2, <1>3, <2>1 DEF FlattenSeq
<1>4. CASE N # 0
  <2> HIDE DEF N
  <2>1. Flattens([i \in 1..N |-> f[i]])
    <3> SUFFICES ASSUME NEW i \in 1..N
                 PROVE  f[i] = IF i = 1 THEN seqs[i]
                               ELSE [j \in 1..N |-> f[j]][i - 1] \o seqs[i]
      OBVIOUS
    <3>1. CASE i = 1
      <4>1. f[1] = f[0] \o seqs[1]
        <5>1. 1 \in 1..N /\ 1 - 1 = 0
          BY <1>1, <1>4
        <5> QED
          BY <1>2, <5>1
      <4>2. << >> \o seqs[1] = seqs[1]
        BY <1>1, <3>1
      <4> QED
        BY <1>2, <3>1, <4>1, <4>2
    <3>2. CASE i # 1
      <4>1. i - 1 \in 1..N
        BY <1>1, <3>2
      <4> QED
        BY <1>2, <3>2, <4>1
    <3> QED
      BY <3>1, <3>2
  <2>2. Flattens(flatten)
    BY <2>1
  <2> HIDE DEF flatten
  <2>3. \A i \in 1..N : flatten[i] = IF i = 1 THEN seqs[i] ELSE flatten[i - 1] \o seqs[i]
    BY <2>2
  <2> DEFINE T == {i \in 0..N : i = 0 \/ flatten[i] = f[i]}
  <2>4. 0 \in T
    BY <1>1
  <2>5. ASSUME NEW i \in 1..N, i - 1 \in T
        PROVE  i \in T
    <3>1. CASE i = 1
      <4>1. f[1] = f[0] \o seqs[1] /\ flatten[1] = seqs[1]
        <5>1. 1 \in 1..N /\ 1 - 1 = 0
          BY <1>1, <1>4
        <5> QED
          BY <1>2, <2>3, <5>1
      <4>2. << >> \o seqs[1] = seqs[1]
        BY <1>1, <3>1
      <4>3. flatten[1] = f[1]
        BY <1>2, <4>1, <4>2
      <4>4. flatten[i] = f[i] /\ i \in 0..N
        BY <1>1, <3>1, <4>3
      <4> QED
        BY <4>4
    <3>2. CASE i # 1
      <4>1. flatten[i - 1] = f[i - 1]
        BY <1>1, <2>5, <3>2
      <4>2. flatten[i] = flatten[i - 1] \o seqs[i]
        BY <2>3, <3>2
      <4>3. f[i] = f[i - 1] \o seqs[i]
        BY <1>2
      <4>4. flatten[i] = f[i] /\ i \in 0..N
        BY <1>1, <4>1, <4>2, <4>3
      <4> QED
        BY <4>4
    <3> QED
      BY <3>1, <3>2
  <2> HIDE DEF T
  <2>6. 0..N \subseteq T
    BY <1>1, <2>4, <2>5, InductionUpTo
  <2>7. flatten[N] = f[N]
    <3>1. N \in T
      BY <1>1, <2>6
    <3> QED
      BY <1>4, <3>1 DEF T
  <2>8. FlattenSeq(seqs) = flatten[N]
    BY <1>4 DEF FlattenSeq, flatten, N
  <2> QED
    BY <2>7, <2>8 DEF N
<1> QED
  BY <1>3, <1>4

(* What FlattenSeq returns is a sequence. *)
LEMMA FlattenType ==
  ASSUME NEW S, NEW seqs \in Seq(Seq(S))
  PROVE  FlattenSeq(seqs) \in Seq(S)
<1>1. PICK f : Concatenates(f, seqs, S)
  BY ConcatenationExists
<1>2. FlattenSeq(seqs) = f[Len(seqs)]
  BY <1>1, FlattenIsConcatenation
<1>3. Len(seqs) \in 0..Len(seqs)
  OBVIOUS
<1> QED
  BY <1>1, <1>2, <1>3 DEF Concatenates

(* Nothing, flattened. *)
LEMMA FlattenEmpty ==
  FlattenSeq(<< >>) = << >>
  BY DEF FlattenSeq

(* One sequence, flattened. *)
LEMMA FlattenOne ==
  ASSUME NEW s
  PROVE  FlattenSeq(<<s>>) = s
  BY DEF FlattenSeq

(* To flatten what was put together is to put together what was flattened. *)
LEMMA FlattenConcat ==
  ASSUME NEW S, NEW s \in Seq(Seq(S)), NEW t \in Seq(Seq(S))
  PROVE  FlattenSeq(s \o t) = FlattenSeq(s) \o FlattenSeq(t)
<1>1. PICK f : Concatenates(f, s, S)
  BY ConcatenationExists
<1>2. PICK g : Concatenates(g, t, S)
  BY ConcatenationExists
<1> DEFINE m == Len(s)
           n == Len(t)
           st == s \o t
           h == [i \in 0..(m + n) |-> IF i <= m THEN f[i] ELSE f[m] \o g[i - m]]
<1>3. /\ m \in Nat /\ n \in Nat /\ st \in Seq(Seq(S)) /\ Len(st) = m + n
      /\ \A i \in 1..m : st[i] = s[i]
      /\ \A i \in (m + 1)..(m + n) : st[i] = t[i - m]
  OBVIOUS
<1>4. /\ f[0] = << >> /\ \A i \in 0..m : f[i] \in Seq(S)
      /\ \A i \in 1..m : f[i] = f[i - 1] \o s[i]
  BY <1>1 DEF Concatenates
<1>5. /\ g[0] = << >> /\ \A i \in 0..n : g[i] \in Seq(S)
      /\ \A i \in 1..n : g[i] = g[i - 1] \o t[i]
  BY <1>2 DEF Concatenates
<1>6. \A i \in 1..n : t[i] \in Seq(S)
  OBVIOUS
<1> HIDE DEF m, n, st
<1>7. /\ \A i \in 0..m : h[i] = f[i]
      /\ \A i \in 0..n : h[m + i] = f[m] \o g[i]
  <2>1. \A i \in 0..m : h[i] = f[i]
    BY <1>3
  <2>2. ASSUME NEW i \in 0..n
        PROVE  h[m + i] = f[m] \o g[i]
    <3>1. CASE i = 0
      <4>1. h[m] = f[m]
        BY <1>3, <2>1
      <4>2. f[m] \o << >> = f[m] /\ m + i = m
        BY <1>3, <1>4, <3>1
      <4> QED
        BY <1>5, <3>1, <4>1, <4>2
    <3>2. CASE i # 0
      <4>1. m + i \in 0..(m + n) /\ ~(m + i <= m) /\ (m + i) - m = i
        BY <1>3, <3>2
      <4> QED
        BY <4>1
    <3> QED
      BY <3>1, <3>2
  <2> QED
    BY <2>1, <2>2
<1>8. h \in [0..(m + n) -> Seq(S)]
  <2> SUFFICES ASSUME NEW i \in 0..(m + n)
               PROVE  h[i] \in Seq(S)
    OBVIOUS
  <2>1. CASE i <= m
    BY <1>3, <1>4, <2>1
  <2>2. CASE i > m
    <3>1. i - m \in 0..n /\ m + (i - m) = i /\ m \in 0..m
      BY <1>3, <2>2
    <3>2. f[m] \in Seq(S) /\ g[i - m] \in Seq(S)
      BY <1>4, <1>5, <3>1
    <3>3. h[i] = f[m] \o g[i - m]
      BY <1>7, <3>1
    <3> HIDE DEF h
    <3> QED
      BY <3>2, <3>3
  <2> QED
    BY <1>3, <2>1, <2>2
<1> HIDE DEF h
<1>9. ASSUME NEW i \in 1..(m + n)
      PROVE  h[i] = h[i - 1] \o st[i]
  <2>1. CASE i <= m
    <3>1. i \in 1..m /\ i \in 0..m /\ i - 1 \in 0..m
      BY <1>3, <2>1
    <3> QED
      BY <1>3, <1>4, <1>7, <3>1
  <2>2. CASE i > m
    <3> DEFINE j == i - m
    <3>1. j \in 1..n /\ j \in 0..n /\ j - 1 \in 0..n /\ m + j = i /\ m + (j - 1) = i - 1
          /\ i \in (m + 1)..(m + n) /\ m \in 0..m
      BY <1>3, <2>2
    <3>2. st[i] = t[j]
      BY <1>3, <3>1
    <3> HIDE DEF j
    <3>3. h[m + j] = f[m] \o g[j] /\ h[m + (j - 1)] = f[m] \o g[j - 1]
      BY <1>7, <3>1
    <3>4. g[j] = g[j - 1] \o t[j]
      BY <1>5, <3>1
    <3>5. f[m] \in Seq(S) /\ g[j - 1] \in Seq(S) /\ t[j] \in Seq(S)
      BY <1>4, <1>5, <1>6, <3>1
    <3>6. (f[m] \o g[j - 1]) \o t[j] = f[m] \o (g[j - 1] \o t[j])
      <4>1. \A x, y, z \in Seq(S) : (x \o y) \o z = x \o (y \o z)
        BY ConcatAssociative, SMTT(60)
      <4> HIDE DEF h
      <4> QED
        BY <3>5, <4>1, Zenon
    <3> QED
      BY <3>1, <3>2, <3>3, <3>4, <3>6
  <2> QED
    BY <1>3, <2>1, <2>2, SMTT(30)
<1>10. Concatenates(h, st, S)
  <2>1. h[0] = << >>
    <3>1. 0 \in 0..m
      BY <1>3
    <3> QED
      BY <1>4, <1>7, <3>1
  <2> QED
    BY <1>3, <1>8, <1>9, <2>1 DEF Concatenates
<1>11. FlattenSeq(s) = f[m] /\ FlattenSeq(t) = g[n] /\ FlattenSeq(st) = h[m + n]
  BY <1>1, <1>2, <1>3, <1>10, FlattenIsConcatenation DEF m, n
<1>12. h[m + n] = f[m] \o g[n]
  <2>1. n \in 0..n
    BY <1>3
  <2> QED
    BY <1>7, <2>1
<1> QED
  BY <1>11, <1>12 DEF st

-----------------------------------------------------------------------------
(* The powers of a base are what they should be. *)
LEMMA Powers ==
  ASSUME NEW base \in Nat
  PROVE  /\ Power(base, 0) = 1
         /\ \A n \in Nat : Power(base, n) \in Nat /\ Power(base, n + 1) = base * Power(base, n)
<1> DEFINE step == [p \in Nat \X Nat |-> base * p[1]]
           Obeys(g) == g = [i \in Nat |-> IF i = 0 THEN 1 ELSE base * g[i - 1]]
           power == CHOOSE g : Obeys(g)
<1>1. step \in [Nat \X Nat -> Nat]
  OBVIOUS
<1>2. \A v \in Nat, i \in Nat : step[<<v, i>>] = base * v
  OBVIOUS
<1> HIDE DEF step
<1>3. PICK f \in [Nat -> Nat] : IteratesOn(f, step, 1)
  BY <1>1, RecursionOnNat
<1>4. ASSUME NEW i \in Nat \ {0}
      PROVE  f[i] = base * f[i - 1]
  <2>1. i - 1 \in Nat
    OBVIOUS
  <2>2. f[i - 1] \in Nat
    BY <1>3, <2>1
  <2>3. f[i] = step[<<f[i - 1], i>>]
    BY <1>3 DEF IteratesOn
  <2> QED
    BY <1>2, <2>2, <2>3
<1>5. f = [i \in Nat |-> IF i = 0 THEN 1 ELSE base * f[i - 1]]
  BY <1>3, <1>4 DEF IteratesOn
<1>6. Obeys(power)
  BY <1>5
<1>7. \A n : Power(base, n) = power[n]
  BY DEF Power, power, Obeys
<1> HIDE DEF power
<1>8. \A i \in Nat : power[i] = IF i = 0 THEN 1 ELSE base * power[i - 1]
  BY <1>6
<1>9. Power(base, 0) = 1
  BY <1>7, <1>8
<1>10. ASSUME NEW n \in Nat
       PROVE  Power(base, n + 1) = base * Power(base, n)
  <2>1. n + 1 \in Nat /\ n + 1 # 0 /\ (n + 1) - 1 = n
    OBVIOUS
  <2> QED
    BY <1>7, <1>8, <2>1
<1>11. ASSUME NEW n \in Nat
       PROVE  Power(base, n) \in Nat
  <2> DEFINE T == {i \in 0..n : Power(base, i) \in Nat}
  <2>1. 0 \in T
    BY <1>9
  <2>2. ASSUME NEW i \in 1..n, i - 1 \in T
        PROVE  i \in T
    <3>1. i - 1 \in Nat /\ (i - 1) + 1 = i
      OBVIOUS
    <3>2. Power(base, i) = base * Power(base, i - 1)
      BY <1>10, <3>1
    <3> QED
      BY <2>2, <3>2
  <2> HIDE DEF T
  <2>3. 0..n \subseteq T
    BY <2>1, <2>2, InductionUpTo
  <2> QED
    BY <2>3 DEF T
<1> QED
  BY <1>9, <1>10, <1>11

(* They grow with the exponent. *)
LEMMA PowersGrow ==
  ASSUME NEW base \in Nat, base > 0, NEW m \in Nat, NEW n \in Nat, m <= n
  PROVE  Power(base, m) <= Power(base, n) /\ Power(base, m) > 0
<1>1. ASSUME NEW k \in Nat
      PROVE  /\ Power(base, k) \in Nat /\ Power(base, k) <= Power(base, k + 1)
             /\ Power(base, k) > 0 => Power(base, k + 1) > 0
  <2>1. Power(base, k) \in Nat /\ Power(base, k + 1) = base * Power(base, k)
    BY Powers
  <2>2. \A x \in Nat : x <= base * x /\ (x > 0 => base * x > 0)
    OBVIOUS
  <2> QED
    BY <2>1, <2>2
<1> DEFINE T == {i \in 0..m : Power(base, i) > 0}
           U == {i \in 0..(n - m) : Power(base, m) <= Power(base, m + i)}
<1>2. 0 \in T /\ 0 \in U
  BY <1>1, Powers
<1>3. ASSUME NEW i \in 1..m, i - 1 \in T
      PROVE  i \in T
  <2>1. i - 1 \in Nat /\ (i - 1) + 1 = i
    OBVIOUS
  <2> QED
    BY <1>1, <1>3, <2>1
<1>4. ASSUME NEW i \in 1..(n - m), i - 1 \in U
      PROVE  i \in U
  <2>1. m + (i - 1) \in Nat /\ (m + (i - 1)) + 1 = m + i /\ m + i \in Nat
    OBVIOUS
  <2>2. /\ Power(base, m + (i - 1)) <= Power(base, m + i)
        /\ Power(base, m + (i - 1)) \in Nat /\ Power(base, m + i) \in Nat /\ Power(base, m) \in Nat
    BY <1>1, <2>1
  <2> QED
    BY <1>4, <2>2
<1> HIDE DEF T, U
<1>5. 0..m \subseteq T
  BY <1>2, <1>3, InductionUpTo
<1>6. n - m \in Nat
  OBVIOUS
<1>7. 0..(n - m) \subseteq U
  BY <1>2, <1>4, <1>6, InductionUpTo
<1>8. m \in 0..m /\ n - m \in 0..(n - m) /\ m + (n - m) = n
  BY <1>6
<1>9. m \in T /\ n - m \in U
  BY <1>5, <1>7, <1>8
<1> QED
  BY <1>8, <1>9 DEF T, U

(* There is room for the digits of a word. *)
LEMMA WordsHaveRoom ==
  ASSUME NEW n \in Nat
  PROVE  Power(16, n) <= Power(10, 4 * n)
<1> DEFINE T == {i \in 0..n : Power(16, i) <= Power(10, 4 * i)}
<1>1. 0 \in T
  <2>1. Power(16, 0) = 1 /\ Power(10, 0) = 1
    BY Powers
  <2> QED
    BY <2>1
<1>2. ASSUME NEW i \in 1..n, i - 1 \in T
      PROVE  i \in T
  <2> DEFINE k == 4 * (i - 1)
             a == Power(16, i - 1)
             b == Power(10, k)
  <2>1. i - 1 \in Nat /\ (i - 1) + 1 = i
    OBVIOUS
  <2>2. Power(16, i) = 16 * a /\ a \in Nat
    BY <2>1, Powers
  <2>3. k \in Nat /\ 4 * i = (((k + 1) + 1) + 1) + 1 /\ k + 1 \in Nat /\ (k + 1) + 1 \in Nat
        /\ ((k + 1) + 1) + 1 \in Nat
    OBVIOUS
  <2> HIDE DEF k
  <2>4. /\ b \in Nat /\ Power(10, k + 1) = 10 * b
        /\ Power(10, (k + 1) + 1) = 10 * Power(10, k + 1)
        /\ Power(10, ((k + 1) + 1) + 1) = 10 * Power(10, (k + 1) + 1)
        /\ Power(10, (((k + 1) + 1) + 1) + 1) = 10 * Power(10, ((k + 1) + 1) + 1)
    BY <2>3, Powers
  <2>5. Power(10, 4 * i) = 10000 * b
    <3> HIDE DEF b
    <3> QED
      BY <2>3, <2>4
  <2>6. a <= b
    BY <1>2 DEF k
  <2> HIDE DEF a, b
  <2>7. 16 * a <= 10000 * b
    BY <2>2, <2>4, <2>6
  <2> QED
    BY <2>2, <2>5, <2>7
<1> HIDE DEF T
<1>3. 0..n \subseteq T
  BY <1>1, <1>2, InductionUpTo
<1> QED
  BY <1>3 DEF T

-----------------------------------------------------------------------------
(* Division. *)
LEMMA Division ==
  ASSUME NEW a \in Nat, NEW p \in Nat, p > 0
  PROVE  /\ a \div p \in Nat /\ a % p \in 0..(p - 1) /\ a = p * (a \div p) + (a % p)
         /\ a < p <=> a \div p = 0
  OBVIOUS

(* There is one quotient with a remainder below p. *)
LEMMA QuotientIsUnique ==
  ASSUME NEW p \in Nat, p > 0, NEW q \in Nat, NEW r \in 0..(p - 1), NEW a \in Nat, a = p * q + r
  PROVE  q = a \div p
  OBVIOUS

(* To divide by p and by 10 is to divide by their product. *)
LEMMA DivideTwice ==
  ASSUME NEW a \in Nat, NEW p \in Nat, p > 0
  PROVE  (a \div p) \div 10 = a \div (10 * p)
<1> DEFINE x == a \div p
           r == a % p
           y == x \div 10
           s == x % 10
<1>1. x \in Nat /\ r \in 0..(p - 1) /\ a = p * x + r
  BY Division
<1>2. y \in Nat /\ s \in 0..9 /\ x = 10 * y + s
  BY <1>1, Division
<1> HIDE DEF x, r, y, s
<1>3. p * x = (10 * p) * y + p * s
  BY <1>1, <1>2
<1>4. p * s \in Nat /\ p * s <= 9 * p
  <2>1. s \in {0, 1, 2, 3, 4, 5, 6, 7, 8, 9}
    BY <1>2
  <2> QED
    BY <2>1
<1> DEFINE ps == p * s
<1>5. ps + r \in 0..(10 * p - 1)
  <2>1. ps \in Nat /\ ps <= 9 * p
    BY <1>4
  <2> HIDE DEF ps
  <2> QED
    BY <1>1, <2>1
<1>6. a = (10 * p) * y + (ps + r)
  <2> DEFINE px == p * x
             py == (10 * p) * y
  <2>1. a = px + r /\ px = py + ps /\ px \in Nat /\ py \in Nat /\ ps \in Nat
    BY <1>1, <1>2, <1>3, <1>4
  <2> HIDE DEF px, py, ps
  <2>2. a = py + (ps + r)
    BY <1>1, <2>1
  <2> QED
    BY <2>2 DEF py
<1> HIDE DEF ps
<1>7. 10 * p \in Nat /\ 10 * p > 0
  OBVIOUS
<1>8. y = a \div (10 * p)
  BY <1>2, <1>5, <1>6, <1>7, QuotientIsUnique
<1> QED
  BY <1>8 DEF x, y

-----------------------------------------------------------------------------
(* The digits of a number, in any of the two bases, are characters. *)
LEMMA DigitsAreChars ==
  ASSUME NEW d \in 0..15
  PROVE  digits(d) \in Chars
  BY DEF digits, Chars

(* The numeral, position by position. *)
LEMMA NumeralType ==
  ASSUME NEW n \in Nat, NEW base \in {10, 16}, NEW length \in Nat
  PROVE  Numeral(n, base, length) \in Seq(Chars)
<1>1. ASSUME NEW i \in 1..length
      PROVE  digits((n \div Power(base, length - i)) % base) \in Chars
  <2>1. length - i \in Nat /\ base \in Nat /\ base > 0
    OBVIOUS
  <2>2. Power(base, length - i) \in Nat /\ Power(base, length - i) > 0
    BY <2>1, Powers, PowersGrow
  <2> DEFINE q == n \div Power(base, length - i)
  <2>3. q \in Nat
    BY <2>2, Division
  <2> HIDE DEF q
  <2>4. q % base \in 0..15
    BY <2>3
  <2> QED
    BY <2>4, DigitsAreChars DEF q
<1>2. [i \in 1..length |-> digits((n \div Power(base, length - i)) % base)] \in [1..length -> Chars]
  BY <1>1
<1> QED
  BY <1>2, SeqDef DEF Numeral

(* kprintf_internal_hex prints a word in all its digits. *)
LEMMA HexDigits ==
  ASSUME NEW number \in Words
  PROVE  kprintf_internal_hex(number) = Numeral(number, 16, Nibbles)
<1> DEFINE Covers(n) == number < Power(16, n)
           Used(n) == Covers(n) /\ (n = 1 \/ number >= Power(16, n - 1))
           T == {n \in 1..Nibbles : Covers(n)}
           used == CHOOSE n \in 1..Nibbles : Used(n)
           digit(e) == digits((number \div Power(16, e)) % 16)
<1>1. Nibbles \in Nat /\ Nibbles >= 1
  BY KprintfAssumption
<1>2. \A n \in Nat : Power(16, n) \in Nat /\ Power(16, n) > 0
  BY Powers, PowersGrow
<1>3. number \in Nat /\ Covers(Nibbles)
  BY <1>1, <1>2 DEF Words
<1>4. used \in 1..Nibbles /\ Covers(used)
  <2>1. Nibbles \in T /\ T \subseteq Nat
    BY <1>1, <1>3
  <2>2. PICK n \in T : \A k \in T : n <= k
    BY <2>1, LeastNumber, Zenon
  <2>3. n \in 1..Nibbles /\ Covers(n)
    BY <2>2
  <2>4. n = 1 \/ ~Covers(n - 1)
    <3>1. CASE n # 1
      <4>1. n - 1 \in 1..Nibbles /\ ~(n <= n - 1)
        BY <1>1, <2>3, <3>1
      <4> QED
        BY <2>2, <4>1
    <3> QED
      BY <3>1
  <2>5. n = 1 \/ number >= Power(16, n - 1)
    <3>1. CASE n # 1
      <4>1. n - 1 \in Nat
        BY <2>3, <3>1
      <4> QED
        BY <1>2, <1>3, <2>4, <3>1, <4>1
    <3> QED
      BY <3>1
  <2> HIDE DEF Covers
  <2>6. \E k \in 1..Nibbles : Used(k)
    BY <2>3, <2>5
  <2> HIDE DEF Used
  <2>7. used \in 1..Nibbles /\ Used(used)
    BY <2>6, Zenon
  <2> QED
    BY <2>7 DEF Used
<1> DEFINE zeros == [i \in 1..(Nibbles - used) |-> digits(0)]
           others == [i \in 1..used |-> digit(used - i)]
<1>5. kprintf_internal_hex(number) = zeros \o others
  BY Zenon DEF kprintf_internal_hex
<1>6. ASSUME NEW e \in Nat
      PROVE  digit(e) \in Chars /\ (e >= used => digit(e) = digits(0))
  <2> DEFINE q == number \div Power(16, e)
  <2>1. Power(16, e) \in Nat /\ Power(16, e) > 0
    BY <1>2
  <2>2. q \in Nat /\ (number < Power(16, e) => q = 0)
    BY <1>3, <2>1, Division
  <2>3. q % 16 \in 0..15 /\ (q = 0 => q % 16 = 0)
    <3> HIDE DEF q
    <3> QED
      BY <2>2
  <2>4. digit(e) \in Chars
    BY <2>3, DigitsAreChars
  <2>5. e >= used => number < Power(16, e)
    <3> SUFFICES ASSUME e >= used
                 PROVE  number < Power(16, e)
      OBVIOUS
    <3>1. used \in Nat /\ 16 \in Nat /\ 16 > 0
      BY <1>4
    <3>2. Power(16, used) <= Power(16, e)
      BY <3>1, PowersGrow
    <3> QED
      BY <1>2, <1>3, <1>4, <3>1, <3>2
  <2> QED
    BY <2>2, <2>3, <2>4, <2>5
<1>7. used \in 1..Nibbles
  BY <1>4
<1> HIDE DEF used, digit
<1>8. zeros \in Seq(Chars) /\ Len(zeros) = Nibbles - used
  <2>1. digits(0) \in Chars
    BY DigitsAreChars
  <2>2. Nibbles - used \in Nat
    BY <1>1, <1>7
  <2> QED
    BY <2>1, <2>2
<1>9. others \in Seq(Chars) /\ Len(others) = used
  <2>1. \A i \in 1..used : digit(used - i) \in Chars
    BY <1>6, <1>7
  <2>2. used \in Nat
    BY <1>7
  <2> QED
    BY <2>1, <2>2
<1>10. /\ \A i \in 1..(Nibbles - used) : zeros[i] = digits(0)
       /\ \A i \in 1..used : others[i] = digit(used - i)
  OBVIOUS
<1> DEFINE number16 == Numeral(number, 16, Nibbles)
<1>11. number16 \in Seq(Chars) /\ Len(number16) = Nibbles
       /\ \A i \in 1..Nibbles : number16[i] = digit(Nibbles - i)
  <2>1. number16 \in Seq(Chars)
    BY <1>1, <1>3, NumeralType
  <2>2. number16 = [i \in 1..Nibbles |-> digit(Nibbles - i)]
    BY DEF Numeral, digit
  <2> HIDE DEF number16
  <2> QED
    BY <1>1, <2>1, <2>2
<1> HIDE DEF zeros, others, number16
<1>12. ASSUME NEW i \in 1..Nibbles
       PROVE  (zeros \o others)[i] = number16[i]
  <2>1. CASE i <= Nibbles - used
    <3>1. (zeros \o others)[i] = zeros[i] /\ i \in 1..(Nibbles - used)
      BY <1>1, <1>7, <1>8, <1>9, <2>1
    <3>2. Nibbles - i \in Nat /\ Nibbles - i >= used
      BY <1>1, <1>7, <2>1
    <3> QED
      BY <1>6, <1>10, <1>11, <3>1, <3>2
  <2>2. CASE i > Nibbles - used
    <3> DEFINE j == i - (Nibbles - used)
    <3>1. j \in 1..used /\ used - j = Nibbles - i
      BY <1>1, <1>7, <2>2
    <3>2. (zeros \o others)[i] = others[j]
      BY <1>1, <1>7, <1>8, <1>9, <2>2, SMTT(30)
    <3> QED
      BY <1>10, <1>11, <3>1, <3>2
  <2>3. i <= Nibbles - used \/ i > Nibbles - used
    <3>1. i \in Nat /\ used \in Nat
      BY <1>7
    <3> QED
      BY <1>1, <3>1
  <2> QED
    BY <2>1, <2>2, <2>3, Zenon
<1>13. zeros \o others \in Seq(Chars) /\ Len(zeros \o others) = Nibbles
  BY <1>1, <1>7, <1>8, <1>9
<1> DEFINE printed == zeros \o others
<1>14. printed = number16
  <2>1. printed \in Seq(Chars) /\ Len(printed) = Nibbles /\ \A i \in 1..Nibbles : printed[i] = number16[i]
    BY <1>12, <1>13
  <2> HIDE DEF printed
  <2> QED
    BY <1>11, <2>1, SeqEqual
<1> QED
  BY <1>5, <1>14 DEF number16

(* The powers of ten, for the decimal digits. *)
LEMMA PowersOfTen ==
  \A n \in Nat : Power(10, n) \in Nat /\ Power(10, n) > 0 /\ Power(10, n + 1) = 10 * Power(10, n)
<1>1. \A n \in Nat : Power(10, n) \in Nat /\ Power(10, n + 1) = 10 * Power(10, n)
  <2>1. 10 \in Nat
    OBVIOUS
  <2> QED
    BY <2>1, Powers, Zenon
<1>2. \A n \in Nat : Power(10, n) > 0
  <2>1. \A n \in Nat : n <= n
    OBVIOUS
  <2>2. 10 \in Nat /\ 10 > 0
    OBVIOUS
  <2> QED
    BY <2>1, <2>2, PowersGrow, Zenon
<1> QED
  BY <1>1, <1>2

(* A division of C in two steps, for either sign. *)
LEMMA QuotTwice ==
  ASSUME NEW a \in Int, NEW p \in Nat, p > 0
  PROVE  /\ Quot(a, p) \in Int /\ Quot(a, 1) = a
         /\ Quot(Quot(a, p), 10) = Quot(a, 10 * p)
<1>1. CASE a >= 0
  <2>1. a \in Nat
    BY <1>1
  <2>2. a \div p \in Nat /\ (a \div p) \div 10 = a \div (10 * p) /\ a \div 1 = a
    <3>1. a \div p \in Nat
      BY <2>1, Division, Zenon
    <3>2. (a \div p) \div 10 = a \div (10 * p)
      BY <2>1, DivideTwice, Zenon
    <3>3. a \div 1 = a
      BY <2>1
    <3> QED
      BY <3>1, <3>2, <3>3
  <2>3. Quot(a, p) = a \div p /\ Quot(a, 10 * p) = a \div (10 * p) /\ Quot(a, 1) = a \div 1
    BY <1>1 DEF Quot
  <2> DEFINE q == a \div p
  <2>4. Quot(q, 10) = q \div 10
    <3>1. q >= 0
      BY <2>2
    <3> HIDE DEF q
    <3> QED
      BY <3>1 DEF Quot
  <2>5. Quot(a, p) = q /\ Quot(q, 10) = Quot(a, 10 * p) /\ q \in Nat
    BY <2>2, <2>3, <2>4
  <2> HIDE DEF q
  <2> QED
    BY <2>2, <2>3, <2>5
<1>2. CASE a < 0
  <2> DEFINE b == -a
             q == b \div p
             s == b \div (10 * p)
  <2>1. b \in Nat
    BY <1>2
  <2>2. q \in Nat /\ q \div 10 = s /\ b \div 1 = b /\ s \in Nat
    <3>1. q \in Nat
      BY <2>1, Division, Zenon
    <3>2. q \div 10 = s
      BY <2>1, DivideTwice, Zenon
    <3>3. b \div 1 = b
      BY <2>1
    <3>4. s \in Nat
      <4>1. 10 * p \in Nat /\ 10 * p > 0
        OBVIOUS
      <4> HIDE DEF b
      <4> QED
        BY <2>1, <4>1, Division
    <3> QED
      BY <3>1, <3>2, <3>3, <3>4
  <2>3. Quot(a, p) = -q /\ Quot(a, 10 * p) = -s /\ Quot(a, 1) = -(b \div 1) /\ -b = a
    BY <1>2 DEF Quot
  <2> HIDE DEF b, q, s
  <2>4. Quot(-q, 10) = -s
    <3>1. CASE q = 0
      BY <2>2, <3>1 DEF Quot
    <3>2. CASE q # 0
      <4>1. ~(-q >= 0) /\ -(-q) = q
        BY <2>2, <3>2
      <4>2. Quot(-q, 10) = -((-(-q)) \div 10)
        BY <4>1 DEF Quot
      <4> QED
        BY <2>2, <4>1, <4>2
    <3> QED
      BY <3>1, <3>2
  <2> QED
    BY <2>1, <2>2, <2>3, <2>4
<1> QED
  BY <1>1, <1>2

(* The i-th character that the loop puts into buff. *)
Digit(number, i) ==
  IF i = 1 \/ Quot(number, Power(10, i - 1)) # 0
  THEN 48 + Rem(Quot(number, Power(10, i - 1)), 10)
  ELSE 0

(* buff, without the loop. *)
LEMMA BuffIs ==
  ASSUME NEW number \in Int
  PROVE  Buff(number) = [i \in 1..(4 * Nibbles) |-> Digit(number, i)]
<1> DEFINE N == 4 * Nibbles
           f == [i \in 1..N |-> Quot(number, Power(10, i - 1))]
           Divides(g) == g = [i \in 1..N |-> IF i = 1 THEN number ELSE Quot(g[i - 1], 10)]
           left == CHOOSE g : Divides(g)
<1>1. N \in Nat /\ N >= 1
  BY KprintfAssumption
<1>2. Len(Cleared) = N /\ \A i \in 1..N : Cleared[i] = 0
  <2> HIDE DEF N
  <2>1. Cleared = [i \in 1..N |-> 0]
    BY DEF Cleared, N
  <2> QED
    BY <1>1, <2>1
<1> HIDE DEF N
<1>3. /\ f[1] = number
      /\ \A i \in 2..N : f[i] = Quot(f[i - 1], 10)
  <2>1. f[1] = number
    <3>1. Power(10, 1 - 1) = 1
      BY Powers
    <3>2. f[1] = Quot(number, Power(10, 1 - 1))
      BY <1>1
    <3>3. Quot(number, 1) = number
      BY QuotTwice
    <3> QED
      BY <3>1, <3>2, <3>3
  <2>2. ASSUME NEW i \in 2..N
        PROVE  f[i] = Quot(f[i - 1], 10)
    <3>1. i - 2 \in Nat /\ (i - 2) + 1 = i - 1 /\ i \in 1..N /\ i - 1 \in 1..N /\ (i - 1) - 1 = i - 2
      BY <1>1
    <3>2. /\ Power(10, i - 1) = 10 * Power(10, i - 2)
          /\ Power(10, i - 2) \in Nat /\ Power(10, i - 2) > 0
      <4>1. \A n \in Nat : Power(10, n) \in Nat /\ Power(10, n) > 0 /\ Power(10, n + 1) = 10 * Power(10, n)
        BY PowersOfTen
      <4> DEFINE j == i - 2
      <4>2. j \in Nat /\ j + 1 = i - 1
        BY <3>1
      <4> HIDE DEF j
      <4>3. Power(10, j) \in Nat /\ Power(10, j) > 0 /\ Power(10, i - 1) = 10 * Power(10, j)
        BY <4>1, <4>2
      <4> QED
        BY <4>3 DEF j
    <3>3. Quot(Quot(number, Power(10, i - 2)), 10) = Quot(number, 10 * Power(10, i - 2))
      BY <3>2, QuotTwice
    <3>4. f[i] = Quot(number, Power(10, i - 1)) /\ f[i - 1] = Quot(number, Power(10, i - 2))
      BY <3>1
    <3> HIDE DEF f
    <3> QED
      BY <3>2, <3>3, <3>4
  <2> QED
    BY <2>1, <2>2
<1>4. Divides(left)
  <2>1. Divides(f)
    <3> SUFFICES f = [i \in 1..N |-> IF i = 1 THEN number ELSE Quot(f[i - 1], 10)]
      OBVIOUS
    <3>1. \A i \in 1..N : f[i] = IF i = 1 THEN number ELSE Quot(f[i - 1], 10)
      <4> HIDE DEF f
      <4> QED
        BY <1>1, <1>3
    <3> QED
      BY <3>1
  <2> QED
    BY <2>1
<1>5. Buff(number) = [i \in 1..N |-> IF i = 1 \/ left[i] # 0 THEN 48 + Rem(left[i], 10) ELSE Cleared[i]]
  BY <1>2 DEF Buff, left, Divides
<1> HIDE DEF left
<1>6. \A i \in 1..N : left[i] = IF i = 1 THEN number ELSE Quot(left[i - 1], 10)
  BY <1>4
<1> DEFINE T == {i \in 0..N : i = 0 \/ left[i] = f[i]}
<1> HIDE DEF f
<1>7. 0 \in T
  BY <1>1
<1>8. ASSUME NEW i \in 1..N, i - 1 \in T
      PROVE  i \in T
  <2>1. CASE i = 1
    BY <1>1, <1>3, <1>6, <2>1
  <2>2. CASE i # 1
    <3>1. i \in 2..N /\ i - 1 # 0
      BY <1>1, <2>2
    <3>2. left[i] = Quot(left[i - 1], 10) /\ left[i - 1] = f[i - 1] /\ f[i] = Quot(f[i - 1], 10)
      BY <1>3, <1>6, <1>8, <2>2, <3>1
    <3> QED
      BY <1>1, <3>2
  <2> QED
    BY <2>1, <2>2
<1>9. 0..N \subseteq T
  <2> HIDE DEF T
  <2> QED
    BY <1>1, <1>7, <1>8, InductionUpTo
<1>10. ASSUME NEW i \in 1..N
       PROVE  left[i] = Quot(number, Power(10, i - 1)) /\ Cleared[i] = 0
  <2>1. i \in T /\ i # 0
    BY <1>1, <1>9
  <2> QED
    BY <1>2, <2>1 DEF f
<1> QED
  BY <1>5, <1>10 DEF Digit, N

(* The string that ends before the first zero. *)
Ends(str, n) == (\A i \in 1..n : str[i] # 0) /\ (n < Len(str) => str[n + 1] = 0)

(* There is one place where a string ends, and strlen finds it. *)
LEMMA StringEnds ==
  ASSUME NEW str \in Seq(Int)
  PROVE  strlen(str) \in 0..Len(str) /\ Ends(str, strlen(str))
<1> DEFINE T == {n \in 0..Len(str) : n < Len(str) => str[n + 1] = 0}
<1>1. Len(str) \in T /\ T \subseteq Nat
  OBVIOUS
<1>2. PICK n \in T : \A k \in T : n <= k
  BY <1>1, LeastNumber, Zenon
<1>3. ASSUME NEW i \in 1..n
      PROVE  str[i] # 0
  <2>1. i - 1 \in 0..Len(str) /\ ~(n <= i - 1) /\ (i - 1) + 1 = i
    BY <1>2
  <2>2. i - 1 \notin T
    BY <1>2, <2>1
  <2> QED
    BY <2>1, <2>2
<1>4. n \in 0..Len(str) /\ Ends(str, n)
  BY <1>2, <1>3 DEF Ends
<1>5. strlen(str) = CHOOSE k \in 0..Len(str) : Ends(str, k)
  BY DEF strlen, Ends
<1> QED
  BY <1>4, <1>5, Zenon

(* strlen finds no other. *)
LEMMA StrlenIs ==
  ASSUME NEW str \in Seq(Int), NEW n \in 0..Len(str), Ends(str, n)
  PROVE  strlen(str) = n
<1> DEFINE m == strlen(str)
<1>1. m \in 0..Len(str) /\ Ends(str, m)
  BY StringEnds
<1> HIDE DEF m
<1>2. ~(m < n)
  <2> SUFFICES ASSUME m < n PROVE FALSE
    OBVIOUS
  <2>1. m + 1 \in 1..n /\ m < Len(str)
    BY <1>1
  <2> QED
    BY <1>1, <2>1 DEF Ends
<1>3. ~(n < m)
  <2> SUFFICES ASSUME n < m PROVE FALSE
    OBVIOUS
  <2>1. n + 1 \in 1..m /\ n < Len(str)
    BY <1>1
  <2> QED
    BY <1>1, <2>1 DEF Ends
<1> QED
  BY <1>1, <1>2, <1>3 DEF m

(* What is in buff are characters, even those of the least integer. *)
LEMMA BuffType ==
  ASSUME NEW number \in Int
  PROVE  /\ Buff(number) \in Seq(Chars) /\ Buff(number) \in Seq(Int)
         /\ Len(Buff(number)) = 4 * Nibbles
         /\ \A i \in 1..(4 * Nibbles) : Buff(number)[i] = Digit(number, i)
<1> DEFINE N == 4 * Nibbles
<1>1. N \in Nat
  BY KprintfAssumption
<1>2. ASSUME NEW i \in 1..N
      PROVE  Digit(number, i) \in Chars
  <2> DEFINE q == Quot(number, Power(10, i - 1))
  <2>1. q \in Int
    <3>1. i - 1 \in Nat
      OBVIOUS
    <3>2. Power(10, i - 1) \in Nat /\ Power(10, i - 1) > 0
      BY <3>1, PowersOfTen
    <3> QED
      BY <3>2, QuotTwice
  <2>2. Digit(number, i) = 48 + Rem(q, 10) \/ Digit(number, i) = 0
    BY DEF Digit
  <2> HIDE DEF q
  <2>3. Rem(q, 10) \in -9..9
    <3>1. CASE q >= 0
      BY <2>1, <3>1 DEF Rem, Quot
    <3>2. CASE q < 0
      BY <2>1, <3>2 DEF Rem, Quot
    <3> QED
      BY <2>1, <3>1, <3>2
  <2> QED
    BY <2>2, <2>3 DEF Chars
<1>3. Buff(number) = [i \in 1..N |-> Digit(number, i)]
  BY BuffIs
<1> HIDE DEF N
<1>4. Buff(number) \in Seq(Chars) /\ Len(Buff(number)) = N
  BY <1>1, <1>2, <1>3
<1>5. \A i \in 1..N : Buff(number)[i] = Digit(number, i)
  BY <1>3
<1>6. Buff(number) \in Seq(Int)
  <2>1. \A i \in 1..N : Digit(number, i) \in Int
    BY <1>2 DEF Chars
  <2> QED
    BY <1>1, <1>3, <2>1
<1> QED
  BY <1>4, <1>5, <1>6 DEF N

(* The digits of buff, from the last to the first. *)
Written(number) == Reverse(SubSeq(Buff(number), 1, strlen(Buff(number))))

(* They are characters, even those of the least integer. *)
LEMMA WrittenType ==
  ASSUME NEW number \in Int
  PROVE  /\ Written(number) \in Seq(Chars)
         /\ Len(Written(number)) = strlen(Buff(number))
         /\ \A i \in 1..strlen(Buff(number)) :
              Written(number)[i] = Buff(number)[strlen(Buff(number)) - i + 1]
<1> DEFINE b == Buff(number)
           n == strlen(b)
           front == SubSeq(b, 1, n)
<1>1. b \in Seq(Chars) /\ n \in 0..Len(b)
  BY BuffType, StringEnds
<1>2. Written(number) = Reverse(front)
  BY DEF Written
<1> HIDE DEF b, n
<1>3. front \in Seq(Chars) /\ Len(front) = n /\ \A i \in 1..n : front[i] = b[i]
  BY <1>1
<1>4. n \in Nat
  BY <1>1
<1> HIDE DEF front
<1>5. Reverse(front) = [i \in 1..n |-> front[(n - i) + 1]]
  BY <1>3 DEF Reverse
<1>6. ASSUME NEW i \in 1..n
      PROVE  front[(n - i) + 1] = b[n - i + 1] /\ front[(n - i) + 1] \in Chars
  <2>1. (n - i) + 1 \in 1..n
    BY <1>4
  <2> QED
    BY <1>3, <2>1
<1>7. Reverse(front) \in Seq(Chars) /\ Len(Reverse(front)) = n
  BY <1>4, <1>5, <1>6
<1>8. \A i \in 1..n : Reverse(front)[i] = b[n - i + 1]
  BY <1>5, <1>6
<1> QED
  BY <1>2, <1>7, <1>8 DEF b, n

(* The number of decimal digits of a number that there is room for. *)
LEMMA LengthIs ==
  ASSUME NEW n \in Nat, n < Power(10, 4 * Nibbles)
  PROVE  /\ Length(n, 10) \in 1..(4 * Nibbles) /\ n < Power(10, Length(n, 10))
         /\ \A j \in 1..(Length(n, 10) - 1) : Power(10, j) <= n
<1> DEFINE N == 4 * Nibbles
           T == {k \in 1..N : n < Power(10, k)}
           Fits(k) == n < Power(10, k) /\ \A j \in 1..(k - 1) : Power(10, j) <= n
<1>1. N \in Nat /\ N >= 1
  BY KprintfAssumption
<1>2. N \in T /\ T \subseteq Nat
  BY <1>1
<1>3. PICK k \in T : \A j \in T : k <= j
  BY <1>2, LeastNumber, Zenon
<1>4. k \in 1..N /\ n < Power(10, k)
  BY <1>3
<1>5. ASSUME NEW j \in 1..(k - 1)
      PROVE  Power(10, j) <= n
  <2>1. j \in 1..N /\ ~(k <= j)
    BY <1>1, <1>4
  <2>2. ~(n < Power(10, j))
    BY <1>3, <2>1
  <2>3. Power(10, j) \in Nat
    BY <2>1, PowersOfTen
  <2> QED
    BY <2>2, <2>3
<1>6. k \in 1..N /\ Fits(k)
  BY <1>4, <1>5
<1>7. Length(n, 10) = CHOOSE i \in 1..N : Fits(i)
  BY DEF Length
<1> HIDE DEF Fits, N
<1>8. Length(n, 10) \in 1..N /\ Fits(Length(n, 10))
  BY <1>6, <1>7, Zenon
<1> QED
  BY <1>8 DEF Fits, N

(* The digits in buff of a number that is not negative. *)
LEMMA DigitIs ==
  ASSUME NEW n \in Nat, NEW i \in Nat \ {0}
  PROVE  /\ n \div Power(10, i - 1) \in Nat
         /\ i = 1 \/ Power(10, i - 1) <= n => Digit(n, i) = digits((n \div Power(10, i - 1)) % 10)
         /\ i # 1 /\ n < Power(10, i - 1) => Digit(n, i) = 0
<1> DEFINE p == Power(10, i - 1)
           q == n \div p
<1>1. p \in Nat /\ p > 0
  <2>1. i - 1 \in Nat
    OBVIOUS
  <2> QED
    BY <2>1, PowersOfTen
<1>2. Digit(n, i) = IF i = 1 \/ Quot(n, p) # 0 THEN 48 + Rem(Quot(n, p), 10) ELSE 0
  BY DEF Digit
<1>3. Quot(n, p) = q
  BY DEF Quot
<1> HIDE DEF p
<1>4. q \in Nat /\ (n < p <=> q = 0)
  BY <1>1, Division
<1> HIDE DEF q
<1>5. Rem(q, 10) = q % 10 /\ q % 10 \in 0..9
  <2>1. Quot(q, 10) = q \div 10
    BY <1>4 DEF Quot
  <2>2. q = 10 * (q \div 10) + (q % 10) /\ q % 10 \in 0..9
    BY <1>4
  <2>3. Rem(q, 10) = q - 10 * (q \div 10)
    BY <2>1 DEF Rem
  <2> QED
    BY <1>4, <2>2, <2>3
<1>6. digits(q % 10) = 48 + (q % 10)
  BY <1>5 DEF digits
<1>7. i = 1 \/ p <= n => Digit(n, i) = digits(q % 10)
  BY <1>1, <1>2, <1>3, <1>4, <1>5, <1>6
<1>8. i # 1 /\ n < p => Digit(n, i) = 0
  BY <1>2, <1>3, <1>4
<1> QED
  BY <1>4, <1>7, <1>8 DEF p, q

(* The digits that are written are the numeral. *)
LEMMA DecimalDigits ==
  ASSUME NEW n \in Nat, n < Power(16, Nibbles)
  PROVE  Written(n) = Numeral(n, 10, Length(n, 10))
<1> DEFINE N == 4 * Nibbles
           k == Length(n, 10)
           b == Buff(n)
           numeral == Numeral(n, 10, k)
           written == Written(n)
<1>1. N \in Nat /\ n < Power(10, 4 * Nibbles)
  <2>1. Nibbles \in Nat /\ N \in Nat
    BY KprintfAssumption
  <2>2. Power(16, Nibbles) <= Power(10, N)
    BY <2>1, WordsHaveRoom
  <2>3. Power(16, Nibbles) \in Nat /\ Power(10, N) \in Nat
    <3>1. 16 \in Nat
      OBVIOUS
    <3>2. Power(16, Nibbles) \in Nat
      BY <2>1, <3>1, Powers
    <3> HIDE DEF N
    <3>3. Power(10, N) \in Nat
      BY <2>1, PowersOfTen
    <3> QED
      BY <3>2, <3>3
  <2> QED
    BY <2>1, <2>2, <2>3
<1>2. k \in 1..N /\ n < Power(10, k) /\ \A j \in 1..(k - 1) : Power(10, j) <= n
  BY <1>1, LengthIs
<1>3. b \in Seq(Int) /\ Len(b) = N /\ \A i \in 1..N : b[i] = Digit(n, i)
  BY BuffType
<1>4. written \in Seq(Chars) /\ Len(written) = strlen(b)
      /\ \A i \in 1..strlen(b) : written[i] = b[strlen(b) - i + 1]
  <2>1. n \in Int
    OBVIOUS
  <2> QED
    BY <2>1, WrittenType, Zenon
<1>5. numeral \in Seq(Chars) /\ numeral = [i \in 1..k |-> digits((n \div Power(10, k - i)) % 10)]
  <2>1. k \in Nat
    BY <1>1, <1>2
  <2> HIDE DEF k
  <2> QED
    BY <2>1, NumeralType DEF Numeral
<1> HIDE DEF N, k, b, numeral, written
<1>6. ASSUME NEW i \in 1..k
      PROVE  b[i] = digits((n \div Power(10, i - 1)) % 10) /\ b[i] # 0
  <2>1. i \in 1..N /\ i \in Nat \ {0}
    BY <1>1, <1>2
  <2>2. i = 1 \/ Power(10, i - 1) <= n
    <3>1. CASE i # 1
      <4>1. i - 1 \in 1..(k - 1)
        BY <1>2, <3>1
      <4> QED
        BY <1>2, <4>1
    <3> QED
      BY <3>1
  <2>3. b[i] = digits((n \div Power(10, i - 1)) % 10) /\ n \div Power(10, i - 1) \in Nat
    BY <1>3, <2>1, <2>2, DigitIs
  <2> DEFINE q == n \div Power(10, i - 1)
  <2>4. b[i] = digits(q % 10) /\ q \in Nat
    BY <2>3
  <2> HIDE DEF q
  <2>5. digits(q % 10) # 0
    BY <2>4 DEF digits
  <2> QED
    BY <2>3, <2>4, <2>5
<1>7. k < N => b[k + 1] = 0
  <2> SUFFICES ASSUME k < N PROVE b[k + 1] = 0
    OBVIOUS
  <2> DEFINE i == k + 1
  <2>1. i \in 1..N /\ i \in Nat \ {0} /\ i # 1 /\ i - 1 = k
    BY <1>1, <1>2
  <2> HIDE DEF i
  <2>2. n < Power(10, i - 1)
    BY <1>2, <2>1
  <2>3. Digit(n, i) = 0
    BY <2>1, <2>2, DigitIs
  <2> QED
    BY <1>3, <2>1, <2>3 DEF i
<1>8. strlen(b) = k
  <2>1. k \in 0..Len(b) /\ Ends(b, k)
    BY <1>1, <1>2, <1>3, <1>6, <1>7 DEF Ends
  <2> QED
    BY <1>3, <2>1, StrlenIs
<1>9. Len(numeral) = k /\ \A i \in 1..k : numeral[i] = digits((n \div Power(10, k - i)) % 10)
  BY <1>1, <1>2, <1>5
<1>10. ASSUME NEW i \in 1..k
       PROVE  written[i] = numeral[i]
  <2> DEFINE j == k - i + 1
  <2>1. j \in 1..k /\ j - 1 = k - i
    BY <1>1, <1>2
  <2>2. written[i] = b[j]
    BY <1>4, <1>8
  <2> HIDE DEF j
  <2>3. b[j] = digits((n \div Power(10, j - 1)) % 10)
    BY <1>6, <2>1
  <2>4. numeral[i] = digits((n \div Power(10, k - i)) % 10)
    BY <1>9
  <2> QED
    BY <2>1, <2>2, <2>3, <2>4
<1>11. written = numeral
  BY <1>4, <1>5, <1>8, <1>9, <1>10, SeqEqual
<1> QED
  BY <1>11 DEF written, numeral, k

(* What is printed of an item, by its kind. *)
LEMMA ItemTypes ==
  ASSUME NEW item \in Items
  PROVE  \/ item.kind = "%"
         \/ item.kind = "d" /\ item.arg[1] \in Ints
         \/ item.kind = "x" /\ item.arg[1] \in Words
         \/ item.kind \in {"c", "s", "text"} /\ item.arg \in Seq(Chars)
  BY DEF Items

(* The bounds of the integers of C. *)
LEMMA IntsBounds ==
  /\ LeastInt \in Int /\ Ints \subseteq Int
  /\ \A n \in Ints \ {LeastInt} :
       /\ n >= 0 => n \in Nat /\ n < Power(16, Nibbles)
       /\ n < 0 => -n \in Nat /\ -n < Power(16, Nibbles)
<1> DEFINE w == Power(16, Nibbles)
<1>1. w \in Nat /\ w > 0
  <2>1. Nibbles \in Nat /\ 16 \in Nat
    BY KprintfAssumption
  <2>2. w \in Nat
    BY <2>1, Powers, Zenon
  <2>3. Nibbles <= Nibbles /\ 16 > 0
    BY <2>1
  <2>4. w > 0
    BY <2>1, <2>3, PowersGrow, Zenon
  <2> QED
    BY <2>2, <2>4
<1>2. LeastInt = -(w \div 2) /\ Ints = LeastInt..(-LeastInt - 1)
  BY DEF LeastInt, Ints
<1> HIDE DEF w
<1> DEFINE h == w \div 2
<1>3. h \in Nat /\ h <= w
  BY <1>1
<1> HIDE DEF h
<1>4. LeastInt = -h
  BY <1>2 DEF h
<1> QED
  BY <1>1, <1>2, <1>3, <1>4 DEF w

(***************************************************************************)
(* kprintf's conversions (kprintf.cpp:20-66): %d and %x make the digits    *)
(* that a reader expects, without leading zeros and in all the digits of a *)
(* word, for words of any width and for every argument but the least       *)
(* integer with %d, which cannot be negated.                               *)
(***************************************************************************)
THEOREM DigitsReadBack ==
  \A item \in Items :
    ~(item.kind = "d" /\ item.arg[1] = LeastInt) => Printed(item) = Meant(item)
<1> SUFFICES ASSUME NEW item \in Items, ~(item.kind = "d" /\ item.arg[1] = LeastInt)
             PROVE  Printed(item) = Meant(item)
  OBVIOUS
<1>1. CASE item.kind = "%"
  BY <1>1 DEF Printed, Meant
<1>2. CASE item.kind = "x"
  <2>1. Printed(item) = kprintf_internal_hex(item.arg[1])
    BY <1>2 DEF Printed
  <2>2. Meant(item) = Numeral(item.arg[1], 16, Nibbles)
    BY <1>2 DEF Meant
  <2>3. item.arg[1] \in Words
    BY <1>2, ItemTypes
  <2> QED
    BY <2>1, <2>2, <2>3, HexDigits
<1>3. CASE item.kind = "d"
  <2> DEFINE n == item.arg[1]
             minus == IF n < 0 THEN <<45>> ELSE << >>
             size == IF n < 0 THEN -n ELSE n
  <2>1. n \in Ints \ {LeastInt}
    BY <1>3, ItemTypes
  <2>2. Printed(item) = kprintf_internal_number(n)
    BY <1>3 DEF Printed
  <2>3. Meant(item) = minus \o Numeral(size, 10, Length(size, 10))
    BY <1>3 DEF Meant
  <2> HIDE DEF n
  <2>4. n \in Int /\ size \in Nat /\ size < Power(16, Nibbles) /\ Negated(n) = -n
    BY <2>1, IntsBounds DEF Negated
  <2>5. kprintf_internal_number(n) = IF n < 0 THEN <<45>> \o Written(size) ELSE Written(size)
    BY <2>4 DEF kprintf_internal_number, Written
  <2> HIDE DEF size
  <2>6. Written(size) = Numeral(size, 10, Length(size, 10)) /\ Written(size) \in Seq(Chars)
    BY <2>4, DecimalDigits, WrittenType
  <2> DEFINE written == Written(size)
  <2>7. << >> \o written = written
    <3>1. written \in Seq(Chars)
      BY <2>6
    <3> HIDE DEF written
    <3> QED
      BY <3>1
  <2> QED
    BY <2>2, <2>3, <2>5, <2>6, <2>7
<1>4. CASE item.kind \in {"c", "s", "text"}
  BY <1>4 DEF Printed, Meant
<1> QED
  BY <1>1, <1>2, <1>3, <1>4, ItemTypes

(* What is printed are characters. *)
LEMMA PrintedType ==
  ASSUME NEW item \in Items
  PROVE  Printed(item) \in Seq(Chars)
<1>1. CASE item.kind = "%"
  BY <1>1 DEF Printed, Chars
<1>2. CASE item.kind = "x"
  <2>1. Printed(item) = kprintf_internal_hex(item.arg[1])
    BY <1>2 DEF Printed
  <2>2. item.arg[1] \in Words
    BY <1>2, ItemTypes
  <2>3. item.arg[1] \in Nat /\ Nibbles \in Nat
    BY <2>2, KprintfAssumption DEF Words
  <2> QED
    BY <2>1, <2>2, <2>3, HexDigits, NumeralType
<1>3. CASE item.kind = "d"
  <2> DEFINE n == item.arg[1]
             size == IF n < 0 THEN Negated(n) ELSE n
  <2>1. n \in Ints
    BY <1>3, ItemTypes
  <2>2. Printed(item) = kprintf_internal_number(n)
    BY <1>3 DEF Printed
  <2> HIDE DEF n
  <2>3. size \in Int
    BY <2>1, IntsBounds DEF Negated
  <2>4. kprintf_internal_number(n) = IF n < 0 THEN <<45>> \o Written(size) ELSE Written(size)
    BY DEF kprintf_internal_number, Written
  <2> HIDE DEF size
  <2>5. Written(size) \in Seq(Chars)
    BY <2>3, WrittenType
  <2>6. <<45>> \in Seq(Chars)
    BY DEF Chars
  <2>7. <<45>> \o Written(size) \in Seq(Chars)
    BY <2>5, <2>6
  <2> QED
    BY <2>2, <2>4, <2>5, <2>7
<1>4. CASE item.kind \in {"c", "s", "text"}
  BY <1>4, ItemTypes DEF Printed
<1> QED
  BY <1>1, <1>2, <1>3, <1>4, ItemTypes

(* What kprintf makes of a format are characters. *)
LEMMA KprintfType ==
  ASSUME NEW fmt \in Seq(Items)
  PROVE  /\ [i \in DOMAIN fmt |-> Printed(fmt[i])] \in Seq(Seq(Chars))
         /\ kprintf_internal(fmt) \in Seq(Chars)
<1>1. \A i \in 1..Len(fmt) : Printed(fmt[i]) \in Seq(Chars)
  BY PrintedType
<1>2. [i \in DOMAIN fmt |-> Printed(fmt[i])] \in Seq(Seq(Chars))
  BY <1>1
<1> QED
  BY <1>2, FlattenType DEF kprintf_internal

-----------------------------------------------------------------------------
(* To flatten in two parts. *)
LEMMA FlattenParts ==
  ASSUME NEW S, NEW s \in Seq(Seq(S)), NEW t \in Seq(Seq(S)), NEW u,
         u = [i \in 1..(Len(s) + Len(t)) |-> IF i <= Len(s) THEN s[i] ELSE t[i - Len(s)]]
  PROVE  FlattenSeq(u) = FlattenSeq(s) \o FlattenSeq(t)
<1>1. u = s \o t
  <2> DEFINE v == s \o t
  <2>1. /\ v \in Seq(Seq(S)) /\ Len(v) = Len(s) + Len(t)
        /\ \A i \in 1..Len(v) : v[i] = IF i <= Len(s) THEN s[i] ELSE t[i - Len(s)]
    OBVIOUS
  <2> HIDE DEF v
  <2>2. v = [i \in 1..Len(v) |-> v[i]]
    BY <2>1
  <2>3. u = v
    BY <2>1, <2>2
  <2> QED
    BY <2>3 DEF v
<1> QED
  BY <1>1, FlattenConcat, Zenon

(* No item prints the least integer. *)
Plain(items) ==
  \A i \in DOMAIN items : ~(items[i].kind = "d" /\ items[i].arg[1] = LeastInt)

Meanings(items) == [i \in DOMAIN items |-> Meant(items[i])]

(* Such items print what they mean. *)
LEMMA PlainItems ==
  ASSUME NEW items \in Seq(Items), Plain(items)
  PROVE  /\ Meanings(items) \in Seq(Seq(Chars))
         /\ kprintf_internal(items) = FlattenSeq(Meanings(items))
         /\ FlattenSeq(Meanings(items)) \in Seq(Chars)
<1>1. \A i \in DOMAIN items : Printed(items[i]) = Meant(items[i])
  <2>1. \A i \in DOMAIN items : items[i] \in Items
    OBVIOUS
  <2> QED
    BY <2>1, DigitsReadBack, Zenon DEF Plain
<1>2. [i \in DOMAIN items |-> Printed(items[i])] = Meanings(items)
  BY <1>1 DEF Meanings
<1> QED
  BY <1>2, KprintfType, FlattenType DEF kprintf_internal

(* What two formats mean is put together. *)
LEMMA MeaningOfParts ==
  ASSUME NEW s \in Seq(Items), NEW t \in Seq(Items), Plain(s), Plain(t)
  PROVE  /\ s \o t \in Seq(Items) /\ Plain(s \o t)
         /\ FlattenSeq(Meanings(s \o t)) = FlattenSeq(Meanings(s)) \o FlattenSeq(Meanings(t))
<1> DEFINE u == s \o t
           m == Len(s)
           n == Len(t)
           ms == Meanings(s)
           mt == Meanings(t)
<1>1. /\ u \in Seq(Items) /\ DOMAIN u = 1..(m + n) /\ m \in Nat /\ n \in Nat
      /\ \A i \in 1..(m + n) : u[i] = IF i <= m THEN s[i] ELSE t[i - m]
  OBVIOUS
<1>2. DOMAIN s = 1..m /\ DOMAIN t = 1..n
  OBVIOUS
<1>3. ms \in Seq(Seq(Chars)) /\ mt \in Seq(Seq(Chars))
  BY PlainItems
<1>4. ms = [i \in 1..m |-> Meant(s[i])] /\ mt = [i \in 1..n |-> Meant(t[i])]
  BY <1>2, Zenon DEF Meanings
<1> HIDE DEF u, m, n, ms, mt
<1>5. Len(ms) = m /\ Len(mt) = n
  BY <1>1, <1>4
<1>6. ASSUME NEW i \in 1..(m + n)
      PROVE  Meant(u[i]) = IF i <= m THEN ms[i] ELSE mt[i - m]
  <2>1. CASE i <= m
    <3>1. i \in 1..m
      BY <1>1, <2>1
    <3>2. u[i] = s[i] /\ ms[i] = Meant(s[i])
      BY <1>1, <1>4, <2>1, <3>1
    <3> QED
      BY <2>1, <3>2, Zenon
  <2>2. CASE ~(i <= m)
    <3>1. i - m \in 1..n
      BY <1>1, <2>2
    <3>2. u[i] = t[i - m] /\ mt[i - m] = Meant(t[i - m])
      BY <1>1, <1>4, <2>2, <3>1
    <3> QED
      BY <2>2, <3>2, Zenon
  <2> QED
    BY <2>1, <2>2
<1>7. Meanings(u) = [i \in 1..(m + n) |-> IF i <= m THEN ms[i] ELSE mt[i - m]]
  <2>1. Meanings(u) = [i \in 1..(m + n) |-> Meant(u[i])]
    BY <1>1, Zenon DEF Meanings
  <2> QED
    BY <1>6, <2>1
<1>8. FlattenSeq(Meanings(u)) = FlattenSeq(ms) \o FlattenSeq(mt)
  BY <1>3, <1>5, <1>7, FlattenParts
<1>9. Plain(u)
  <2> SUFFICES ASSUME NEW i \in 1..(m + n)
               PROVE  ~(u[i].kind = "d" /\ u[i].arg[1] = LeastInt)
    BY <1>1, Zenon DEF Plain
  <2>1. CASE i <= m
    <3>1. i \in DOMAIN s
      BY <1>1, <1>2, <2>1
    <3> QED
      BY <1>1, <2>1, <3>1 DEF Plain
  <2>2. CASE ~(i <= m)
    <3>1. i - m \in DOMAIN t
      BY <1>1, <1>2, <2>2
    <3> QED
      BY <1>1, <2>2, <3>1 DEF Plain
  <2> QED
    BY <2>1, <2>2
<1> QED
  BY <1>1, <1>8, <1>9 DEF u, ms, mt

(* What putc makes of a character. *)
WithReturn(c) == IF c = NEWLINE THEN <<NEWLINE, RETURN>> ELSE <<c>>

(* A text with its returns is put together of its parts with theirs. *)
LEMMA ReturnsOfParts ==
  ASSUME NEW s \in Seq(Chars), NEW t \in Seq(Chars)
  PROVE  /\ WithReturns(s) \in Seq(Chars)
         /\ WithReturns(s \o t) = WithReturns(s) \o WithReturns(t)
<1> DEFINE M(text) == [i \in DOMAIN text |-> WithReturn(text[i])]
           u == s \o t
           m == Len(s)
           n == Len(t)
<1>1. \A text : WithReturns(text) = FlattenSeq(M(text))
  BY DEF WithReturns, WithReturn
<1>2. ASSUME NEW text \in Seq(Chars)
      PROVE  /\ M(text) \in Seq(Seq(Chars)) /\ Len(M(text)) = Len(text)
             /\ \A i \in 1..Len(text) : M(text)[i] = WithReturn(text[i])
  <2>1. ASSUME NEW c \in Chars
        PROVE  WithReturn(c) \in Seq(Chars)
    <3>1. NEWLINE \in Chars /\ RETURN \in Chars
      BY DEF NEWLINE, RETURN, Chars
    <3> HIDE DEF NEWLINE, RETURN
    <3>2. <<c>> \in Seq(Chars) /\ <<NEWLINE, RETURN>> \in Seq(Chars)
      BY <3>1
    <3> QED
      BY <3>2 DEF WithReturn
  <2>2. \A i \in 1..Len(text) : WithReturn(text[i]) \in Seq(Chars)
    BY <2>1
  <2>3. DOMAIN text = 1..Len(text) /\ Len(text) \in Nat
    OBVIOUS
  <2> QED
    BY <2>2, <2>3
<1>3. /\ u \in Seq(Chars) /\ Len(u) = m + n /\ m \in Nat /\ n \in Nat /\ DOMAIN u = 1..(m + n)
      /\ \A i \in 1..(m + n) : u[i] = IF i <= m THEN s[i] ELSE t[i - m]
  OBVIOUS
<1> DEFINE ms == M(s)
           mt == M(t)
<1>4. /\ ms \in Seq(Seq(Chars)) /\ Len(ms) = m /\ \A i \in 1..m : ms[i] = WithReturn(s[i])
      /\ mt \in Seq(Seq(Chars)) /\ Len(mt) = n /\ \A i \in 1..n : mt[i] = WithReturn(t[i])
  BY <1>2
<1>5. M(u) = [i \in 1..(m + n) |-> WithReturn(u[i])]
  BY <1>3, Zenon
<1>6. WithReturns(s) = FlattenSeq(ms) /\ WithReturns(t) = FlattenSeq(mt) /\ WithReturns(u) = FlattenSeq(M(u))
  BY <1>1
<1> DEFINE mu == M(u)
<1> HIDE DEF mu, u, m, n, ms, mt, M
<1>7. ASSUME NEW i \in 1..(m + n)
      PROVE  WithReturn(u[i]) = IF i <= m THEN ms[i] ELSE mt[i - m]
  <2>1. CASE i <= m
    <3>1. i \in 1..m
      BY <1>3, <2>1
    <3> QED
      BY <1>3, <1>4, <2>1, <3>1
  <2>2. CASE ~(i <= m)
    <3>1. i - m \in 1..n
      BY <1>3, <2>2
    <3> QED
      BY <1>3, <1>4, <2>2, <3>1
  <2> QED
    BY <2>1, <2>2
<1>8. mu = [i \in 1..(m + n) |-> IF i <= m THEN ms[i] ELSE mt[i - m]]
  <2>1. mu = [i \in 1..(m + n) |-> WithReturn(u[i])]
    BY <1>5 DEF mu
  <2> QED
    BY <1>7, <2>1
<1>9. FlattenSeq(mu) = FlattenSeq(ms) \o FlattenSeq(mt)
  BY <1>4, <1>8, FlattenParts
<1>10. FlattenSeq(ms) \in Seq(Chars)
  BY <1>4, FlattenType
<1> QED
  BY <1>6, <1>9, <1>10 DEF mu, u

(* The same for the first character and the others. *)
LEMMA ReturnsOfOne ==
  /\ WithReturns(<< >>) = << >>
  /\ \A c \in Chars : WithReturns(<<c>>) = WithReturn(c)
<1>1. WithReturns(<< >>) = << >>
  <2>1. [i \in DOMAIN << >> |-> IF << >>[i] = NEWLINE THEN <<NEWLINE, RETURN>> ELSE <<(<< >>[i])>>] = << >>
    OBVIOUS
  <2> QED
    BY <2>1, FlattenEmpty DEF WithReturns
<1>2. ASSUME NEW c \in Chars
      PROVE  WithReturns(<<c>>) = WithReturn(c)
  <2> DEFINE text == <<c>>
             m == [i \in DOMAIN text |-> IF text[i] = NEWLINE THEN <<NEWLINE, RETURN>> ELSE <<text[i]>>]
  <2>1. WithReturns(text) = FlattenSeq(m)
    BY DEF WithReturns
  <2>2. m = <<WithReturn(c)>>
    BY DEF WithReturn
  <2> QED
    BY <2>1, <2>2, FlattenOne
<1> QED
  BY <1>1, <1>2

-----------------------------------------------------------------------------
(* acc is done without n of its characters: e says which are left. *)
Picks(e, acc, done) ==
  /\ e \in [1..Len(acc) -> 1..Len(done)]
  /\ \A j \in 1..Len(acc) : acc[j] = done[e[j]]
  /\ \A i, j \in 1..Len(acc) : i < j => e[i] < e[j]

Keeps(acc, n, done) == Len(acc) + n = Len(done) /\ \E e : Picks(e, acc, done)

(* Of nothing, nothing is lost. *)
LEMMA KeepsNothing == Keeps(<< >>, 0, << >>)
<1>1. Picks(<< >>, << >>, << >>)
  BY DEF Picks
<1> QED
  BY <1>1 DEF Keeps

(* One more character, that is kept. *)
LEMMA KeepsAccepted ==
  ASSUME NEW S, NEW acc \in Seq(S), NEW done \in Seq(S), NEW n \in Nat, NEW c \in S,
         Keeps(acc, n, done)
  PROVE  Keeps(Append(acc, c), n, Append(done, c))
<1> DEFINE k == Len(acc)
           l == Len(done)
           acc2 == Append(acc, c)
           done2 == Append(done, c)
<1>1. /\ k \in Nat /\ l \in Nat /\ Len(acc2) = k + 1 /\ Len(done2) = l + 1
      /\ \A i \in 1..k : acc2[i] = acc[i]
      /\ \A i \in 1..l : done2[i] = done[i]
      /\ acc2[k + 1] = c /\ done2[l + 1] = c
  OBVIOUS
<1>2. PICK e : Picks(e, acc, done)
  BY DEF Keeps
<1>3. k + n = l
  BY DEF Keeps
<1> HIDE DEF acc2, done2
<1> DEFINE e2 == [j \in 1..(k + 1) |-> IF j = k + 1 THEN l + 1 ELSE e[j]]
<1>4. /\ \A j \in 1..k : e[j] \in 1..l /\ acc[j] = done[e[j]]
      /\ \A i, j \in 1..k : i < j => e[i] < e[j]
  BY <1>2 DEF Picks
<1> HIDE DEF k, l
<1>5. /\ e2[k + 1] = l + 1 /\ \A j \in 1..k : e2[j] = e[j]
      /\ \A j \in 1..(k + 1) : j = k + 1 \/ j \in 1..k
  BY <1>1
<1>6. e2 \in [1..(k + 1) -> 1..(l + 1)]
  <2>1. \A j \in 1..(k + 1) : (IF j = k + 1 THEN l + 1 ELSE e[j]) \in 1..(l + 1)
    BY <1>1, <1>4, <1>5
  <2> QED
    BY <2>1
<1> HIDE DEF e2
<1>7. ASSUME NEW j \in 1..(k + 1)
      PROVE  acc2[j] = done2[e2[j]]
  <2>1. CASE j = k + 1
    BY <1>1, <1>5, <2>1, Zenon
  <2>2. CASE j \in 1..k
    <3>1. e2[j] = e[j] /\ e[j] \in 1..l /\ acc2[j] = acc[j] /\ acc[j] = done[e[j]]
      BY <1>1, <1>4, <1>5, <2>2, Zenon
    <3>2. done2[e[j]] = done[e[j]]
      BY <1>1, <3>1, Zenon
    <3> QED
      BY <3>1, <3>2, Zenon
  <2> QED
    BY <1>5, <2>1, <2>2, Zenon
<1>8. ASSUME NEW i \in 1..(k + 1), NEW j \in 1..(k + 1), i < j
      PROVE  e2[i] < e2[j]
  <2>1. i \in 1..k
    BY <1>1, <1>8
  <2>2. e2[i] = e[i] /\ e[i] \in 1..l
    BY <1>4, <1>5, <2>1, Zenon
  <2>3. CASE j = k + 1
    <3>1. e2[j] = l + 1
      BY <1>5, <2>3, Zenon
    <3> QED
      BY <1>1, <2>2, <3>1
  <2>4. CASE j \in 1..k
    <3>1. e2[j] = e[j] /\ e[i] < e[j]
      BY <1>4, <1>5, <1>8, <2>1, <2>4, Zenon
    <3> QED
      BY <2>2, <3>1
  <2> QED
    BY <1>5, <2>3, <2>4, Zenon
<1>9. Picks(e2, acc2, done2)
  BY <1>1, <1>6, <1>7, <1>8 DEF Picks
<1>10. Len(acc2) + n = Len(done2)
  BY <1>1, <1>3
<1> QED
  BY <1>9, <1>10 DEF Keeps, acc2, done2

(* One more character, that is lost. *)
LEMMA KeepsLost ==
  ASSUME NEW S, NEW acc \in Seq(S), NEW done \in Seq(S), NEW n \in Nat, NEW c \in S,
         Keeps(acc, n, done)
  PROVE  Keeps(acc, n + 1, Append(done, c))
<1> DEFINE k == Len(acc)
           l == Len(done)
           done2 == Append(done, c)
<1>1. /\ k \in Nat /\ l \in Nat /\ Len(done2) = l + 1
      /\ \A i \in 1..l : done2[i] = done[i]
  OBVIOUS
<1>2. PICK e : Picks(e, acc, done)
  BY DEF Keeps
<1>3. k + n = l
  BY DEF Keeps
<1> HIDE DEF done2
<1>4. /\ e \in [1..k -> 1..l] /\ \A j \in 1..k : e[j] \in 1..l /\ acc[j] = done[e[j]]
      /\ \A i, j \in 1..k : i < j => e[i] < e[j]
  BY <1>2 DEF Picks
<1>5. e \in [1..k -> 1..(l + 1)]
  <2> HIDE DEF k, l
  <2>1. \A j \in 1..k : e[j] \in 1..(l + 1)
    BY <1>1, <1>4
  <2> QED
    BY <1>4, <2>1
<1>6. Picks(e, acc, done2)
  BY <1>1, <1>4, <1>5 DEF Picks
<1>7. k + (n + 1) = Len(done2)
  BY <1>1, <1>3
<1> QED
  BY <1>6, <1>7 DEF Keeps, done2

(* To look for acc in done, and what is to follow it, finds all of it. *)
LEMMA KeepsIsPartOf ==
  ASSUME NEW S, NEW acc \in Seq(S), NEW done \in Seq(S), NEW rest \in Seq(S),
         NEW n \in Nat, Keeps(acc, n, done)
  PROVE  IsPartOf(acc, done \o rest)
<1> DEFINE k == Len(acc)
           l == Len(done)
           t == done \o rest
           N == Len(t)
           V == 0..k
           Grown(m, i) == IF m < k /\ acc[m + 1] = t[i] THEN m + 1 ELSE m
           step == [p \in V \X (1..N) |-> Grown(p[1], p[2])]
           Matches(g) == g = [i \in 0..N |-> IF i = 0 THEN 0 ELSE Grown(g[i - 1], i)]
           matched == CHOOSE g : Matches(g)
<1>1. k \in Nat /\ l \in Nat /\ N \in Nat /\ l <= N /\ \A i \in 1..l : t[i] = done[i]
  OBVIOUS
<1>2. PICK e : Picks(e, acc, done)
  BY DEF Keeps
<1>3. /\ \A j \in 1..k : e[j] \in 1..l /\ acc[j] = done[e[j]]
      /\ \A i, j \in 1..k : i < j => e[i] < e[j]
  BY <1>2 DEF Picks
<1>4. IsPartOf(acc, t) <=> matched[N] = k
  BY DEF IsPartOf
<1> HIDE DEF k, l, t, N
<1>5. step \in [V \X (1..N) -> V]
  <2> SUFFICES ASSUME NEW p \in V \X (1..N)
               PROVE  Grown(p[1], p[2]) \in V
    OBVIOUS
  <2>1. p[1] \in V
    OBVIOUS
  <2> QED
    BY <1>1, <2>1
<1>6. \A m \in V, i \in 1..N : step[<<m, i>>] = Grown(m, i)
  OBVIOUS
<1>7. 0 \in V
  BY <1>1
<1> HIDE DEF step, V
<1>8. PICK f \in [0..N -> V] : Iterates(f, step, 0, N)
  BY <1>1, <1>5, <1>7, RecursionUpTo
<1> HIDE DEF Grown
<1>9. Matches(f)
  <2>1. \A i \in 1..N : f[i] = Grown(f[i - 1], i)
    <3> SUFFICES ASSUME NEW i \in 1..N
                 PROVE  f[i] = Grown(f[i - 1], i)
      OBVIOUS
    <3>1. i - 1 \in 0..N
      BY <1>1
    <3>2. f[i - 1] \in V
      BY <1>8, <3>1
    <3>3. f[i] = step[<<f[i - 1], i>>]
      BY <1>8 DEF Iterates
    <3> QED
      BY <1>6, <3>2, <3>3
  <2>2. f[0] = 0
    BY <1>8 DEF Iterates
  <2>3. \A i \in 0..N : f[i] = IF i = 0 THEN 0 ELSE Grown(f[i - 1], i)
    BY <1>1, <2>1, <2>2
  <2> QED
    BY <1>8, <2>3
<1>10. Matches(matched)
  <2> HIDE DEF Matches
  <2> QED
    BY <1>9, Zenon
<1> HIDE DEF matched
<1>11. \A i \in 0..N : matched[i] = IF i = 0 THEN 0 ELSE Grown(matched[i - 1], i)
  BY <1>10
<1> DEFINE T == {i \in 0..N : matched[i] \in 0..k /\ \A j \in 1..k : e[j] <= i => j <= matched[i]}
<1>12. 0 \in T
  BY <1>1, <1>3, <1>11
<1>13. ASSUME NEW i \in 1..N, i - 1 \in T
       PROVE  i \in T
  <2> DEFINE m == matched[i - 1]
  <2>1. matched[i] = Grown(m, i)
    BY <1>1, <1>11
  <2>2. m \in 0..k /\ \A j \in 1..k : e[j] <= i - 1 => j <= m
    BY <1>13
  <2> HIDE DEF m
  <2>3. matched[i] \in 0..k /\ m <= matched[i]
    BY <1>1, <2>1, <2>2 DEF Grown
  <2>4. ASSUME NEW j \in 1..k, e[j] <= i
        PROVE  j <= matched[i]
    <3>1. CASE e[j] <= i - 1
      BY <1>1, <2>2, <2>3, <3>1
    <3>2. CASE e[j] = i
      <4>1. j - 1 <= m
        <5>1. CASE j = 1
          BY <2>2, <5>1
        <5>2. CASE j # 1
          <6>1. j - 1 \in 1..k /\ j - 1 < j
            BY <1>1, <5>2
          <6>2. e[j - 1] < e[j] /\ e[j - 1] \in 1..l
            BY <1>3, <6>1
          <6>3. e[j - 1] <= i - 1
            BY <1>1, <3>2, <6>2
          <6> QED
            BY <2>2, <6>1, <6>3
        <5> QED
          BY <5>1, <5>2
      <4>2. CASE m = j - 1
        <5>1. m < k /\ m + 1 = j
          BY <1>1, <4>2
        <5>2. acc[j] = t[i]
          BY <1>1, <1>3, <3>2
        <5>3. Grown(m, i) = m + 1
          BY <5>1, <5>2 DEF Grown
        <5> QED
          BY <2>1, <5>1, <5>3
      <4>3. CASE m # j - 1
        BY <1>1, <2>2, <2>3, <4>1, <4>3
      <4> QED
        BY <4>2, <4>3
    <3>3. e[j] \in Nat
      BY <1>1, <1>3
    <3> QED
      BY <2>4, <3>1, <3>2, <3>3
  <2>5. i \in 0..N
    BY <1>1
  <2> QED
    BY <2>3, <2>4, <2>5
<1>14. 0..N \subseteq T
  <2> HIDE DEF T
  <2> QED
    BY <1>1, <1>12, <1>13, InductionUpTo
<1>15. matched[N] = k
  <2>1. N \in T
    BY <1>1, <1>14
  <2>2. matched[N] \in 0..k /\ \A j \in 1..k : e[j] <= N => j <= matched[N]
    BY <2>1
  <2>3. CASE k = 0
    BY <2>2, <2>3
  <2>4. CASE k # 0
    <3>1. k \in 1..k /\ e[k] <= N
      <4>1. k \in 1..k
        BY <1>1, <2>4
      <4>2. e[k] \in 1..l
        BY <1>3, <4>1
      <4> QED
        BY <1>1, <4>1, <4>2
    <3>2. k <= matched[N]
      BY <2>2, <3>1
    <3> QED
      BY <1>1, <2>2, <3>2
  <2> QED
    BY <2>3, <2>4
<1> QED
  BY <1>4, <1>15 DEF t

-----------------------------------------------------------------------------
Slots == [by : Flows, char : Chars]

(* The characters of f that are in q. *)
Sent(f, q) == FlattenSeq([i \in DOMAIN q |-> IF q[i].by = f THEN <<q[i].char>> ELSE << >>])

(* What f sent is put together like the transmitter's FIFO. *)
LEMMA SentOfParts ==
  ASSUME NEW f \in Flows, NEW q \in Seq(Slots), NEW r \in Seq(Slots)
  PROVE  Sent(f, q) \in Seq(Chars) /\ Sent(f, q \o r) = Sent(f, q) \o Sent(f, r)
<1> DEFINE Of(x) == IF x.by = f THEN <<x.char>> ELSE << >>
           M(s) == [i \in DOMAIN s |-> Of(s[i])]
           u == q \o r
           m == Len(q)
           n == Len(r)
<1>1. \A s : Sent(f, s) = FlattenSeq(M(s))
  BY DEF Sent
<1>2. ASSUME NEW s \in Seq(Slots)
      PROVE  /\ M(s) \in Seq(Seq(Chars)) /\ Len(M(s)) = Len(s)
             /\ \A i \in 1..Len(s) : M(s)[i] = Of(s[i])
  <2>1. ASSUME NEW x \in Slots
        PROVE  Of(x) \in Seq(Chars)
    <3>1. x.char \in Chars
      BY DEF Slots
    <3> QED
      BY <3>1
  <2>2. \A i \in 1..Len(s) : Of(s[i]) \in Seq(Chars)
    BY <2>1
  <2>3. DOMAIN s = 1..Len(s) /\ Len(s) \in Nat
    OBVIOUS
  <2> HIDE DEF Of
  <2> QED
    BY <2>2, <2>3
<1>3. /\ u \in Seq(Slots) /\ Len(u) = m + n /\ m \in Nat /\ n \in Nat /\ DOMAIN u = 1..(m + n)
      /\ \A i \in 1..(m + n) : u[i] = IF i <= m THEN q[i] ELSE r[i - m]
  OBVIOUS
<1> DEFINE mq == M(q)
           mr == M(r)
<1>4. /\ mq \in Seq(Seq(Chars)) /\ Len(mq) = m /\ \A i \in 1..m : mq[i] = Of(q[i])
      /\ mr \in Seq(Seq(Chars)) /\ Len(mr) = n /\ \A i \in 1..n : mr[i] = Of(r[i])
  BY <1>2
<1> HIDE DEF Of
<1>5. M(u) = [i \in 1..(m + n) |-> Of(u[i])]
  BY <1>3, Zenon
<1>6. Sent(f, q) = FlattenSeq(mq) /\ Sent(f, r) = FlattenSeq(mr) /\ Sent(f, u) = FlattenSeq(M(u))
  BY <1>1
<1> DEFINE mu == M(u)
<1> HIDE DEF mu, u, m, n, mq, mr, M
<1>7. ASSUME NEW i \in 1..(m + n)
      PROVE  Of(u[i]) = IF i <= m THEN mq[i] ELSE mr[i - m]
  <2>1. CASE i <= m
    <3>1. i \in 1..m
      BY <1>3, <2>1
    <3> QED
      BY <1>3, <1>4, <2>1, <3>1
  <2>2. CASE ~(i <= m)
    <3>1. i - m \in 1..n
      BY <1>3, <2>2
    <3> QED
      BY <1>3, <1>4, <2>2, <3>1
  <2> QED
    BY <2>1, <2>2
<1>8. mu = [i \in 1..(m + n) |-> IF i <= m THEN mq[i] ELSE mr[i - m]]
  <2>1. mu = [i \in 1..(m + n) |-> Of(u[i])]
    BY <1>5 DEF mu
  <2> QED
    BY <1>7, <2>1
<1>9. FlattenSeq(mu) = FlattenSeq(mq) \o FlattenSeq(mr)
  BY <1>4, <1>8, FlattenParts
<1>10. FlattenSeq(mq) \in Seq(Chars)
  BY <1>4, FlattenType
<1> QED
  BY <1>6, <1>9, <1>10 DEF mu, u

(* The FIFO that is empty, and one with one character. *)
LEMMA SentOfOne ==
  ASSUME NEW f, NEW x
  PROVE  /\ Sent(f, << >>) = << >>
         /\ Sent(f, <<x>>) = IF x.by = f THEN <<x.char>> ELSE << >>
<1>1. Sent(f, << >>) = << >>
  <2>1. [i \in DOMAIN << >> |-> IF << >>[i].by = f THEN <<(<< >>[i].char)>> ELSE << >>] = << >>
    OBVIOUS
  <2> QED
    BY <2>1, FlattenEmpty DEF Sent
<1>2. Sent(f, <<x>>) = IF x.by = f THEN <<x.char>> ELSE << >>
  <2> DEFINE q == <<x>>
             m == [i \in DOMAIN q |-> IF q[i].by = f THEN <<q[i].char>> ELSE << >>]
  <2>1. Sent(f, q) = FlattenSeq(m)
    BY DEF Sent
  <2>2. m = <<IF x.by = f THEN <<x.char>> ELSE << >> >>
    OBVIOUS
  <2> QED
    BY <2>1, <2>2, FlattenOne
<1> QED
  BY <1>1, <1>2

-----------------------------------------------------------------------------
(* What is settled of a text are the characters that the transmitter has   *)
(* and n that it lost; rest is still to come.                              *)
Settled(text, acc, n, rest) ==
  \E done \in Seq(Chars) : text = done \o rest /\ Keeps(acc, n, done)

(* A new text, after one of which nothing is to come. *)
LEMMA SettledNext ==
  ASSUME NEW text, NEW acc, NEW n, NEW rest, Settled(text, acc, n, << >>)
  PROVE  Settled(text \o rest, acc, n, rest)
<1>1. PICK done \in Seq(Chars) : text = done \o << >> /\ Keeps(acc, n, done)
  BY DEF Settled
<1>2. text = done
  BY <1>1
<1> QED
  BY <1>1, <1>2, Zenon DEF Settled

(* A character of the text is sent, or lost. *)
LEMMA SettledOne ==
  ASSUME NEW text, NEW acc \in Seq(Chars), NEW n \in Nat, NEW rest \in Seq(Chars), NEW c \in Chars,
         Settled(text, acc, n, <<c>> \o rest)
  PROVE  Settled(text, Append(acc, c), n, rest) /\ Settled(text, acc, n + 1, rest)
<1>1. PICK done \in Seq(Chars) : text = done \o (<<c>> \o rest) /\ Keeps(acc, n, done)
  BY DEF Settled
<1> DEFINE done2 == Append(done, c)
<1>2. done2 \in Seq(Chars) /\ text = done2 \o rest
  <2>1. done2 = done \o <<c>> /\ <<c>> \in Seq(Chars) /\ done2 \in Seq(Chars)
    OBVIOUS
  <2>2. \A x, y, z \in Seq(Chars) : (x \o y) \o z = x \o (y \o z)
    BY Associative, Zenon
  <2> HIDE DEF done2
  <2>3. (done \o <<c>>) \o rest = done \o (<<c>> \o rest)
    BY <2>1, <2>2, ZenonT(40)
  <2> QED
    BY <1>1, <2>1, <2>3
<1>3. Keeps(Append(acc, c), n, done2) /\ Keeps(acc, n + 1, done2)
  BY <1>1, KeepsAccepted, KeepsLost
<1> HIDE DEF done2
<1> QED
  BY <1>2, <1>3, Zenon DEF Settled

LeastIn(fmts) ==
  \E i \in DOMAIN fmts : \E j \in DOMAIN fmts[i] :
    fmts[i][j].kind = "d" /\ fmts[i][j].arg[1] = LeastInt

TextOf(fmts) == WithReturns(FlattenSeq(Meanings(FlattenSeq(fmts))))

(* What write_character has to store before the next character. *)
Following(p) == IF p = "return" THEN <<RETURN>> ELSE << >>

(***************************************************************************)
(* The account of a flow that is at p, with o to print after it was asked  *)
(* to print fmts, of which w is sent, l is lost and q is the FIFO.         *)
(***************************************************************************)
Balanced(f, p, o, fmts, w, q, l) ==
  ~LeastIn(fmts) =>
    /\ Plain(FlattenSeq(fmts))
    /\ Settled(TextOf(fmts), w \o Sent(f, q), Len(l), Following(p) \o WithReturns(o))

(* In the beginning. *)
LEMMA BalancedAtFirst ==
  ASSUME NEW f
  PROVE  Balanced(f, "idle", << >>, << >>, << >>, << >>, << >>)
<1>1. FlattenSeq(<< >>) = << >> /\ Meanings(<< >>) = << >>
  BY FlattenEmpty DEF Meanings
<1>2. Plain(<< >>)
  BY DEF Plain
<1>3. TextOf(<< >>) = << >>
  BY <1>1, ReturnsOfOne, Zenon DEF TextOf
<1>4. Following("idle") \o WithReturns(<< >>) = << >>
  BY ReturnsOfOne DEF Following
<1>5. << >> \o Sent(f, << >>) = << >> /\ Len(<< >>) = 0
  <2>1. Sent(f, << >>) = << >>
    BY SentOfOne, Zenon
  <2> QED
    BY <2>1
<1>6. << >> \in Seq(Chars) /\ << >> = << >> \o << >>
  OBVIOUS
<1>7. Settled(<< >>, << >>, 0, << >>)
  BY <1>6, KeepsNothing, Zenon DEF Settled
<1> QED
  BY <1>1, <1>2, <1>3, <1>4, <1>5, <1>7, Zenon DEF Balanced

(* A call of kprintf. *)
LEMMA BalancedBegin ==
  ASSUME NEW f, NEW fmts \in Seq(Seq(Items)), NEW fmt \in Seq(Items), NEW w, NEW q, NEW l,
         NEW p \in {"idle", "test"}, Balanced(f, "idle", << >>, fmts, w, q, l)
  PROVE  Balanced(f, p, kprintf_internal(fmt), Append(fmts, fmt), w, q, l)
<1> SUFFICES ASSUME ~LeastIn(Append(fmts, fmt))
             PROVE  /\ Plain(FlattenSeq(Append(fmts, fmt)))
                    /\ Settled(TextOf(Append(fmts, fmt)), w \o Sent(f, q), Len(l),
                               Following(p) \o WithReturns(kprintf_internal(fmt)))
  BY Zenon DEF Balanced
<1> DEFINE acc == w \o Sent(f, q)
           s == FlattenSeq(fmts)
           new == kprintf_internal(fmt)
           old == FlattenSeq(Meanings(s))
           more == Append(fmts, fmt)
<1>1. /\ Len(more) = Len(fmts) + 1 /\ more[Len(fmts) + 1] = fmt /\ Len(fmts) \in Nat
      /\ \A i \in 1..Len(fmts) : more[i] = fmts[i]
      /\ DOMAIN more = 1..(Len(fmts) + 1) /\ DOMAIN fmts = 1..Len(fmts)
  OBVIOUS
<1>2. ~LeastIn(fmts)
  <2> HIDE DEF more
  <2>1. DOMAIN fmts \subseteq DOMAIN more
    BY <1>1
  <2> QED
    BY <1>1, <2>1, ZenonT(40) DEF LeastIn, more
<1>3. Plain(fmt)
  <2>1. Len(fmts) + 1 \in DOMAIN more
    BY <1>1
  <2> HIDE DEF more
  <2>2. \A j \in DOMAIN more[Len(fmts) + 1] :
          ~(more[Len(fmts) + 1][j].kind = "d" /\ more[Len(fmts) + 1][j].arg[1] = LeastInt)
    BY <2>1, Zenon DEF LeastIn, more
  <2> QED
    BY <1>1, <2>2, Zenon DEF Plain
<1>4. Plain(s) /\ Settled(TextOf(fmts), acc, Len(l), Following("idle") \o WithReturns(<< >>))
  BY <1>2, Zenon DEF Balanced
<1>5. Following("idle") \o WithReturns(<< >>) = << >>
  BY ReturnsOfOne DEF Following
<1>6. FlattenSeq(more) = s \o fmt /\ s \in Seq(Items)
  <2>1. <<fmt>> \in Seq(Seq(Items)) /\ more = fmts \o <<fmt>>
    OBVIOUS
  <2>2. FlattenSeq(fmts \o <<fmt>>) = FlattenSeq(fmts) \o FlattenSeq(<<fmt>>)
    BY <2>1, FlattenConcat
  <2>3. FlattenSeq(fmts) \in Seq(Items)
    BY FlattenType
  <2> QED
    BY <2>1, <2>2, <2>3, FlattenOne, Zenon
<1> HIDE DEF s, more, acc
<1>7. /\ Plain(s \o fmt)
      /\ FlattenSeq(Meanings(s \o fmt)) = FlattenSeq(Meanings(s)) \o FlattenSeq(Meanings(fmt))
  BY <1>3, <1>4, <1>6, MeaningOfParts
<1>8. new = FlattenSeq(Meanings(fmt)) /\ new \in Seq(Chars) /\ old \in Seq(Chars)
  BY <1>3, <1>4, <1>6, PlainItems, KprintfType
<1> HIDE DEF new, old
<1>9. WithReturns(old \o new) = WithReturns(old) \o WithReturns(new) /\ WithReturns(new) \in Seq(Chars)
  BY <1>8, ReturnsOfParts
<1>10. TextOf(fmts) = WithReturns(old)
  BY Zenon DEF TextOf, old, s
<1>11. TextOf(more) = TextOf(fmts) \o WithReturns(new)
  BY <1>6, <1>7, <1>8, <1>9, <1>10, Zenon DEF TextOf, old
<1>12. Following(p) \o WithReturns(new) = WithReturns(new)
  <2>1. Following(p) = << >>
    BY DEF Following
  <2> DEFINE r == WithReturns(new)
  <2>2. r \in Seq(Chars)
    BY <1>9
  <2> HIDE DEF r
  <2>3. << >> \o r = r
    BY <2>2
  <2> QED
    BY <2>1, <2>3, Zenon DEF r
<1>13. Settled(TextOf(fmts) \o WithReturns(new), acc, Len(l), WithReturns(new))
  BY <1>4, <1>5, SettledNext, Zenon
<1> QED
  BY <1>6, <1>7, <1>11, <1>12, <1>13, Zenon DEF more, acc, new

(* A store: the character was the next, and is in the FIFO or lost. *)
LEMMA BalancedStore ==
  ASSUME NEW f \in Flows, NEW fmts, NEW w \in Seq(Chars), NEW q \in Seq(Slots), NEW l \in Seq(Chars),
         NEW p, NEW o, NEW p2, NEW o2 \in Seq(Chars), NEW c \in Chars,
         Following(p) \o WithReturns(o) = <<c>> \o (Following(p2) \o WithReturns(o2)),
         Balanced(f, p, o, fmts, w, q, l)
  PROVE  /\ Balanced(f, p2, o2, fmts, w, Append(q, [by |-> f, char |-> c]), l)
         /\ Balanced(f, p2, o2, fmts, w, q, Append(l, c))
<1> DEFINE x == [by |-> f, char |-> c]
           acc == w \o Sent(f, q)
           rest == Following(p2) \o WithReturns(o2)
           n == Len(l)
<1>1. rest \in Seq(Chars)
  <2>1. Following(p2) \in Seq(Chars)
    <3>1. <<RETURN>> \in Seq(Chars) /\ << >> \in Seq(Chars)
      BY DEF RETURN, Chars
    <3> QED
      BY <3>1, Zenon DEF Following
  <2>2. WithReturns(o2) \in Seq(Chars)
    BY ReturnsOfParts
  <2> QED
    BY <2>1, <2>2
<1>2. Sent(f, q) \in Seq(Chars) /\ Sent(f, Append(q, x)) = Sent(f, q) \o <<c>>
  <2>1. x \in Slots /\ x.by = f /\ x.char = c
    BY DEF Slots
  <2> HIDE DEF x
  <2>2. <<x>> \in Seq(Slots) /\ Append(q, x) = q \o <<x>>
    BY <2>1
  <2>3. Sent(f, q) \in Seq(Chars) /\ Sent(f, q \o <<x>>) = Sent(f, q) \o Sent(f, <<x>>)
    BY <2>2, SentOfParts
  <2>4. Sent(f, <<x>>) = <<c>>
    BY <2>1, SentOfOne, Zenon
  <2> QED
    BY <2>2, <2>3, <2>4, Zenon
<1>3. acc \in Seq(Chars) /\ w \o Sent(f, Append(q, x)) = Append(acc, c)
  <2> DEFINE s == Sent(f, q)
  <2>1. s \in Seq(Chars)
    BY <1>2
  <2> HIDE DEF s
  <2>2. w \o s \in Seq(Chars) /\ w \o (s \o <<c>>) = Append(w \o s, c)
    BY <2>1
  <2> QED
    BY <1>2, <2>2, Zenon DEF s
<1>4. n \in Nat /\ Len(Append(l, c)) = n + 1
  OBVIOUS
<1> HIDE DEF acc, rest, n, x
<1>5. CASE LeastIn(fmts)
  BY <1>5, Zenon DEF Balanced
<1>6. CASE ~LeastIn(fmts)
  <2>1. Plain(FlattenSeq(fmts)) /\ Settled(TextOf(fmts), acc, n, <<c>> \o rest)
    BY <1>6, Zenon DEF Balanced, acc, n, rest
  <2>2. Settled(TextOf(fmts), Append(acc, c), n, rest) /\ Settled(TextOf(fmts), acc, n + 1, rest)
    BY <1>1, <1>3, <1>4, <2>1, SettledOne
  <2>3. Balanced(f, p2, o2, fmts, w, Append(q, x), l)
    BY <1>3, <2>1, <2>2, Zenon DEF Balanced, rest, n
  <2>4. Balanced(f, p2, o2, fmts, w, q, Append(l, c))
    BY <1>4, <2>1, <2>2, Zenon DEF Balanced, rest, acc
  <2> QED
    BY <2>3, <2>4 DEF x
<1> QED
  BY <1>5, <1>6

(* The store of another flow. *)
LEMMA BalancedOther ==
  ASSUME NEW f \in Flows, NEW g \in Flows, f # g, NEW q \in Seq(Slots), NEW c \in Chars,
         NEW p, NEW o, NEW fmts, NEW w, NEW l, Balanced(f, p, o, fmts, w, q, l)
  PROVE  Balanced(f, p, o, fmts, w, Append(q, [by |-> g, char |-> c]), l)
<1> DEFINE x == [by |-> g, char |-> c]
<1>1. x \in Slots /\ x.by = g
  BY DEF Slots
<1> HIDE DEF x
<1>2. <<x>> \in Seq(Slots) /\ Append(q, x) = q \o <<x>>
  BY <1>1
<1>3. Sent(f, q) \in Seq(Chars) /\ Sent(f, q \o <<x>>) = Sent(f, q) \o Sent(f, <<x>>)
  BY <1>2, SentOfParts
<1>4. Sent(f, <<x>>) = << >>
  BY <1>1, SentOfOne, Zenon
<1>5. Sent(f, q) \o << >> = Sent(f, q)
  BY <1>3
<1>6. Sent(f, Append(q, x)) = Sent(f, q)
  BY <1>2, <1>3, <1>4, <1>5, Zenon
<1> QED
  BY <1>6, Zenon DEF Balanced, x

(* The transmitter sends the first character of the FIFO. *)
LEMMA BalancedTransmit ==
  ASSUME NEW f \in Flows, NEW q \in Seq(Slots), q # << >>, NEW w \in Seq(Chars),
         NEW p, NEW o, NEW fmts, NEW l, Balanced(f, p, o, fmts, w, q, l)
  PROVE  Balanced(f, p, o, fmts, IF Head(q).by = f THEN Append(w, Head(q).char) ELSE w, Tail(q), l)
<1> DEFINE x == Head(q)
           t == Tail(q)
           w2 == IF x.by = f THEN Append(w, x.char) ELSE w
<1>1. x \in Slots /\ t \in Seq(Slots) /\ <<x>> \in Seq(Slots) /\ q = <<x>> \o t
  OBVIOUS
<1>2. x.char \in Chars
  BY <1>1 DEF Slots
<1> HIDE DEF x, t
<1> DEFINE s == Sent(f, t)
           one == IF x.by = f THEN <<x.char>> ELSE << >>
<1>3. s \in Seq(Chars) /\ Sent(f, q) = one \o s
  <2>1. Sent(f, t) \in Seq(Chars)
    BY <1>1, SentOfParts
  <2>2. Sent(f, <<x>> \o t) = Sent(f, <<x>>) \o Sent(f, t)
    BY <1>1, SentOfParts
  <2> QED
    BY <1>1, <2>1, <2>2, SentOfOne
<1> HIDE DEF s
<1>4. w \o (one \o s) = w2 \o s
  <2>1. CASE x.by = f
    <3>1. one = <<x.char>> /\ w2 = w \o <<x.char>> /\ <<x.char>> \in Seq(Chars)
      BY <1>2, <2>1
    <3>2. \A a, b, c \in Seq(Chars) : (a \o b) \o c = a \o (b \o c)
      BY Associative, Zenon
    <3> HIDE DEF one, w2
    <3> QED
      BY <1>3, <3>1, <3>2, Zenon
  <2>2. CASE x.by # f
    <3>1. << >> \o s = s
      BY <1>3
    <3> QED
      BY <2>2, <3>1
  <2> QED
    BY <2>1, <2>2
<1>5. w \o Sent(f, q) = w2 \o Sent(f, t)
  BY <1>3, <1>4, Zenon DEF s
<1> HIDE DEF w2
<1>6. Balanced(f, p, o, fmts, w2, t, l)
  BY <1>5, Zenon DEF Balanced
<1> QED
  BY <1>6 DEF w2, x, t

(* What the stores of write_character take from what is to come. *)
LEMMA StoresOfPutc ==
  ASSUME NEW o \in Seq(Chars)
  PROVE  /\ Following("return") \o WithReturns(o)
              = <<RETURN>> \o (Following(AfterPutc(o)) \o WithReturns(o))
         /\ o # << >> =>
              Following("write") \o WithReturns(o)
                = <<Head(o)>> \o (Following(IF Head(o) = NEWLINE THEN "return" ELSE AfterPutc(Tail(o)))
                                    \o WithReturns(Tail(o)))
<1>1. Following("return") = <<RETURN>> /\ Following("write") = << >> /\ \A rest : Following(AfterPutc(rest)) = << >>
  BY DEF Following, AfterPutc
<1>2. \A r \in Seq(Chars) : << >> \o r = r
  OBVIOUS
<1>3. WithReturns(o) \in Seq(Chars)
  BY ReturnsOfParts
<1>4. Following("return") \o WithReturns(o) = <<RETURN>> \o (Following(AfterPutc(o)) \o WithReturns(o))
  BY <1>1, <1>2, <1>3, Zenon
<1>5. ASSUME o # << >>
      PROVE  Following("write") \o WithReturns(o)
               = <<Head(o)>> \o (Following(IF Head(o) = NEWLINE THEN "return" ELSE AfterPutc(Tail(o)))
                                   \o WithReturns(Tail(o)))
  <2> DEFINE c == Head(o)
             t == Tail(o)
             r == WithReturns(t)
  <2>1. c \in Chars /\ t \in Seq(Chars) /\ o = <<c>> \o t /\ <<c>> \in Seq(Chars)
    BY <1>5
  <2> HIDE DEF c, t
  <2>2. WithReturns(<<c>> \o t) = WithReturns(<<c>>) \o r /\ r \in Seq(Chars)
    BY <2>1, ReturnsOfParts
  <2>3. WithReturns(<<c>>) = WithReturn(c)
    BY <2>1, ReturnsOfOne
  <2>4. Following("write") \o WithReturns(o) = WithReturn(c) \o r
    BY <1>1, <1>2, <1>3, <2>1, <2>2, <2>3, Zenon
  <2> HIDE DEF r
  <2>5. CASE c = NEWLINE
    <3>1. WithReturn(c) = <<c, RETURN>>
      BY <2>5 DEF WithReturn
    <3>2. RETURN \in Chars
      BY DEF RETURN, Chars
    <3> HIDE DEF RETURN
    <3>3. <<c, RETURN>> \o r = <<c>> \o (<<RETURN>> \o r)
      <4> HIDE DEF NEWLINE
      <4>1. <<RETURN>> \in Seq(Chars) /\ <<c, RETURN>> = <<c>> \o <<RETURN>>
        BY <2>1, <3>2
      <4>2. \A x, y, z \in Seq(Chars) : (x \o y) \o z = x \o (y \o z)
        BY Associative, Zenon
      <4>3. <<c>> \in Seq(Chars) /\ r \in Seq(Chars)
        BY <2>1, <2>2
      <4>4. (<<c>> \o <<RETURN>>) \o r = <<c>> \o (<<RETURN>> \o r)
        BY <4>1, <4>2, <4>3, Zenon
      <4> QED
        BY <4>1, <4>4
    <3>4. Following(IF c = NEWLINE THEN "return" ELSE AfterPutc(t)) = <<RETURN>>
      BY <1>1, <2>5, Zenon
    <3>5. Following("write") \o WithReturns(o)
            = <<c>> \o (Following(IF c = NEWLINE THEN "return" ELSE AfterPutc(t)) \o r)
      BY <2>4, <3>1, <3>3, <3>4, Zenon
    <3> QED
      BY <3>5 DEF c, t, r
  <2>6. CASE c # NEWLINE
    <3>1. WithReturn(c) = <<c>>
      BY <2>6 DEF WithReturn
    <3>2. Following(IF c = NEWLINE THEN "return" ELSE AfterPutc(t)) = << >>
      BY <1>1, <2>6, Zenon
    <3>3. << >> \o r = r
      BY <1>2, <2>2, Zenon
    <3>4. Following("write") \o WithReturns(o)
            = <<c>> \o (Following(IF c = NEWLINE THEN "return" ELSE AfterPutc(t)) \o r)
      BY <2>4, <3>1, <3>2, <3>3, Zenon
    <3> QED
      BY <3>4 DEF c, t, r
  <2> QED
    BY <2>5, <2>6
<1> QED
  BY <1>4, <1>5

-----------------------------------------------------------------------------
(* A flow that is to print something has it to print, and one between test *)
(* and write has found room that is still there, if it was not overtaken.  *)
Control(f) ==
  /\ pc[f] \in {"test", "write"} => out[f] # << >>
  /\ pc[f] = "idle" => out[f] = << >>
  /\ pc[f] = "write" /\ f \notin overtaken => Len(fifo) < Depth /\ f = Running

Account(f) == Balanced(f, pc[f], out[f], asked[f], wire[f], fifo, lost[f])

(* The inductive invariant. *)
IInv ==
  /\ TypeOK
  /\ \A f \in Flows : Control(f)
  /\ \A f \in Flows : Account(f)

(* The constants. *)
LEMMA Constants ==
  /\ Procs \in Nat \ {0} /\ Depth \in Nat \ {0}
  /\ Handler \in Flows /\ 1..Procs \subseteq Flows /\ Handler \notin 1..Procs
  /\ \A fmt \in Formats \cup Echoes : fmt \in Seq(Items)
  BY ConsoleAssumption DEF Flows, Handler

(* What a flow was asked to print are formats. *)
LEMMA AskedType ==
  ASSUME NEW fmts \in Seq(Formats \cup Echoes)
  PROVE  fmts \in Seq(Seq(Items))
<1>1. \A i \in 1..Len(fmts) : fmts[i] \in Formats \cup Echoes
  OBVIOUS
<1>2. \A i \in 1..Len(fmts) : fmts[i] \in Seq(Items)
  BY <1>1, Constants
<1>3. fmts = [i \in 1..Len(fmts) |-> fmts[i]] /\ Len(fmts) \in Nat
  OBVIOUS
<1>4. [i \in 1..Len(fmts) |-> fmts[i]] \in Seq(Seq(Items))
  BY <1>2, <1>3
<1> QED
  BY <1>3, <1>4, Zenon

(* The flow that executes is one. *)
LEMMA RunningType ==
  ASSUME TypeOK
  PROVE  Running \in Flows /\ cur \in Flows
  BY Constants DEF Running, TypeOK

(* The invariant holds at first. *)
LEMMA InitInvariant == Init => IInv
<1> SUFFICES ASSUME Init PROVE IInv
  OBVIOUS
<1>1. TypeOK
  <2>1. << >> \in Seq(Chars) /\ << >> \in Seq(Formats \cup Echoes)
        /\ << >> \in Seq([by : Flows, char : Chars]) /\ Len(<< >>) = 0
    OBVIOUS
  <2>2. cur \in 1..Procs /\ 0 <= Depth
    BY Constants DEF Init
  <2> QED
    BY <2>1, <2>2 DEF Init, TypeOK
<1>2. ASSUME NEW f \in Flows
      PROVE  Control(f) /\ Account(f)
  <2>1. /\ pc[f] = "idle" /\ out[f] = << >> /\ asked[f] = << >> /\ wire[f] = << >>
        /\ fifo = << >> /\ lost[f] = << >>
    BY DEF Init
  <2>2. Control(f)
    BY <2>1 DEF Control
  <2>3. Account(f)
    BY <2>1, BalancedAtFirst, Zenon DEF Account
  <2> QED
    BY <2>2, <2>3
<1> QED
  BY <1>1, <1>2 DEF IInv

(* What a store does to the FIFO and to what is lost. *)
LEMMA StoreTypes ==
  ASSUME TypeOK, NEW f \in Flows, NEW c \in Chars, Store(f, c)
  PROVE  /\ fifo' \in Seq([by : Flows, char : Chars]) /\ Len(fifo') <= Depth
         /\ lost' \in [Flows -> Seq(Chars)]
         /\ \/ Len(fifo) < Depth /\ fifo' = Append(fifo, [by |-> f, char |-> c]) /\ lost' = lost
            \/ /\ ~(Len(fifo) < Depth) /\ fifo' = fifo
               /\ lost'[f] = Append(lost[f], c) /\ \A g \in Flows \ {f} : lost'[g] = lost[g]
<1>1. /\ fifo \in Seq([by : Flows, char : Chars]) /\ Len(fifo) <= Depth
      /\ lost \in [Flows -> Seq(Chars)] /\ Depth \in Nat
  BY Constants DEF TypeOK
<1>2. CASE Len(fifo) < Depth
  <2>1. fifo' = Append(fifo, [by |-> f, char |-> c]) /\ lost' = lost
    BY <1>2 DEF Store
  <2> DEFINE x == [by |-> f, char |-> c]
             Places == [by : Flows, char : Chars]
  <2>2. x \in Places
    OBVIOUS
  <2> HIDE DEF x, Places
  <2>3. fifo \in Seq(Places)
    BY <1>1 DEF Places
  <2>4. Append(fifo, x) \in Seq(Places) /\ Len(Append(fifo, x)) = Len(fifo) + 1 /\ Len(fifo) \in Nat
    BY <2>2, <2>3
  <2>5. fifo' = Append(fifo, x)
    BY <2>1 DEF x
  <2>6. fifo' \in Seq(Places) /\ Len(fifo') <= Depth
    BY <1>1, <1>2, <2>4, <2>5
  <2> QED
    BY <1>1, <1>2, <2>1, <2>6 DEF Places
<1>3. CASE ~(Len(fifo) < Depth)
  <2>1. fifo' = fifo /\ lost' = [lost EXCEPT ![f] = Append(@, c)]
    BY <1>3 DEF Store
  <2>2. Append(lost[f], c) \in Seq(Chars)
    BY <1>1
  <2>3. /\ lost' \in [Flows -> Seq(Chars)]
        /\ lost'[f] = Append(lost[f], c) /\ \A g \in Flows \ {f} : lost'[g] = lost[g]
    BY <1>1, <2>1, <2>2
  <2> QED
    BY <1>1, <1>3, <2>1, <2>3
<1> QED
  BY <1>2, <1>3

(* A store of the character that comes next keeps all accounts. *)
LEMMA StoreBalanced ==
  ASSUME TypeOK, \A g \in Flows : Account(g), NEW f \in Flows, NEW c \in Chars, Store(f, c),
         out'[f] \in Seq(Chars),
         Following(pc[f]) \o WithReturns(out[f])
           = <<c>> \o (Following(pc'[f]) \o WithReturns(out'[f])),
         \A g \in Flows \ {f} : pc'[g] = pc[g] /\ out'[g] = out[g],
         asked' = asked, wire' = wire
  PROVE  \A g \in Flows : Account(g)'
<1>1. /\ fifo \in Seq(Slots)
      /\ \A g \in Flows : wire[g] \in Seq(Chars) /\ lost[g] \in Seq(Chars)
  BY DEF TypeOK, Slots
<1>2. ASSUME NEW g \in Flows
      PROVE  Balanced(g, pc[g], out[g], asked[g], wire[g], fifo, lost[g])
  BY Zenon DEF Account
<1>3. \/ fifo' = Append(fifo, [by |-> f, char |-> c]) /\ lost' = lost
      \/ fifo' = fifo /\ lost'[f] = Append(lost[f], c) /\ \A g \in Flows \ {f} : lost'[g] = lost[g]
  BY StoreTypes, Zenon
<1>4. Account(f)'
  <2>1. Balanced(f, pc[f], out[f], asked[f], wire[f], fifo, lost[f])
    BY <1>2
  <2>2. wire[f] \in Seq(Chars) /\ lost[f] \in Seq(Chars)
    BY <1>1
  <2>3. /\ Balanced(f, pc'[f], out'[f], asked[f], wire[f], Append(fifo, [by |-> f, char |-> c]), lost[f])
        /\ Balanced(f, pc'[f], out'[f], asked[f], wire[f], fifo, Append(lost[f], c))
    BY <1>1, <2>1, <2>2, BalancedStore
  <2>4. Balanced(f, pc'[f], out'[f], asked'[f], wire'[f], fifo', lost'[f])
    BY <1>3, <2>3, Zenon
  <2> QED
    BY <2>4, Zenon DEF Account
<1>5. ASSUME NEW g \in Flows \ {f}
      PROVE  Account(g)'
  <2>1. Balanced(g, pc[g], out[g], asked[g], wire[g], fifo, lost[g]) /\ g \in Flows /\ g # f
    BY <1>2
  <2>2. Balanced(g, pc[g], out[g], asked[g], wire[g], Append(fifo, [by |-> f, char |-> c]), lost[g])
    BY <1>1, <2>1, BalancedOther
  <2>3. Balanced(g, pc'[g], out'[g], asked'[g], wire'[g], fifo', lost'[g])
    BY <1>3, <2>1, <2>2, Zenon
  <2> QED
    BY <2>3, Zenon DEF Account
<1> QED
  BY <1>4, <1>5

(* The steps that only move the processor from one flow to another. *)
LEMMA AccountsStay ==
  ASSUME \A g \in Flows : Account(g), NEW f \in Flows,
         pc'[f] = pc[f] \/ (pc[f] = "test" /\ pc'[f] = "write"),
         UNCHANGED <<out, asked, wire, fifo, lost>>
  PROVE  Account(f)'
<1>1. Following(pc'[f]) = Following(pc[f])
  BY DEF Following
<1>2. Balanced(f, pc[f], out[f], asked[f], wire[f], fifo, lost[f])
  BY Zenon DEF Account
<1>3. Balanced(f, pc'[f], out[f], asked[f], wire[f], fifo, lost[f])
  BY <1>1, <1>2, Zenon DEF Balanced
<1>4. out' = out /\ asked' = asked /\ wire' = wire /\ fifo' = fifo /\ lost' = lost
  OBVIOUS
<1>5. Balanced(f, pc'[f], out'[f], asked'[f], wire'[f], fifo', lost'[f])
  BY <1>3, <1>4, Zenon
<1> QED
  BY <1>5, Zenon DEF Account

-----------------------------------------------------------------------------
(* A call of kprintf, of a process or of the handler. *)
LEMMA BeginStep ==
  ASSUME IInv, NEW f \in Flows, NEW fmt \in Formats \cup Echoes, Begin(f, fmt),
         overtaken' \subseteq Flows, \A g \in Flows : pc[g] = "write" => g \in overtaken'
  PROVE  IInv'
<1> DEFINE new == kprintf_internal(fmt)
<1>1. TypeOK /\ \A g \in Flows : Control(g) /\ Account(g)
  BY DEF IInv
<1>2. new \in Seq(Chars)
  BY Constants, KprintfType
<1> HIDE DEF new
<1>3. /\ pc[f] = "idle"
      /\ asked' = [asked EXCEPT ![f] = Append(@, fmt)]
      /\ out' = [out EXCEPT ![f] = new]
      /\ pc' = [pc EXCEPT ![f] = AfterPutc(new)]
      /\ cur' = cur /\ fifo' = fifo /\ wire' = wire /\ lost' = lost
  BY DEF Begin, new
<1>4. AfterPutc(new) \in {"idle", "test"} /\ (AfterPutc(new) = "idle" <=> new = << >>)
  BY DEF AfterPutc
<1>5. TypeOK'
  <2>1. Append(asked[f], fmt) \in Seq(Formats \cup Echoes)
    BY <1>1 DEF TypeOK
  <2>2. asked' \in [Flows -> Seq(Formats \cup Echoes)]
    BY <1>1, <1>3, <2>1 DEF TypeOK
  <2>3. out' \in [Flows -> Seq(Chars)]
    BY <1>1, <1>2, <1>3 DEF TypeOK
  <2>4. pc' \in [Flows -> {"idle", "test", "write", "return"}]
    BY <1>1, <1>3, <1>4 DEF TypeOK
  <2> QED
    BY <1>1, <1>3, <2>2, <2>3, <2>4 DEF TypeOK
<1>6. /\ pc'[f] = AfterPutc(new) /\ out'[f] = new /\ asked'[f] = Append(asked[f], fmt)
      /\ \A g \in Flows \ {f} : pc'[g] = pc[g] /\ out'[g] = out[g] /\ asked'[g] = asked[g]
  BY <1>1, <1>3 DEF TypeOK
<1>7. ASSUME NEW g \in Flows
      PROVE  Control(g)'
  <2>1. pc'[g] # "write" \/ g \in overtaken'
    BY <1>4, <1>6
  <2>2. CASE g = f
    BY <1>4, <1>6, <2>1, <2>2 DEF Control
  <2>3. CASE g # f
    <3>1. pc'[g] = pc[g] /\ out'[g] = out[g]
      BY <1>6, <2>3
    <3>2. pc[g] \in {"test", "write"} => out[g] # << >>
      BY <1>1, Zenon DEF Control
    <3>3. pc[g] = "idle" => out[g] = << >>
      BY <1>1, Zenon DEF Control
    <3> QED
      BY <2>1, <3>1, <3>2, <3>3 DEF Control
  <2> QED
    BY <2>2, <2>3
<1>8. ASSUME NEW g \in Flows
      PROVE  Account(g)'
  <2>1. Balanced(g, pc[g], out[g], asked[g], wire[g], fifo, lost[g])
    BY <1>1, Zenon DEF Account
  <2>2. CASE g = f
    <3>1. out[f] = << >> /\ Balanced(f, "idle", << >>, asked[f], wire[f], fifo, lost[f])
      <4>1. out[f] = << >>
        BY <1>1, <1>3 DEF Control
      <4> QED
        BY <1>3, <2>1, <2>2, <4>1, Zenon
    <3>2. asked[f] \in Seq(Seq(Items)) /\ fmt \in Seq(Items)
      <4>1. asked[f] \in Seq(Formats \cup Echoes)
        BY <1>1 DEF TypeOK
      <4> QED
        BY <4>1, AskedType, Constants
    <3>3. Balanced(f, AfterPutc(new), new, Append(asked[f], fmt), wire[f], fifo, lost[f])
      BY <1>4, <3>1, <3>2, BalancedBegin, Zenon DEF new
    <3>4. Balanced(f, pc'[f], out'[f], asked'[f], wire'[f], fifo', lost'[f])
      BY <1>3, <1>6, <3>3, Zenon
    <3> QED
      BY <2>2, <3>4, Zenon DEF Account
  <2>3. CASE g # f
    <3>1. pc'[g] = pc[g] /\ out'[g] = out[g] /\ asked'[g] = asked[g]
      BY <1>6, <2>3
    <3>2. Balanced(g, pc'[g], out'[g], asked'[g], wire'[g], fifo', lost'[g])
      BY <1>3, <2>1, <3>1, Zenon
    <3> QED
      BY <3>2, Zenon DEF Account
  <2> QED
    BY <2>2, <2>3
<1> QED
  BY <1>5, <1>7, <1>8 DEF IInv

(* A process's call. *)
LEMMA CallStep ==
  ASSUME IInv, NEW fmt \in Formats, NEW p \in Flows, kprintf(p, fmt)
  PROVE  IInv'
<1>1. TypeOK /\ \A g \in Flows : Control(g)
  BY DEF IInv
<1>2. p = Running /\ Begin(p, fmt) /\ overtaken' = overtaken /\ pc[p] = "idle"
  BY DEF kprintf, Begin
<1>3. overtaken' \subseteq Flows
  BY <1>1, <1>2 DEF TypeOK
<1>4. ASSUME NEW g \in Flows, pc[g] = "write"
      PROVE  g \in overtaken'
  BY <1>1, <1>2, <1>4 DEF Control
<1> QED
  BY <1>2, <1>3, <1>4, BeginStep

(* The handler's. *)
LEMMA InterruptStep ==
  ASSUME IInv, NEW fmt \in Echoes, Interrupt(fmt)
  PROVE  IInv'
<1>1. TypeOK /\ \A g \in Flows : Control(g)
  BY DEF IInv
<1>2. Begin(Handler, fmt) /\ Overtake /\ pc[Handler] = "idle"
  BY DEF Interrupt, Begin
<1>3. cur \in Flows /\ Handler \in Flows /\ Running = cur
  BY <1>1, <1>2, RunningType, Constants DEF Running
<1>4. overtaken' \subseteq Flows
  BY <1>1, <1>2, <1>3 DEF TypeOK, Overtake
<1>5. ASSUME NEW g \in Flows, pc[g] = "write"
      PROVE  g \in overtaken'
  BY <1>1, <1>2, <1>3, <1>5 DEF Control, Overtake
<1> QED
  BY <1>2, <1>3, <1>4, <1>5, BeginStep

(* The test that ends the loop. *)
LEMMA TestStep ==
  ASSUME IInv, NEW f \in Flows, Test(f)
  PROVE  IInv'
<1>1. TypeOK /\ \A g \in Flows : Control(g) /\ Account(g)
  BY DEF IInv
<1>2. /\ f = Running /\ pc[f] = "test" /\ Len(fifo) < Depth
      /\ pc' = [pc EXCEPT ![f] = "write"]
      /\ UNCHANGED <<cur, out, asked, fifo, wire, lost, overtaken>>
  BY DEF Test
<1>3. TypeOK'
  BY <1>1, <1>2 DEF TypeOK
<1>4. pc'[f] = "write" /\ \A g \in Flows \ {f} : pc'[g] = pc[g]
  BY <1>1, <1>2 DEF TypeOK
<1>5. Running' = Running
  BY <1>2, <1>4, Constants DEF Running
<1>6. ASSUME NEW g \in Flows
      PROVE  Control(g)'
  <2>1. CASE g = f
    BY <1>1, <1>2, <1>4, <1>5, <2>1 DEF Control
  <2>2. CASE g # f
    BY <1>1, <1>2, <1>4, <1>5, <2>2 DEF Control
  <2> QED
    BY <2>1, <2>2
<1>7. ASSUME NEW g \in Flows
      PROVE  Account(g)'
  <2>1. pc'[g] = pc[g] \/ (pc[g] = "test" /\ pc'[g] = "write")
    BY <1>2, <1>4
  <2> QED
    BY <1>1, <1>2, <2>1, AccountsStay
<1> QED
  BY <1>3, <1>6, <1>7 DEF IInv

(* A store: what both of them leave as it should be. *)
LEMMA PutStep ==
  ASSUME IInv, NEW f \in Flows, NEW c \in Chars, NEW p \in {"idle", "test", "return"}, NEW o \in Seq(Chars),
         f = Running, pc[f] \in {"write", "return"}, Store(f, c),
         pc' = [pc EXCEPT ![f] = p], out' = [out EXCEPT ![f] = o],
         p = "idle" <=> p # "return" /\ o = << >>,
         Following(pc[f]) \o WithReturns(out[f]) = <<c>> \o (Following(p) \o WithReturns(o)),
         overtaken' \in {overtaken, overtaken \ {f}}, UNCHANGED <<cur, asked, wire>>
  PROVE  IInv'
<1>1. TypeOK /\ (\A g \in Flows : Control(g)) /\ \A g \in Flows : Account(g)
  BY DEF IInv
<1>2. /\ fifo' \in Seq([by : Flows, char : Chars]) /\ Len(fifo') <= Depth
      /\ lost' \in [Flows -> Seq(Chars)]
  BY <1>1, StoreTypes
<1>3. TypeOK'
  <2>1. out' \in [Flows -> Seq(Chars)] /\ pc' \in [Flows -> {"idle", "test", "write", "return"}]
    BY <1>1 DEF TypeOK
  <2>2. overtaken' \subseteq Flows
    BY <1>1 DEF TypeOK
  <2> QED
    BY <1>1, <1>2, <2>1, <2>2 DEF TypeOK
<1>4. /\ pc'[f] = p /\ out'[f] = o
      /\ \A g \in Flows \ {f} : pc'[g] = pc[g] /\ out'[g] = out[g]
  BY <1>1 DEF TypeOK
<1>5. ASSUME NEW g \in Flows
      PROVE  Control(g)'
  <2>1. CASE g = f
    BY <1>4, <2>1 DEF Control
  <2>2. CASE g # f
    <3>1. pc'[g] = pc[g] /\ out'[g] = out[g]
      BY <1>4, <2>2
    <3>2. /\ pc[g] \in {"test", "write"} => out[g] # << >>
          /\ pc[g] = "idle" => out[g] = << >>
          /\ pc[g] = "write" => g \in overtaken
      BY <1>1, <2>2 DEF Control
    <3>3. g \in overtaken => g \in overtaken'
      BY <2>2
    <3> QED
      BY <3>1, <3>2, <3>3 DEF Control
  <2> QED
    BY <2>1, <2>2
<1>6. \A g \in Flows : Account(g)'
  BY <1>1, <1>4, StoreBalanced
<1> QED
  BY <1>3, <1>5, <1>6 DEF IInv

(* The store of a character. *)
LEMMA WriteStep ==
  ASSUME IInv, NEW f \in Flows, Write(f)
  PROVE  IInv'
<1> DEFINE c == Head(out[f])
           o == Tail(out[f])
           p == IF c = NEWLINE THEN "return" ELSE AfterPutc(o)
<1>1. TypeOK /\ Control(f)
  BY DEF IInv
<1>2. /\ f = Running /\ pc[f] = "write" /\ Store(f, c)
      /\ out' = [out EXCEPT ![f] = o] /\ pc' = [pc EXCEPT ![f] = p]
      /\ overtaken' = overtaken \ {f} /\ UNCHANGED <<cur, asked, wire>>
  BY DEF Write
<1>3. out[f] \in Seq(Chars) /\ out[f] # << >>
  BY <1>1, <1>2 DEF TypeOK, Control
<1>4. c \in Chars /\ o \in Seq(Chars)
  BY <1>3
<1>5. Following(pc[f]) \o WithReturns(out[f]) = <<c>> \o (Following(p) \o WithReturns(o))
  BY <1>2, <1>3, StoresOfPutc, Zenon
<1>6. p \in {"idle", "test", "return"} /\ (p = "idle" <=> p # "return" /\ o = << >>)
  BY DEF AfterPutc
<1> HIDE DEF c, o, p
<1> QED
  BY <1>2, <1>4, <1>5, <1>6, PutStep

(* The store of a return. *)
LEMMA WriteReturnStep ==
  ASSUME IInv, NEW f \in Flows, WriteReturn(f)
  PROVE  IInv'
<1> DEFINE o == out[f]
           p == AfterPutc(o)
<1>1. TypeOK
  BY DEF IInv
<1>2. /\ f = Running /\ pc[f] = "return" /\ Store(f, RETURN)
      /\ pc' = [pc EXCEPT ![f] = p]
      /\ overtaken' = overtaken /\ out' = out /\ UNCHANGED <<cur, asked, wire>>
  BY DEF WriteReturn
<1>3. o \in Seq(Chars) /\ out' = [out EXCEPT ![f] = o]
  BY <1>1, <1>2 DEF TypeOK
<1>4. RETURN \in Chars
  BY DEF RETURN, Chars
<1>5. Following(pc[f]) \o WithReturns(out[f]) = <<RETURN>> \o (Following(p) \o WithReturns(o))
  BY <1>2, <1>3, StoresOfPutc, Zenon
<1>6. p \in {"idle", "test", "return"} /\ (p = "idle" <=> p # "return" /\ o = << >>)
  BY DEF AfterPutc
<1> HIDE DEF o, p
<1> QED
  BY <1>2, <1>3, <1>4, <1>5, <1>6, PutStep

(* The transmitter. *)
LEMMA TransmitStep ==
  ASSUME IInv, Transmit
  PROVE  IInv'
<1> DEFINE x == Head(fifo)
<1>1. TypeOK /\ (\A g \in Flows : Control(g)) /\ \A g \in Flows : Account(g)
  BY DEF IInv
<1>2. /\ fifo # << >> /\ wire' = [wire EXCEPT ![x.by] = Append(@, x.char)]
      /\ fifo' = Tail(fifo) /\ UNCHANGED <<cur, pc, out, asked, lost, overtaken>>
  BY DEF Transmit
<1>3. fifo \in Seq(Slots) /\ Len(fifo) <= Depth /\ wire \in [Flows -> Seq(Chars)] /\ Depth \in Nat
  BY <1>1, Constants DEF TypeOK, Slots
<1>4. x \in Slots /\ fifo' \in Seq(Slots) /\ Len(fifo') = Len(fifo) - 1 /\ Len(fifo) \in Nat
  BY <1>2, <1>3
<1>5. x.by \in Flows /\ x.char \in Chars
  BY <1>4 DEF Slots
<1> HIDE DEF x
<1>6. \A g \in Flows : wire'[g] = IF x.by = g THEN Append(wire[g], x.char) ELSE wire[g]
  BY <1>2, <1>3, <1>5
<1>7. TypeOK'
  <2>1. wire' \in [Flows -> Seq(Chars)]
    <3>1. Append(wire[x.by], x.char) \in Seq(Chars)
      BY <1>3, <1>5
    <3> QED
      BY <1>2, <1>3, <1>5, <3>1
  <2>2. fifo' \in Seq([by : Flows, char : Chars])
    BY <1>4 DEF Slots
  <2>3. Len(fifo') <= Depth
    BY <1>3, <1>4
  <2> QED
    BY <1>1, <1>2, <2>1, <2>2, <2>3 DEF TypeOK
<1>8. ASSUME NEW g \in Flows
      PROVE  Control(g)'
  <2>1. Len(fifo) < Depth => Len(fifo') < Depth
    BY <1>3, <1>4
  <2>2. Running' = Running
    BY <1>2 DEF Running
  <2> QED
    BY <1>1, <1>2, <2>1, <2>2 DEF Control
<1>9. ASSUME NEW g \in Flows
      PROVE  Account(g)'
  <2>1. Balanced(g, pc[g], out[g], asked[g], wire[g], fifo, lost[g])
    BY <1>1, Zenon DEF Account
  <2>2. wire[g] \in Seq(Chars)
    BY <1>3
  <2>3. Balanced(g, pc[g], out[g], asked[g],
                 IF x.by = g THEN Append(wire[g], x.char) ELSE wire[g], Tail(fifo), lost[g])
    BY <1>2, <1>3, <2>1, <2>2, BalancedTransmit, Zenon DEF x
  <2>4. pc' = pc /\ out' = out /\ asked' = asked /\ lost' = lost /\ fifo' = Tail(fifo)
        /\ wire'[g] = IF x.by = g THEN Append(wire[g], x.char) ELSE wire[g]
    BY <1>2, <1>6
  <2>5. Balanced(g, pc'[g], out'[g], asked'[g], wire'[g], fifo', lost'[g])
    BY <2>3, <2>4, Zenon
  <2> QED
    BY <2>5, Zenon DEF Account
<1> QED
  BY <1>7, <1>8, <1>9 DEF IInv

(* A tick. *)
LEMMA TickStep ==
  ASSUME IInv, Tick
  PROVE  IInv'
<1>1. TypeOK /\ (\A g \in Flows : Control(g)) /\ \A g \in Flows : Account(g)
  BY DEF IInv
<1>2. /\ pc[Handler] = "idle" /\ cur' = (cur % Procs) + 1 /\ Overtake
      /\ UNCHANGED <<pc, out, asked, fifo, wire, lost>>
  BY DEF Tick
<1>3. Running = cur /\ cur \in Flows
  BY <1>1, <1>2, RunningType DEF Running
<1>4. cur' \in 1..Procs
  <2>1. cur \in 1..Procs /\ Procs \in Nat \ {0}
    BY <1>1, Constants DEF TypeOK
  <2>2. cur % Procs \in 0..(Procs - 1)
    BY <2>1
  <2> QED
    BY <1>2, <2>1, <2>2
<1>5. TypeOK'
  <2>1. overtaken' \subseteq Flows
    BY <1>1, <1>2, <1>3 DEF TypeOK, Overtake
  <2> QED
    BY <1>1, <1>2, <1>4, <2>1 DEF TypeOK
<1>6. ASSUME NEW g \in Flows
      PROVE  Control(g)'
  <2>1. pc[g] = "write" => g \in overtaken'
    BY <1>1, <1>2, <1>3 DEF Control, Overtake
  <2> QED
    BY <1>1, <1>2, <2>1 DEF Control
<1>7. ASSUME NEW g \in Flows
      PROVE  Account(g)'
  <2>1. pc'[g] = pc[g]
    BY <1>2
  <2> QED
    BY <1>1, <1>2, <2>1, AccountsStay
<1> QED
  BY <1>5, <1>6, <1>7 DEF IInv

(* Every step keeps the invariant. *)
LEMMA NextInvariant == IInv /\ [Next]_vars => IInv'
<1> SUFFICES ASSUME IInv, [Next]_vars PROVE IInv'
  OBVIOUS
<1>1. ASSUME NEW fmt \in Echoes, Interrupt(fmt) PROVE IInv'
  BY <1>1, InterruptStep
<1>2. ASSUME NEW fmt \in Formats, NEW p \in Flows, kprintf(p, fmt) PROVE IInv'
  BY <1>2, CallStep
<1>3. ASSUME NEW f \in Flows, Putc(f) PROVE IInv'
  BY <1>3, TestStep, WriteStep, WriteReturnStep DEF Putc
<1>4. CASE Transmit
  BY <1>4, TransmitStep
<1>5. CASE Tick
  BY <1>5, TickStep
<1>6. CASE UNCHANGED vars
  <2>1. TypeOK' /\ \A g \in Flows : Control(g)'
    BY <1>6 DEF IInv, TypeOK, Control, Running, vars
  <2>2. ASSUME NEW g \in Flows
        PROVE  Account(g)'
    <3>1. (\A h \in Flows : Account(h)) /\ pc'[g] = pc[g] /\ UNCHANGED <<out, asked, wire, fifo, lost>>
      BY <1>6 DEF IInv, vars
    <3> QED
      BY <3>1, AccountsStay
  <2> QED
    BY <2>1, <2>2 DEF IInv
<1> QED
  BY <1>1, <1>2, <1>3, <1>4, <1>5, <1>6 DEF Next

(* The invariant always holds. *)
THEOREM Invariance == Spec => []IInv
  BY InitInvariant, NextInvariant, PTL DEF Spec

(* The types are those that they should be. *)
THEOREM TypeCorrectness == Spec => []TypeOK
<1>1. IInv => TypeOK
  BY DEF IInv
<1> QED
  BY <1>1, Invariance, PTL

(* The text of a flow and what the transmitter has of it, as accounts have them. *)
LEMMA AccountOf ==
  ASSUME NEW f \in Flows, ~PrintedLeastInt(f), Account(f)
  PROVE  Settled(Text(f), Accepted(f), Len(lost[f]), Following(pc[f]) \o WithReturns(out[f]))
<1>1. ~LeastIn(asked[f])
  BY Zenon DEF LeastIn, PrintedLeastInt
<1>2. Text(f) = TextOf(asked[f])
  BY DEF Text, TextOf, Meanings
<1>3. Accepted(f) = wire[f] \o Sent(f, fifo)
  BY DEF Accepted, Sent
<1> QED
  BY <1>1, <1>2, <1>3, Zenon DEF Account, Balanced

(***************************************************************************)
(* What arrives of a flow's text is in order and complete but for what was *)
(* dropped (write_character, uart.cpp:14-26, and kprintf): for any number  *)
(* of processes that print at the same time.                               *)
(***************************************************************************)
THEOREM TextArrivesInOrder == Spec => []SentInOrder
<1>1. IInv => SentInOrder
  <2> SUFFICES ASSUME IInv, NEW f \in Flows, ~PrintedLeastInt(f)
               PROVE  /\ IsPartOf(Accepted(f), Text(f))
                      /\ pc[f] = "idle" => Len(Accepted(f)) + Len(lost[f]) = Len(Text(f))
    BY DEF SentInOrder
  <2> DEFINE rest == Following(pc[f]) \o WithReturns(out[f])
             acc == Accepted(f)
             n == Len(lost[f])
  <2>1. TypeOK /\ Control(f) /\ Account(f)
    BY DEF IInv
  <2>2. acc \in Seq(Chars) /\ n \in Nat /\ rest \in Seq(Chars)
    <3>1. fifo \in Seq(Slots) /\ wire[f] \in Seq(Chars) /\ lost[f] \in Seq(Chars) /\ out[f] \in Seq(Chars)
      BY <2>1 DEF TypeOK, Slots
    <3>2. << >> \in Seq(Slots)
      OBVIOUS
    <3>3. Sent(f, fifo) \in Seq(Chars)
      BY <3>1, <3>2, SentOfParts
    <3>4. acc = wire[f] \o Sent(f, fifo)
      BY DEF Accepted, Sent
    <3>5. acc \in Seq(Chars) /\ n \in Nat
      BY <3>1, <3>3, <3>4
    <3>6. Following(pc[f]) \in Seq(Chars)
      <4>1. <<RETURN>> \in Seq(Chars) /\ << >> \in Seq(Chars)
        BY DEF RETURN, Chars
      <4> QED
        BY <4>1, Zenon DEF Following
    <3>7. WithReturns(out[f]) \in Seq(Chars)
      BY <3>1, ReturnsOfParts
    <3> QED
      BY <3>5, <3>6, <3>7
  <2>3. PICK done \in Seq(Chars) : Text(f) = done \o rest /\ Keeps(acc, n, done)
    BY <2>1, AccountOf, Zenon DEF Settled
  <2>4. IsPartOf(acc, Text(f))
    BY <2>2, <2>3, KeepsIsPartOf
  <2>5. ASSUME pc[f] = "idle"
        PROVE  Len(acc) + n = Len(Text(f))
    <3>1. rest = << >>
      <4>1. out[f] = << >>
        BY <2>1, <2>5 DEF Control
      <4>2. WithReturns(out[f]) = << >> /\ Following(pc[f]) = << >>
        BY <2>5, <4>1, ReturnsOfOne DEF Following
      <4> QED
        BY <4>2
    <3>2. Text(f) = done
      BY <2>3, <3>1
    <3> QED
      BY <2>3, <3>2 DEF Keeps
  <2> QED
    BY <2>4, <2>5
<1> QED
  BY <1>1, Invariance, PTL

(***************************************************************************)
(* A character that was waited for (uart.cpp:16) is only lost by a flow    *)
(* that lost the processor between the test and the store.                 *)
(***************************************************************************)
THEOREM OnlyOvertakenLose == Spec => LostOnlyIfOvertaken
<1> DEFINE Allowed == \A f \in Flows :
             lost'[f] # lost[f] /\ lost'[f] # Append(lost[f], RETURN) => f \in overtaken
<1>1. IInv /\ [Next]_vars => [Allowed]_vars
  <2> SUFFICES ASSUME IInv, Next, NEW f \in Flows,
                      lost'[f] # lost[f], lost'[f] # Append(lost[f], RETURN)
               PROVE  f \in overtaken
    OBVIOUS
  <2>1. TypeOK /\ \A g \in Flows : Control(g)
    BY DEF IInv
  <2>2. lost' # lost
    OBVIOUS
  <2>3. PICK g \in Flows : Write(g) \/ WriteReturn(g)
    BY <2>2 DEF Next, Interrupt, kprintf, Begin, Putc, Test, Transmit, Tick
  <2>4. PICK c : Store(g, c) /\ (c = RETURN \/ pc[g] = "write")
    BY <2>3 DEF Write, WriteReturn
  <2>5. ~(Len(fifo) < Depth) /\ lost' = [lost EXCEPT ![g] = Append(@, c)]
    BY <2>2, <2>4 DEF Store
  <2>6. g = f /\ c # RETURN
    BY <2>1, <2>5 DEF TypeOK
  <2> QED
    BY <2>1, <2>4, <2>5, <2>6 DEF Control
<1> QED
  BY <1>1, Invariance, PTL DEF Spec, LostOnlyIfOvertaken

=============================================================================
