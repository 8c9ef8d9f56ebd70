---------------------------- MODULE StreamsProofs ----------------------------
(***************************************************************************)
(* Proofs about the byte streams of the bridge, for every conversation,    *)
(* output and pattern, and however they are cut.                           *)
(***************************************************************************)
EXTENDS Streams, SequenceTheorems, WellFoundedInduction, TLAPS

-----------------------------------------------------------------------------
(* Induction up to a number, and folds *)

\* Natural numbers have a smallest one among them.
LEMMA Smallest ==
    ASSUME NEW N \in SUBSET Nat, N # {}
    PROVE  \E m \in N : \A n \in N : m <= n
  <1>1. PICK m \in N : \A n \in N : ~ (<<n, m>> \in OpToRel(<, Nat))
    BY WFMin, NatLessThanWellFounded
  <1>2. \A n \in N : ~ (n < m)
    BY <1>1 DEF OpToRel
  <1>3. QED BY <1>2

\* What holds of 0 and of the next number, as long as there is one, holds up to n.
LEMMA UpTo ==
    ASSUME NEW n \in Nat, NEW G, 0 \in G, \A k \in G : k \in 0..(n - 1) => k + 1 \in G
    PROVE  0..n \subseteq G
  <1> DEFINE N == (0..n) \ G
  <1>1. SUFFICES ASSUME N # {} PROVE FALSE
    OBVIOUS
  <1>2. PICK m \in N : \A k \in N : m <= k
    <2>1. N \in SUBSET Nat
      OBVIOUS
    <2> HIDE DEF N
    <2> QED BY <1>1, <2>1, Smallest
  <1>3. m \in 1..n /\ m - 1 \in 0..(n - 1) /\ m - 1 \notin N
    BY <1>2
  <1>4. m - 1 \in G
    BY <1>3
  <1>5. m \in Int /\ (m - 1) + 1 = m /\ m \notin G
    BY <1>2
  <1> HIDE DEF N
  <1>6. (m - 1) + 1 \in G
    BY <1>3, <1>4
  <1> QED BY <1>5, <1>6

MaxOf(t) == CHOOSE x \in t : \A y \in t : x >= y
LEMMA MaxIs ==
    ASSUME NEW n \in Nat, NEW t \in SUBSET (1..n), n \in t
    PROVE  MaxOf(t) = n
  <1>1. n \in t /\ \A y \in t : n >= y
    OBVIOUS
  <1>2. MaxOf(t) \in t /\ \A y \in t : MaxOf(t) >= y
    BY <1>1 DEF MaxOf
  <1>3. MaxOf(t) \in 1..n /\ MaxOf(t) >= n
    BY <1>2
  <1> QED BY <1>3

LEMMA MaxOfInitial ==
    ASSUME NEW n \in Nat \ {0}
    PROVE  MaxOf(1..n) = n /\ (1..n) \ {n} = 1..(n - 1) /\ 1..n # {}
  <1>1. n \in 1..n /\ 1..n \in SUBSET (1..n)
    OBVIOUS
  <1>2. MaxOf(1..n) = n
    BY <1>1, MaxIs
  <1> QED BY <1>1, <1>2

LEMMA MaxIn ==
    ASSUME NEW L \in Nat, NEW t \in SUBSET (1..L), t # {}
    PROVE  MaxOf(t) \in t /\ MaxOf(t) \in 1..L /\ t \ {MaxOf(t)} \in SUBSET (1..L)
  <1> DEFINE N == {k \in Nat : L - k \in t}
  <1>1. N \in SUBSET Nat /\ N # {}
    <2>1. PICK x \in t : TRUE
      OBVIOUS
    <2>2. L - x \in Nat /\ L - (L - x) = x
      OBVIOUS
    <2> QED BY <2>1, <2>2
  <1>2. PICK k \in N : \A j \in N : k <= j
    <2> HIDE DEF N
    <2> QED BY <1>1, Smallest
  <1>3. \A y \in t : L - k >= y
    <2> TAKE y \in t
    <2>1. L - y \in Nat /\ L - (L - y) = y /\ k \in Nat /\ y \in Nat
      BY <1>1, <1>2
    <2>2. L - y \in N
      BY <2>1
    <2>3. k <= L - y
      BY <1>2, <2>2
    <2> QED BY <2>1, <2>3
  <1>4. MaxOf(t) \in t
    BY <1>2, <1>3 DEF MaxOf
  <1> QED BY <1>4

\* f folds the step g from base over any of the first n values of seq.
Folds(f, n, g, base, seq) ==
  \A t \in SUBSET (1..n) : f[t] = IF t = {} THEN base ELSE g[f[t \ {MaxOf(t)}]][seq[MaxOf(t)]]

\* g takes a state of A and a value of B to a state of A.
Closed(g, A, B) == \A a \in A, b \in B : g[a][b] \in A

\* F is what becomes of base, value by value.
Steps(F, g, base, seq) == F[0] = base /\ \A n \in 1..Len(seq) : F[n] = g[F[n - 1]][seq[n]]

\* There is such an f, if the step does not leave the set of states.
LEMMA FoldExists ==
    ASSUME NEW A, NEW B, NEW g, Closed(g, A, B),
           NEW base \in A, NEW L \in Nat, NEW seq, \A i \in 1..L : seq[i] \in B
    PROVE  \E f \in [SUBSET (1..L) -> A] : Folds(f, L, g, base, seq)
  <1> DEFINE Exists(n) == \E f \in [SUBSET (1..n) -> A] : Folds(f, n, g, base, seq)
             G == {n \in 0..L : Exists(n)}
  <1>1. 0 \in G
    <2> DEFINE f == [t \in SUBSET (1..0) |-> base]
    <2>1. \A t \in SUBSET (1..0) : t = {}
      OBVIOUS
    <2>2. f \in [SUBSET (1..0) -> A] /\ \A t \in SUBSET (1..0) : f[t] = base
      OBVIOUS
    <2>3. Folds(f, 0, g, base, seq)
      <3> HIDE DEF f
      <3> QED BY <2>1, <2>2 DEF Folds
    <2> QED BY <2>2, <2>3
  <1>2. ASSUME NEW k \in G, k \in 0..(L - 1) PROVE k + 1 \in G
    <2> DEFINE m == k + 1
    <2>0. k \in Nat /\ m \in Nat \ {0} /\ m \in 1..L /\ m \in 0..L /\ m \notin 1..k /\ 1..m = (1..k) \cup {m}
      BY <1>2
    <2>1. PICK f \in [SUBSET (1..k) -> A] : Folds(f, k, g, base, seq)
      OBVIOUS
    <2> HIDE DEF m
    <2> DEFINE h == [t \in SUBSET (1..m) |-> IF m \in t THEN g[f[t \ {m}]][seq[m]] ELSE f[t]]
    <2>2. ASSUME NEW t \in SUBSET (1..m), m \in t PROVE t \ {m} \in SUBSET (1..k) /\ f[t \ {m}] \in A
      BY <2>0, <2>1, <2>2
    <2>3. ASSUME NEW t \in SUBSET (1..m), m \notin t PROVE t \in SUBSET (1..k) /\ f[t] \in A
      BY <2>0, <2>1, <2>3
    <2>4. h \in [SUBSET (1..m) -> A]
      BY <2>0, <2>2, <2>3 DEF Closed
    <2>5. ASSUME NEW t \in SUBSET (1..m)
          PROVE  h[t] = IF t = {} THEN base ELSE g[h[t \ {MaxOf(t)}]][seq[MaxOf(t)]]
      <3>1. CASE m \in t
        <4>1. MaxOf(t) = m /\ t # {}
          BY <2>0, <3>1, MaxIs
        <4>2. h[t \ {m}] = f[t \ {m}]
          OBVIOUS
        <4>3. h[t] = g[f[t \ {m}]][seq[m]]
          BY <3>1
        <4> HIDE DEF h
        <4> QED BY <4>1, <4>2, <4>3
      <3>2. CASE m \notin t
        <4>1. t \in SUBSET (1..k)
          BY <2>3, <3>2
        <4>2. h[t] = f[t] /\ h[t \ {MaxOf(t)}] = f[t \ {MaxOf(t)}]
          BY <3>2
        <4> HIDE DEF h
        <4> QED BY <4>1, <4>2, <2>1 DEF Folds
      <3> QED BY <3>1, <3>2
    <2>6. Folds(h, m, g, base, seq)
      <3> HIDE DEF h
      <3> QED BY <2>5 DEF Folds
    <2>7. Exists(m)
      BY <2>4, <2>6
    <2> HIDE DEF Exists
    <2>8. m \in G
      BY <2>0, <2>7
    <2> QED BY <2>8 DEF m
  <1>3. L \in G
    <2> HIDE DEF G
    <2>1. 0..L \subseteq G
      BY <1>1, <1>2, UpTo
    <2> QED BY <2>1
  <1> QED BY <1>3

\* What f has made of the first n values, as a function of n.
LEMMA FoldSteps ==
    ASSUME NEW A, NEW B, NEW g, Closed(g, A, B), NEW base \in A, NEW seq \in Seq(B)
    PROVE  \E F \in [0..Len(seq) -> A] : Steps(F, g, base, seq)
  <1> DEFINE L == Len(seq)
  <1>0. L \in Nat /\ \A i \in 1..L : seq[i] \in B
    OBVIOUS
  <1> HIDE DEF L
  <1>1. PICK f \in [SUBSET (1..L) -> A] : Folds(f, L, g, base, seq)
    BY <1>0, FoldExists
  <1> DEFINE F == [n \in 0..L |-> f[1..n]]
  <1>2. ASSUME NEW n \in 0..L PROVE F[n] = f[1..n] /\ 1..n \in SUBSET (1..L) /\ F[n] \in A
    BY <1>0, <1>1
  <1>3. F \in [0..L -> A]
    BY <1>2
  <1>4. F[0] = base
    <2>1. 1..0 = {} /\ 0 \in 0..L
      BY <1>0
    <2> HIDE DEF F
    <2> QED BY <1>1, <1>2, <2>1 DEF Folds
  <1>5. ASSUME NEW n \in 1..L PROVE F[n] = g[F[n - 1]][seq[n]]
    <2>1. n \in 0..L /\ n - 1 \in 0..L /\ n \in Nat \ {0}
      BY <1>0
    <2> HIDE DEF F
    <2>2. MaxOf(1..n) = n /\ (1..n) \ {n} = 1..(n - 1) /\ 1..n # {}
      BY <2>1, MaxOfInitial
    <2> QED BY <1>1, <1>2, <2>1, <2>2 DEF Folds
  <1> QED BY <1>3, <1>4, <1>5 DEF L, Steps

\* A sequence of sequences is flattened one by one.
Flattens(f, seqs) == f = [i \in 1..Len(seqs) |-> IF i = 1 THEN seqs[i] ELSE f[i - 1] \o seqs[i]]

LEMMA FlattenIs ==
    ASSUME NEW S, NEW seqs \in Seq(Seq(S)), seqs # <<>>
    PROVE  \E f : Flattens(f, seqs) /\ FlattenSeq(seqs) = f[Len(seqs)]
  <1> DEFINE L == Len(seqs)
             g == [a \in Seq(S) |-> [b \in Seq(S) |-> a \o b]]
  <1>1. L \in Nat /\ L # 0 /\ (\A i \in 1..L : seqs[i] \in Seq(S)) /\ <<>> \in Seq(S)
    OBVIOUS
  <1>2. \A a \in Seq(S), b \in Seq(S) : g[a][b] = a \o b /\ a \o b \in Seq(S)
    OBVIOUS
  <1> HIDE DEF g, L
  <1>3. PICK F \in [0..L -> Seq(S)] : F[0] = <<>> /\ \A n \in 1..L : F[n] = g[F[n - 1]][seqs[n]]
    <2>1. Closed(g, Seq(S), Seq(S))
      BY <1>2 DEF Closed
    <2>2. \E F \in [0..Len(seqs) -> Seq(S)] : Steps(F, g, <<>>, seqs)
      BY <1>1, <2>1, FoldSteps
    <2> QED BY <2>2 DEF L, Steps
  <1> DEFINE h == [i \in 1..L |-> F[i]]
  <1>4. ASSUME NEW i \in 1..L PROVE h[i] = IF i = 1 THEN seqs[i] ELSE h[i - 1] \o seqs[i]
    <2>0. i - 1 \in 0..L
      BY <1>1
    <2>1. F[i - 1] \in Seq(S) /\ seqs[i] \in Seq(S)
      BY <1>1, <1>3, <2>0
    <2>2. F[i] = F[i - 1] \o seqs[i]
      BY <1>2, <1>3, <2>1
    <2>3. CASE i = 1
      <3>1. i - 1 = 0 /\ h[i] = F[i]
        BY <2>3
      <3>2. <<>> \o seqs[i] = seqs[i]
        BY <2>1
      <3> HIDE DEF h
      <3> QED BY <1>3, <2>2, <2>3, <3>1, <3>2
    <2>4. CASE i # 1
      <3>1. i - 1 \in 1..L /\ h[i] = F[i]
        BY <1>1, <2>4
      <3>2. h[i - 1] = F[i - 1]
        BY <3>1
      <3> HIDE DEF h
      <3> QED BY <2>2, <2>4, <3>1, <3>2
    <2> QED BY <2>3, <2>4
  <1>5. Flattens(h, seqs)
    <2>1. h = [i \in 1..L |-> h[i]]
      OBVIOUS
    <2> HIDE DEF h
    <2>2. [i \in 1..L |-> h[i]] = [i \in 1..L |-> IF i = 1 THEN seqs[i] ELSE h[i - 1] \o seqs[i]]
      BY <1>4
    <2> QED BY <2>1, <2>2 DEF Flattens, L
  <1> DEFINE f == CHOOSE f : Flattens(f, seqs)
  <1>6. Flattens(f, seqs)
    BY <1>5
  <1>7. FlattenSeq(seqs) = f[Len(seqs)]
    BY <1>1 DEF FlattenSeq, Flattens, L
  <1> QED BY <1>6, <1>7

\* F is what the first sequences make together.
Joins(F, seqs) == F[0] = <<>> /\ \A n \in 1..Len(seqs) : F[n] = F[n - 1] \o seqs[n]

LEMMA FlattenSteps ==
    ASSUME NEW S, NEW seqs \in Seq(Seq(S))
    PROVE  \E F \in [0..Len(seqs) -> Seq(S)] : Joins(F, seqs) /\ F[Len(seqs)] = FlattenSeq(seqs)
  <1> DEFINE L == Len(seqs)
  <1>0. L \in Nat /\ \A i \in 1..L : seqs[i] \in Seq(S)
    OBVIOUS
  <1>1. CASE seqs = <<>>
    <2>1. L = 0 /\ FlattenSeq(seqs) = <<>>
      BY <1>1 DEF FlattenSeq
    <2> DEFINE F == [n \in 0..0 |-> <<>>]
    <2>2. F \in [0..0 -> Seq(S)] /\ F[0] = <<>> /\ \A n \in 1..0 : F[n] = F[n - 1] \o seqs[n]
      OBVIOUS
    <2> QED BY <2>1, <2>2 DEF Joins
  <1>2. CASE seqs # <<>>
    <2>1. PICK f : Flattens(f, seqs) /\ FlattenSeq(seqs) = f[L]
      BY <1>2, FlattenIs
    <2>2. L # 0 /\ L \in 0..L
      BY <1>2, <1>0
    <2> DEFINE F == [n \in 0..L |-> IF n = 0 THEN <<>> ELSE f[n]]
               G == {n \in 0..L : F[n] \in Seq(S) /\ (n = 0 \/ F[n] = F[n - 1] \o seqs[n])}
    <2>3. 0 \in G
      BY <1>0
    <2>4. ASSUME NEW k \in G, k \in 0..(L - 1) PROVE k + 1 \in G
      <3>1. k + 1 \in 1..L /\ k + 1 \in 0..L /\ (k + 1) - 1 = k /\ k \in 0..L /\ F[k] \in Seq(S)
        BY <1>0, <2>4
      <3>2. f[k + 1] = IF k + 1 = 1 THEN seqs[k + 1] ELSE f[k] \o seqs[k + 1]
        BY <2>1, <3>1 DEF Flattens
      <3>3. seqs[k + 1] \in Seq(S) /\ <<>> \o seqs[k + 1] = seqs[k + 1]
        BY <1>0, <3>1
      <3>4. F[k + 1] = f[k + 1] /\ F[k] = IF k = 0 THEN <<>> ELSE f[k]
        BY <3>1
      <3> HIDE DEF F
      <3>5. F[k + 1] = F[k] \o seqs[k + 1]
        <4>1. CASE k = 0
          BY <3>2, <3>3, <3>4, <4>1
        <4>2. CASE k # 0
          <5>1. k + 1 # 1
            BY <3>1, <4>2
          <5> QED BY <3>2, <3>4, <4>2, <5>1
        <4> QED BY <4>1, <4>2
      <3>6. F[k + 1] \in Seq(S)
        BY <3>1, <3>3, <3>5
      <3> QED BY <3>1, <3>5, <3>6
    <2>5. 0..L \subseteq G
      <3> HIDE DEF G
      <3> QED BY <1>0, <2>3, <2>4, UpTo
    <2>6. F \in [0..L -> Seq(S)] /\ \A n \in 1..L : F[n] = F[n - 1] \o seqs[n]
      <3>1. \A n \in 0..L : F[n] \in Seq(S) /\ (n = 0 \/ F[n] = F[n - 1] \o seqs[n])
        BY <2>5
      <3>2. F = [n \in 0..L |-> F[n]]
        OBVIOUS
      <3> HIDE DEF F
      <3> QED BY <1>0, <3>1, <3>2
    <2>7. F[0] = <<>> /\ F[L] = FlattenSeq(seqs)
      BY <1>0, <2>1, <2>2
    <2> HIDE DEF F, G
    <2> QED BY <2>6, <2>7 DEF Joins
  <1> QED BY <1>1, <1>2

LEMMA ConcatType ==
    ASSUME NEW S, NEW p \in Seq(S), NEW q \in Seq(S)
    PROVE  /\ p \o q \in Seq(S) /\ Len(p \o q) = Len(p) + Len(q)
           /\ \A i \in 1..Len(p) : (p \o q)[i] = p[i]
           /\ \A i \in 1..Len(q) : (p \o q)[Len(p) + i] = q[i]
  OBVIOUS

\* x is a beginning of y.
Begins(x, y) == Len(x) <= Len(y) /\ \A j \in 1..Len(x) : y[j] = x[j]

\* What the first sequences make is a beginning of what all of them make.
LEMMA FlattenPrefix ==
    ASSUME NEW S, NEW seqs \in Seq(Seq(S)), NEW F \in [0..Len(seqs) -> Seq(S)],
           Joins(F, seqs), NEW k \in 0..Len(seqs), NEW n \in k..Len(seqs)
    PROVE  Begins(F[k], F[n])
  <1> DEFINE L == Len(seqs)
             Prefix(m) == Len(F[k]) <= Len(F[m]) /\ \A j \in 1..Len(F[k]) : F[m][j] = F[k][j]
             G == {d \in 0..(L - k) : Prefix(k + d)}
  <1>0. L \in Nat /\ k \in Nat /\ k <= L /\ L - k \in Nat /\ n - k \in 0..(L - k) /\ k + (n - k) = n
    OBVIOUS
  <1>1. 0 \in G
    BY <1>0
  <1>2. ASSUME NEW d \in G, d \in 0..((L - k) - 1) PROVE d + 1 \in G
    <2> DEFINE m == k + d
    <2>1. m \in 0..L /\ m + 1 \in 1..L /\ (m + 1) - 1 = m /\ k + (d + 1) = m + 1 /\ d + 1 \in 0..(L - k) /\ m + 1 \in 0..L
      BY <1>0, <1>2
    <2>2. Prefix(m)
      OBVIOUS
    <2> HIDE DEF m
    <2>3. F[m] \in Seq(S) /\ seqs[m + 1] \in Seq(S) /\ F[m + 1] = F[m] \o seqs[m + 1] /\ F[k] \in Seq(S)
      <3>1. F[m] \in Seq(S) /\ F[k] \in Seq(S)
        BY <2>1
      <3>2. seqs[m + 1] \in Seq(S)
        BY <2>1
      <3>3. F[m + 1] = F[m] \o seqs[m + 1]
        BY <2>1 DEF Joins
      <3> QED BY <3>1, <3>2, <3>3
    <2>4. /\ Len(F[m + 1]) = Len(F[m]) + Len(seqs[m + 1])
          /\ \A j \in 1..Len(F[m]) : F[m + 1][j] = F[m][j]
      <3> DEFINE x == F[m]
                 y == seqs[m + 1]
      <3>1. x \in Seq(S) /\ y \in Seq(S) /\ F[m + 1] = x \o y
        BY <2>3
      <3> HIDE DEF x, y
      <3>2. Len(x \o y) = Len(x) + Len(y) /\ \A j \in 1..Len(x) : (x \o y)[j] = x[j]
        BY <3>1, ConcatType
      <3> QED BY <3>1, <3>2 DEF x, y
    <2>5. Len(F[m]) \in Nat /\ Len(seqs[m + 1]) \in Nat /\ Len(F[k]) \in Nat
      BY <2>3
    <2>6. Prefix(m + 1)
      <3>1. Len(F[k]) <= Len(F[m]) /\ Len(F[k]) <= Len(F[m + 1])
        <4>1. Len(F[k]) <= Len(F[m])
          BY <2>2
        <4>2. Len(F[m + 1]) = Len(F[m]) + Len(seqs[m + 1])
          BY <2>4
        <4>3. \A a, b, c \in Nat : a <= b => a <= b + c
          OBVIOUS
        <4> QED BY <2>5, <4>1, <4>2, <4>3, Zenon
      <3>2. ASSUME NEW j \in 1..Len(F[k]) PROVE F[m + 1][j] = F[k][j]
        <4>1. j \in 1..Len(F[m])
          BY <2>5, <3>1
        <4> QED BY <2>2, <2>4, <4>1
      <3> QED BY <2>5, <3>1, <3>2
    <2> QED BY <2>1, <2>6
  <1>3. n - k \in G
    <2> HIDE DEF G
    <2>1. 0..(L - k) \subseteq G
      BY <1>0, <1>1, <1>2, UpTo
    <2> QED BY <1>0, <2>1
  <1>4. Prefix(k + (n - k))
    BY <1>3
  <1> QED BY <1>0, <1>4 DEF Begins

LEMMA FlattenType ==
    ASSUME NEW S, NEW seqs \in Seq(Seq(S))
    PROVE  FlattenSeq(seqs) \in Seq(S)
  <1>1. PICK F \in [0..Len(seqs) -> Seq(S)] : F[Len(seqs)] = FlattenSeq(seqs)
    BY FlattenSteps
  <1>2. Len(seqs) \in 0..Len(seqs)
    OBVIOUS
  <1> QED BY <1>1, <1>2

LEMMA FlattenConcat ==
    ASSUME NEW S, NEW p \in Seq(Seq(S)), NEW q \in Seq(Seq(S))
    PROVE  FlattenSeq(p \o q) = FlattenSeq(p) \o FlattenSeq(q)
  <1> DEFINE X == Seq(S)
             a == Len(p)
             b == Len(q)
             r == p \o q
  <1>0. /\ a \in Nat /\ b \in Nat /\ r \in Seq(X) /\ Len(r) = a + b
        /\ (\A i \in 1..a : r[i] = p[i] /\ p[i] \in X) /\ \A i \in 1..b : r[a + i] = q[i] /\ q[i] \in X
    OBVIOUS
  <1>1. PICK F \in [0..a -> X] : F[0] = <<>> /\ F[a] = FlattenSeq(p) /\ \A n \in 1..a : F[n] = F[n - 1] \o p[n]
    BY FlattenSteps DEF Joins
  <1>2. PICK G \in [0..b -> X] : G[0] = <<>> /\ G[b] = FlattenSeq(q) /\ \A n \in 1..b : G[n] = G[n - 1] \o q[n]
    BY FlattenSteps DEF Joins
  <1>3. PICK H \in [0..(a + b) -> X] :
           H[0] = <<>> /\ H[a + b] = FlattenSeq(r) /\ \A n \in 1..(a + b) : H[n] = H[n - 1] \o r[n]
    <2>1. r \in Seq(Seq(S)) /\ Len(r) = a + b
      BY <1>0
    <2> HIDE DEF a, b, r
    <2>2. PICK H \in [0..Len(r) -> Seq(S)] :
             H[0] = <<>> /\ H[Len(r)] = FlattenSeq(r) /\ \A n \in 1..Len(r) : H[n] = H[n - 1] \o r[n]
      BY <2>1, FlattenSteps DEF Joins
    <2> QED BY <2>1, <2>2
  <1> HIDE DEF a, b, r
  <1>4. H[a] = F[a]
    <2> DEFINE K == {n \in 0..a : H[n] = F[n]}
    <2>1. 0 \in K
      BY <1>0, <1>1, <1>3
    <2>2. ASSUME NEW k \in K, k \in 0..(a - 1) PROVE k + 1 \in K
      <3>1. k + 1 \in 1..a /\ k + 1 \in 1..(a + b) /\ (k + 1) - 1 = k /\ k + 1 \in 0..a
        BY <1>0, <2>2
      <3>2. H[k] = F[k] /\ r[k + 1] = p[k + 1]
        BY <1>0, <3>1
      <3>3. H[k + 1] = H[k] \o r[k + 1] /\ F[k + 1] = F[k] \o p[k + 1]
        BY <1>1, <1>3, <3>1
      <3> QED BY <3>1, <3>2, <3>3
    <2>3. 0..a \subseteq K
      <3> HIDE DEF K
      <3> QED BY <1>0, <2>1, <2>2, UpTo
    <2> QED BY <1>0, <2>3
  <1>5. H[a + b] = F[a] \o G[b]
    <2> DEFINE K == {n \in 0..b : H[a + n] = F[a] \o G[n]}
    <2>0. F[a] \in X /\ a + 0 = a /\ 0 \in 0..b /\ b \in 0..b
      BY <1>0, <1>1
    <2>1. 0 \in K
      <3>1. F[a] \o <<>> = F[a]
        BY <2>0
      <3> QED BY <1>2, <1>4, <2>0, <3>1
    <2>2. ASSUME NEW k \in K, k \in 0..(b - 1) PROVE k + 1 \in K
      <3>1. /\ k + 1 \in 1..b /\ (k + 1) - 1 = k /\ k + 1 \in 0..b /\ k \in 0..b
            /\ a + (k + 1) \in 1..(a + b) /\ (a + (k + 1)) - 1 = a + k
        BY <1>0, <2>2
      <3>2. H[a + k] = F[a] \o G[k] /\ r[a + (k + 1)] = q[k + 1] /\ q[k + 1] \in X /\ G[k] \in X
        BY <1>0, <1>2, <3>1
      <3>3. H[a + (k + 1)] = H[a + k] \o r[a + (k + 1)]
        BY <1>3, <3>1
      <3>4. G[k + 1] = G[k] \o q[k + 1]
        BY <1>2, <3>1
      <3>5. (F[a] \o G[k]) \o q[k + 1] = F[a] \o (G[k] \o q[k + 1])
        <4> DEFINE x == F[a]
                   y == G[k]
                   z == q[k + 1]
        <4>1. x \in Seq(S) /\ y \in Seq(S) /\ z \in Seq(S)
          BY <2>0, <3>2
        <4> HIDE DEF x, y, z, K, X
        <4>2. (x \o y) \o z = x \o (y \o z)
          BY <4>1, ConcatAssociative
        <4> QED BY <4>2 DEF x, y, z
      <3> QED BY <3>1, <3>2, <3>3, <3>4, <3>5
    <2>3. 0..b \subseteq K
      <3> HIDE DEF K
      <3> QED BY <1>0, <2>1, <2>2, UpTo
    <2> QED BY <2>0, <2>3
  <1> QED BY <1>1, <1>2, <1>3, <1>5 DEF r

LEMMA FlattenOne ==
    ASSUME NEW S, NEW s \in Seq(S)
    PROVE  FlattenSeq(<<s>>) = s
  <1>1. <<s>> \in Seq(Seq(S)) /\ Len(<<s>>) = 1 /\ <<s>>[1] = s
    OBVIOUS
  <1>2. PICK F \in [0..1 -> Seq(S)] : F[0] = <<>> /\ F[1] = FlattenSeq(<<s>>) /\ \A n \in 1..1 : F[n] = F[n - 1] \o <<s>>[n]
    BY <1>1, FlattenSteps DEF Joins
  <1>3. F[1] = F[0] \o s
    <2>1. F[1] = F[1 - 1] \o <<s>>[1] /\ 1 - 1 = 0
      BY <1>2
    <2> QED BY <1>1, <2>1
  <1> QED BY <1>2, <1>3

\* What each element of a sequence stands for, together
Flat(s, g) == FlattenSeq([i \in DOMAIN s |-> g[s[i]]])

Maps(g, C, S) == g \in [C -> Seq(S)]

LEMMA FlatConcat ==
    ASSUME NEW C, NEW S, NEW g, Maps(g, C, S), NEW s \in Seq(C), NEW t \in Seq(C)
    PROVE  Flat(s \o t, g) = Flat(s, g) \o Flat(t, g) /\ Flat(s, g) \in Seq(S)
  <1> DEFINE X == Seq(S)
             M(q) == [i \in DOMAIN q |-> g[q[i]]]
  <1>1. ASSUME NEW q \in Seq(C)
        PROVE  M(q) \in Seq(X) /\ Len(M(q)) = Len(q) /\ DOMAIN M(q) = 1..Len(q) /\ \A i \in 1..Len(q) : M(q)[i] = g[q[i]]
    <2>1. DOMAIN q = 1..Len(q) /\ Len(q) \in Nat /\ \A i \in 1..Len(q) : g[q[i]] \in X
      BY DEF Maps
    <2> HIDE DEF X
    <2> QED BY <2>1
  <1> DEFINE u == s \o t
  <1>2. /\ u \in Seq(C) /\ Len(u) = Len(s) + Len(t)
        /\ \A i \in 1..Len(s) : u[i] = s[i]
        /\ \A i \in 1..Len(t) : u[Len(s) + i] = t[i]
    BY ConcatType
  <1> HIDE DEF u
  <1> DEFINE m == M(s)
             n == M(t)
             w == M(u)
  <1>3. m \in Seq(X) /\ n \in Seq(X) /\ w \in Seq(X) /\ Len(m) = Len(s) /\ Len(n) = Len(t) /\ Len(w) = Len(u)
    BY <1>1, <1>2
  <1>4. /\ \A i \in 1..Len(s) : w[i] = m[i]
        /\ \A i \in 1..Len(t) : w[Len(s) + i] = n[i]
    <2>1. Len(s) \in Nat /\ Len(t) \in Nat
      OBVIOUS
    <2>2. ASSUME NEW i \in 1..Len(s) PROVE w[i] = m[i]
      BY <1>1, <1>2, <2>1
    <2>3. ASSUME NEW i \in 1..Len(t) PROVE w[Len(s) + i] = n[i]
      <3>1. Len(s) + i \in 1..Len(u)
        BY <1>2, <2>1
      <3>2. w[Len(s) + i] = g[u[Len(s) + i]]
        BY <1>1, <1>2, <3>1
      <3>3. n[i] = g[t[i]]
        BY <1>1
      <3> HIDE DEF w, n
      <3> QED BY <1>2, <3>2, <3>3
    <2> QED BY <2>2, <2>3
  <1> HIDE DEF m, n, w, X
  <1>5. w = m \o n
    <2> DEFINE v == m \o n
    <2>1. v \in Seq(X) /\ Len(v) = Len(m) + Len(n) /\ (\A i \in 1..Len(m) : v[i] = m[i])
          /\ \A i \in 1..Len(n) : v[Len(m) + i] = n[i]
      <3>1. m \in Seq(X) /\ n \in Seq(X)
        BY <1>3
      <3> QED BY <3>1, ConcatType
    <2> HIDE DEF v
    <2>2. Len(w) = Len(v) /\ Len(s) \in Nat /\ Len(t) \in Nat
      BY <1>2, <1>3, <2>1
    <2>3. ASSUME NEW i \in 1..Len(w) PROVE w[i] = v[i]
      <3>1. CASE i \in 1..Len(s)
        BY <1>3, <1>4, <2>1, <3>1
      <3>2. CASE i \notin 1..Len(s)
        <4>1. i - Len(s) \in 1..Len(t) /\ Len(s) + (i - Len(s)) = i
          BY <1>2, <1>3, <2>2, <3>2
        <4> QED BY <1>3, <1>4, <2>1, <4>1
      <3> QED BY <3>1, <3>2
    <2>4. w = v
      BY <1>3, <2>1, <2>2, <2>3, SeqEqual
    <2> QED BY <2>4 DEF v
  <1>6. FlattenSeq(w) = FlattenSeq(m) \o FlattenSeq(n) /\ FlattenSeq(m) \in Seq(S)
    BY <1>3, <1>5, FlattenConcat, FlattenType DEF X
  <1> QED BY <1>6 DEF Flat, m, n, w, u

LEMMA FlatOne ==
    ASSUME NEW C, NEW S, NEW g, Maps(g, C, S), NEW e \in C
    PROVE  Flat(<<e>>, g) = g[e] /\ Flat(<<>>, g) = <<>>
  <1>1. [i \in DOMAIN <<e>> |-> g[<<e>>[i]]] = <<g[e]>> /\ [i \in DOMAIN <<>> |-> g[<<>>[i]]] = <<>>
    OBVIOUS
  <1>2. FlattenSeq(<<g[e]>>) = g[e] /\ FlattenSeq(<<>>) = <<>>
    <2>1. g[e] \in Seq(S)
      BY DEF Maps
    <2>2. FlattenSeq(<<>>) = <<>>
      BY DEF FlattenSeq
    <2> QED BY <2>1, <2>2, FlattenOne
  <1> QED BY <1>1, <1>2 DEF Flat

-----------------------------------------------------------------------------
(* Texts that occur in one another *)

\* The letters of p stand in the text one after the other.
Stands(text, p) == \E i \in 0..(Len(text) - Len(p)) : \A j \in 1..Len(p) : text[i + j] = p[j]

LEMMA OccursAt ==
    ASSUME NEW S, NEW text \in Seq(S), NEW R, NEW p \in Seq(R)
    PROVE  Occurs(text, p) <=> Stands(text, p)
  <1>0. Len(text) \in Nat /\ Len(p) \in Nat
    OBVIOUS
  <1>1. ASSUME NEW i \in 0..(Len(text) - Len(p))
        PROVE  SubSeq(text, i + 1, i + Len(p)) = p <=> \A j \in 1..Len(p) : text[i + j] = p[j]
    <2> DEFINE s == SubSeq(text, i + 1, i + Len(p))
    <2>1. i \in Nat /\ i + Len(p) <= Len(text)
      BY <1>0
    <2>2. s \in Seq(S) /\ Len(s) = Len(p) /\ \A j \in 1..Len(p) : s[j] = text[i + j]
      <3>1. s = [j \in 1..Len(p) |-> text[i + j]]
        BY <1>0, <2>1
      <3>2. \A j \in 1..Len(p) : text[i + j] \in S
        BY <1>0, <2>1
      <3> HIDE DEF s
      <3> QED BY <1>0, <3>1, <3>2
    <2> HIDE DEF s
    <2>3. ASSUME \A j \in 1..Len(p) : text[i + j] = p[j] PROVE s = p
      <3>1. Len(s) = Len(p) /\ \A j \in 1..Len(s) : s[j] = p[j]
        BY <2>2, <2>3
      <3>2. s = [j \in 1..Len(s) |-> s[j]] /\ p = [j \in 1..Len(p) |-> p[j]]
        BY <2>2
      <3>3. [j \in 1..Len(s) |-> s[j]] = [j \in 1..Len(p) |-> p[j]]
        BY <3>1
      <3> QED BY <3>2, <3>3
    <2> QED BY <2>2, <2>3 DEF s
  <1> QED BY <1>1 DEF Occurs, Stands

\* b is the end of t.
Suffix(b, t) == Len(b) <= Len(t) /\ \A i \in 1..Len(b) : b[i] = t[Len(t) - Len(b) + i]

LEMMA SuffixConcat ==
    ASSUME NEW S, NEW b \in Seq(S), NEW t \in Seq(S), NEW u \in Seq(S), Suffix(b, t)
    PROVE  Suffix(b \o u, t \o u)
  <1> DEFINE v == b \o u
             w == t \o u
  <1>0. Len(b) \in Nat /\ Len(t) \in Nat /\ Len(u) \in Nat /\ Len(b) <= Len(t)
    BY DEF Suffix
  <1>1. /\ Len(v) = Len(b) + Len(u) /\ (\A i \in 1..Len(b) : v[i] = b[i])
        /\ \A i \in 1..Len(u) : v[Len(b) + i] = u[i]
    BY ConcatType
  <1>2. /\ Len(w) = Len(t) + Len(u) /\ (\A i \in 1..Len(t) : w[i] = t[i])
        /\ \A i \in 1..Len(u) : w[Len(t) + i] = u[i]
    BY ConcatType
  <1> HIDE DEF v, w
  <1>3. ASSUME NEW i \in 1..Len(v) PROVE v[i] = w[Len(w) - Len(v) + i]
    <2>1. CASE i \in 1..Len(b)
      <3>1. Len(t) - Len(b) + i \in 1..Len(t) /\ Len(w) - Len(v) + i = Len(t) - Len(b) + i
        BY <1>0, <1>1, <1>2, <2>1
      <3>2. b[i] = t[Len(t) - Len(b) + i]
        BY <2>1 DEF Suffix
      <3>3. v[i] = b[i] /\ w[Len(t) - Len(b) + i] = t[Len(t) - Len(b) + i]
        BY <1>1, <1>2, <2>1, <3>1
      <3> QED BY <3>1, <3>2, <3>3
    <2>2. CASE i \notin 1..Len(b)
      <3> DEFINE j == i - Len(b)
      <3>1. j \in 1..Len(u) /\ i = Len(b) + j /\ Len(w) - Len(v) + i = Len(t) + j
        BY <1>0, <1>1, <1>2, <2>2
      <3> HIDE DEF j
      <3>2. v[Len(b) + j] = u[j] /\ w[Len(t) + j] = u[j]
        BY <1>1, <1>2, <3>1
      <3> QED BY <3>1, <3>2
    <2> QED BY <2>1, <2>2
  <1> QED BY <1>0, <1>1, <1>2, <1>3 DEF Suffix, v, w

\* What is kept of a buffer is its end, and all of it or as much as a waiter remembers.
LEMMA TrimmedIs ==
    ASSUME NEW S, NEW b \in Seq(S)
    PROVE  /\ Trimmed(b) \in Seq(S) /\ Suffix(Trimmed(b), b)
           /\ Trimmed(b) = b \/ Len(Trimmed(b)) = BufKeep
           /\ Len(b) <= BufMax => Trimmed(b) = b
  <1>0. Len(b) \in Nat /\ BufMax \in Nat /\ BufKeep \in Nat /\ BufKeep <= BufMax
    BY StreamsAssumption
  <1>1. CASE Len(b) > BufMax
    <2> DEFINE k == Len(b) - BufKeep
               s == SubSeq(b, k + 1, Len(b))
    <2>1. k \in Nat /\ k + BufKeep = Len(b) /\ Trimmed(b) = s
      BY <1>0, <1>1 DEF Trimmed
    <2> HIDE DEF k
    <2>2. s \in Seq(S) /\ Len(s) = BufKeep /\ \A i \in 1..BufKeep : s[i] = b[k + i]
      <3>1. s = [i \in 1..BufKeep |-> b[k + i]]
        BY <1>0, <2>1
      <3>2. \A i \in 1..BufKeep : b[k + i] \in S
        BY <1>0, <2>1
      <3> HIDE DEF s
      <3> QED BY <1>0, <3>1, <3>2
    <2>3. Len(b) - BufKeep = k
      BY <1>0, <2>1
    <2>4. Suffix(s, b)
      <3> HIDE DEF s
      <3> QED BY <1>0, <2>1, <2>2, <2>3 DEF Suffix
    <2> HIDE DEF s
    <2> QED BY <1>0, <1>1, <2>1, <2>2, <2>4
  <1>2. CASE ~(Len(b) > BufMax)
    <2>1. Trimmed(b) = b
      BY <1>2 DEF Trimmed
    <2>2. Suffix(b, b)
      BY <1>0 DEF Suffix
    <2> QED BY <2>1, <2>2
  <1> QED BY <1>0, <1>1, <1>2

LEMMA SuffixTrans ==
    ASSUME NEW S, NEW a \in Seq(S), NEW b \in Seq(S), NEW c \in Seq(S), Suffix(a, b), Suffix(b, c)
    PROVE  Suffix(a, c)
  <1>0. Len(a) \in Nat /\ Len(b) \in Nat /\ Len(c) \in Nat /\ Len(a) <= Len(b) /\ Len(b) <= Len(c)
    BY DEF Suffix
  <1>1. ASSUME NEW i \in 1..Len(a) PROVE a[i] = c[Len(c) - Len(a) + i]
    <2> DEFINE j == Len(b) - Len(a) + i
    <2>1. j \in 1..Len(b) /\ Len(c) - Len(b) + j = Len(c) - Len(a) + i
      BY <1>0
    <2>2. a[i] = b[j]
      BY DEF Suffix
    <2> HIDE DEF j
    <2>3. b[j] = c[Len(c) - Len(b) + j]
      BY <2>1 DEF Suffix
    <2> QED BY <2>1, <2>2, <2>3
  <1> QED BY <1>0, <1>1 DEF Suffix

LEMMA OccursInMore ==
    ASSUME NEW S, NEW b \in Seq(S), NEW t \in Seq(S), NEW R, NEW p \in Seq(R), Suffix(b, t), Occurs(b, p)
    PROVE  Occurs(t, p)
  <1>0. Len(b) \in Nat /\ Len(t) \in Nat /\ Len(p) \in Nat /\ Len(b) <= Len(t)
    BY DEF Suffix
  <1>1. PICK i \in 0..(Len(b) - Len(p)) : \A j \in 1..Len(p) : b[i + j] = p[j]
    <2>1. Stands(b, p)
      BY OccursAt
    <2> QED BY <2>1 DEF Stands
  <1> DEFINE d == Len(t) - Len(b)
  <1>2. d + i \in 0..(Len(t) - Len(p)) /\ d \in Nat
    BY <1>0
  <1>3. ASSUME NEW j \in 1..Len(p) PROVE t[(d + i) + j] = p[j]
    <2>1. i + j \in 1..Len(b) /\ (d + i) + j = d + (i + j)
      BY <1>0
    <2>2. b[i + j] = t[d + (i + j)]
      BY <2>1 DEF Suffix
    <2> HIDE DEF d
    <2> QED BY <1>1, <2>1, <2>2
  <1> HIDE DEF d
  <1>4. Stands(t, p)
    BY <1>2, <1>3 DEF Stands
  <1> QED BY <1>4, OccursAt

LEMMA OccursLonger ==
    ASSUME NEW S, NEW t \in Seq(S), NEW u \in Seq(S), NEW R, NEW p \in Seq(R), Occurs(t, p)
    PROVE  Occurs(t \o u, p)
  <1> DEFINE w == t \o u
  <1>0. /\ w \in Seq(S) /\ Len(t) \in Nat /\ Len(u) \in Nat /\ Len(p) \in Nat /\ Len(w) = Len(t) + Len(u)
        /\ \A i \in 1..Len(t) : w[i] = t[i]
    BY ConcatType
  <1> HIDE DEF w
  <1>1. PICK i \in 0..(Len(t) - Len(p)) : \A j \in 1..Len(p) : t[i + j] = p[j]
    <2>1. Stands(t, p)
      BY OccursAt
    <2> QED BY <2>1 DEF Stands
  <1>2. i \in 0..(Len(w) - Len(p))
    BY <1>0
  <1>3. ASSUME NEW j \in 1..Len(p) PROVE w[i + j] = p[j]
    <2>1. i + j \in 1..Len(t)
      BY <1>0
    <2> QED BY <1>0, <1>1, <2>1
  <1>4. Occurs(w, p)
    <2>1. Stands(w, p)
      BY <1>2, <1>3 DEF Stands
    <2> QED BY <1>0, <2>1, OccursAt
  <1> QED BY <1>4 DEF w

\* A text that was not there before the last chunk, and is with it, is in what a waiter
\* remembers.
LEMMA OccursRecently ==
    ASSUME NEW S, NEW t \in Seq(S), NEW u \in Seq(S), NEW R, NEW p \in Seq(R),
           NEW b \in Seq(S), Suffix(b, t \o u), Len(b) >= BufKeep,
           Len(u) <= MaxChunk, Len(p) + MaxChunk <= BufKeep,
           ~Occurs(t, p), Occurs(t \o u, p)
    PROVE  Occurs(b, p)
  <1> DEFINE w == t \o u
  <1>0. /\ w \in Seq(S) /\ Len(t) \in Nat /\ Len(u) \in Nat /\ Len(p) \in Nat /\ Len(b) \in Nat
        /\ Len(w) = Len(t) + Len(u) /\ Suffix(b, w) /\ Occurs(w, p)
        /\ \A i \in 1..Len(t) : w[i] = t[i]
    BY ConcatType
  <1>00. MaxChunk \in Nat /\ BufKeep \in Nat
    BY StreamsAssumption
  <1> HIDE DEF w
  <1>1. PICK i \in 0..(Len(w) - Len(p)) : \A j \in 1..Len(p) : w[i + j] = p[j]
    <2>1. Stands(w, p)
      BY <1>0, OccursAt
    <2> QED BY <2>1 DEF Stands
  <1>2. i + Len(p) > Len(t)
    <2> SUFFICES ASSUME ~(i + Len(p) > Len(t)) PROVE FALSE
      OBVIOUS
    <2>1. i \in 0..(Len(t) - Len(p))
      BY <1>0
    <2>2. ASSUME NEW j \in 1..Len(p) PROVE t[i + j] = p[j]
      <3>1. i + j \in 1..Len(t)
        BY <1>0, <2>1
      <3> QED BY <1>0, <1>1, <3>1
    <2>3. Stands(t, p)
      BY <2>1, <2>2 DEF Stands
    <2> QED BY <2>3, OccursAt
  <1> DEFINE d == Len(w) - Len(b)
             k == i - d
  <1>3. Len(b) <= Len(w)
    BY <1>0 DEF Suffix
  <1>4. k \in 0..(Len(b) - Len(p)) /\ d \in Nat /\ d + k = i
    BY <1>0, <1>00, <1>2, <1>3
  <1>5. ASSUME NEW j \in 1..Len(p) PROVE b[k + j] = p[j]
    <2>1. k + j \in 1..Len(b) /\ d + (k + j) = i + j
      BY <1>0, <1>4
    <2>2. b[k + j] = w[d + (k + j)]
      BY <1>0, <2>1 DEF Suffix
    <2> HIDE DEF d, k
    <2> QED BY <1>1, <2>1, <2>2
  <1> HIDE DEF d, k
  <1>6. Stands(b, p)
    BY <1>4, <1>5 DEF Stands
  <1> QED BY <1>6, OccursAt

-----------------------------------------------------------------------------
(* The text of what the board prints *)

Chars == {"u1"} \cup UNION {Range(o) : o \in Outputs}
Letters == {"u"} \cup Chars
Said == [c \in Chars |-> CASE c = "u1" -> <<>> [] c = "u2" -> <<"u">> [] OTHER -> <<c>>]
TextOf(s) == Flat(s, Said)

LEMMA SaidType == Maps(Said, Chars, Letters) /\ \A c \in Chars : Len(Said[c]) <= 1
  <1>1. ASSUME NEW c \in Chars PROVE Said[c] \in Seq(Letters) /\ Len(Said[c]) <= 1
    <2>1. c \in Letters /\ "u" \in Letters
      BY DEF Letters
    <2>2. CASE c = "u1"
      <3>1. Said[c] = <<>>
        BY <2>2 DEF Said
      <3> QED BY <3>1
    <2>3. CASE c = "u2"
      <3>1. Said[c] = <<"u">>
        BY <2>3 DEF Said
      <3> QED BY <2>1, <3>1
    <2>4. CASE c # "u1" /\ c # "u2"
      <3>1. Said[c] = <<c>>
        BY <2>4 DEF Said
      <3> QED BY <2>1, <3>1
    <2> QED BY <2>2, <2>3, <2>4
  <1>2. Said = [c \in Chars |-> Said[c]]
    BY DEF Said
  <1> QED BY <1>1, <1>2 DEF Maps

LEMMA TextConcat ==
    ASSUME NEW s \in Seq(Chars), NEW t \in Seq(Chars)
    PROVE  TextOf(s \o t) = TextOf(s) \o TextOf(t) /\ TextOf(s) \in Seq(Letters)
  <1>1. Maps(Said, Chars, Letters)
    BY SaidType
  <1>2. Flat(s \o t, Said) = Flat(s, Said) \o Flat(t, Said) /\ Flat(s, Said) \in Seq(Letters)
    BY <1>1, FlatConcat
  <1> QED BY <1>2 DEF TextOf

\* No character takes less than a byte.
LEMMA TextShort ==
    ASSUME NEW s \in Seq(Chars)
    PROVE  Len(TextOf(s)) <= Len(s)
  <1> DEFINE X == Seq(Letters)
             m == [i \in DOMAIN s |-> Said[s[i]]]
             L == Len(s)
  <1>1. m \in Seq(X) /\ Len(m) = L /\ L \in Nat /\ \A i \in 1..L : m[i] \in X /\ Len(m[i]) <= 1
    <2>1. DOMAIN s = 1..L /\ L \in Nat /\ \A i \in 1..L : s[i] \in Chars
      OBVIOUS
    <2>2. \A i \in 1..L : Said[s[i]] \in X /\ Len(Said[s[i]]) <= 1
      BY <2>1, SaidType DEF Maps
    <2> HIDE DEF X, L
    <2> QED BY <2>1, <2>2
  <1> HIDE DEF m
  <1>2. PICK F \in [0..Len(m) -> X] : Joins(F, m) /\ F[Len(m)] = FlattenSeq(m)
    BY <1>1, FlattenSteps
  <1> DEFINE G == {n \in 0..L : Len(F[n]) <= n}
  <1>3. 0 \in G
    BY <1>1, <1>2 DEF Joins
  <1>4. ASSUME NEW k \in G, k \in 0..(L - 1) PROVE k + 1 \in G
    <2> DEFINE x == F[k]
               y == m[k + 1]
    <2>1. k + 1 \in 1..L /\ (k + 1) - 1 = k /\ k + 1 \in 0..L /\ k \in 0..L
      BY <1>1, <1>4
    <2>2. F[k + 1] = x \o y /\ x \in X /\ y \in X /\ Len(y) <= 1 /\ Len(x) <= k
      BY <1>1, <1>2, <2>1 DEF Joins
    <2> HIDE DEF x, y
    <2>3. Len(x \o y) = Len(x) + Len(y) /\ Len(x) \in Nat /\ Len(y) \in Nat
      BY <2>2, ConcatType
    <2>4. Len(F[k + 1]) <= k + 1
      BY <2>1, <2>2, <2>3
    <2> QED BY <2>1, <2>4
  <1>5. L \in G
    <2> HIDE DEF G
    <2>1. 0..L \subseteq G
      BY <1>1, <1>3, <1>4, UpTo
    <2> QED BY <1>1, <2>1
  <1> QED BY <1>1, <1>2, <1>5 DEF TextOf, Flat, m

LEMMA Decoded ==
    ASSUME NEW first \in {<<>>, <<"u1">>}, NEW bytes \in Seq(Chars), bytes # <<>>
    PROVE  /\ Decode(first, bytes).text = TextOf(bytes)
           /\ Decode(first, bytes).pending \in {<<>>, <<"u1">>}
  <1> DEFINE all == first \o bytes
  <1>1. "u1" \in Chars /\ first \in Seq(Chars)
    <2>1. "u1" \in Chars
      BY DEF Chars
    <2>2. <<"u1">> \in Seq(Chars) /\ <<>> \in Seq(Chars)
      BY <2>1
    <2> QED BY <2>1, <2>2
  <1>2. all \in Seq(Chars)
    BY <1>1, ConcatType
  <1>3. TextOf(all) = TextOf(first) \o TextOf(bytes) /\ TextOf(bytes) \in Seq(Letters)
    <2> HIDE DEF all
    <2>1. TextOf(first \o bytes) = TextOf(first) \o TextOf(bytes)
      BY <1>1, TextConcat
    <2>2. TextOf(bytes) \in Seq(Letters)
      BY TextConcat
    <2> QED BY <2>1, <2>2 DEF all
  <1>4. TextOf(first) = <<>>
    <2>1. Said["u1"] = <<>>
      BY <1>1 DEF Said
    <2>2. Flat(<<"u1">>, Said) = Said["u1"] /\ Flat(<<>>, Said) = <<>>
      BY <1>1, SaidType, FlatOne
    <2> QED BY <2>1, <2>2 DEF TextOf
  <1>5. Decode(first, bytes).text = TextOf(all)
    <2> DEFINE f == [i \in DOMAIN all |->
                       CASE all[i] = "u1" -> <<>> [] all[i] = "u2" -> <<"u">> [] OTHER -> <<all[i]>>]
               g == [i \in DOMAIN all |-> Said[all[i]]]
    <2>1. f = g
      <3>1. \A i \in DOMAIN all : all[i] \in Chars
        BY <1>2
      <3> HIDE DEF all
      <3> QED BY <3>1 DEF Said
    <2>2. Decode(first, bytes).text = FlattenSeq(f)
      BY DEF Decode
    <2>3. TextOf(all) = FlattenSeq(g)
      BY DEF TextOf, Flat
    <2> HIDE DEF f, g
    <2> QED BY <2>1, <2>2, <2>3
  <1>6. <<>> \o TextOf(bytes) = TextOf(bytes)
    BY <1>3
  <1>7. Decode(first, bytes).pending \in {<<>>, <<"u1">>}
    BY DEF Decode
  <1> QED BY <1>3, <1>4, <1>5, <1>6, <1>7

-----------------------------------------------------------------------------
(* Waiters *)

WaiterType == [state : {"none", "waiting", "matched", "null"}, buf : Seq(Letters), since : Nat]

\* s is what was printed since w was registered to wait for p.
Knows(w, p, s) ==
    /\ w.state = "waiting" =>
          /\ Suffix(w.buf, TextOf(s)) /\ (w.buf = TextOf(s) \/ Len(w.buf) >= BufKeep)
          /\ ~(s # <<>> /\ Occurs(TextOf(s), p))
    /\ w.state = "matched" => s # <<>> /\ Occurs(TextOf(s), p)

LEMMA PatternType ==
    ASSUME NEW p \in Patterns
    PROVE  p \in Seq(Range(p)) /\ Len(p) \in Nat /\ Len(p) + MaxChunk <= BufKeep
  <1>1. p \in Seq(Range(p)) /\ Len(p) + MaxChunk <= BufKeep
    BY StreamsAssumption
  <1> QED BY <1>1

LEMMA HearsType ==
    ASSUME NEW w \in WaiterType, NEW p, NEW t \in Seq(Letters)
    PROVE  Hears(w, p, t) \in WaiterType /\ Hears(w, p, t).since = w.since
  <1> DEFINE full == w.buf \o t
             buf == Trimmed(full)
  <1>1. full \in Seq(Letters)
    BY ConcatType DEF WaiterType
  <1> HIDE DEF full
  <1>2. buf \in Seq(Letters) /\ <<>> \in Seq(Letters)
    BY <1>1, TrimmedIs
  <1> HIDE DEF buf
  <1>3. Hears(w, p, t) = IF w.state # "waiting" THEN w
                         ELSE [w EXCEPT !.buf = IF Occurs(buf, p) THEN <<>> ELSE buf,
                                        !.state = IF Occurs(buf, p) THEN "matched" ELSE "waiting"]
    BY DEF Hears, buf, full
  <1>4. CASE w.state # "waiting"
    BY <1>3, <1>4
  <1>5. CASE w.state = "waiting" /\ Occurs(buf, p)
    <2>1. Hears(w, p, t) = [w EXCEPT !.buf = <<>>, !.state = "matched"]
      BY <1>3, <1>5
    <2> QED BY <1>2, <2>1 DEF WaiterType
  <1>6. CASE w.state = "waiting" /\ ~Occurs(buf, p)
    <2>1. Hears(w, p, t) = [w EXCEPT !.buf = buf, !.state = "waiting"]
      BY <1>3, <1>6
    <2> QED BY <1>2, <2>1 DEF WaiterType
  <1> QED BY <1>4, <1>5, <1>6

\* A waiter that hears the next chunk knows all there is to know.
LEMMA HearsKnows ==
    ASSUME NEW w \in WaiterType, NEW p \in Patterns, NEW s \in Seq(Chars), Knows(w, p, s),
           NEW bytes \in Seq(Chars), bytes # <<>>, Len(bytes) <= MaxChunk
    PROVE  Knows(Hears(w, p, TextOf(bytes)), p, s \o bytes)
  <1> DEFINE t == TextOf(s)
             u == TextOf(bytes)
             all == s \o bytes
             full == w.buf \o u
             buf == Trimmed(full)
             x == Hears(w, p, u)
  <1>0. MaxChunk \in Nat /\ BufKeep \in Nat /\ BufMax \in Nat /\ BufKeep <= BufMax
    BY StreamsAssumption
  <1>1. t \in Seq(Letters) /\ u \in Seq(Letters) /\ TextOf(all) = t \o u
    <2>1. TextOf(s \o bytes) = TextOf(s) \o TextOf(bytes) /\ TextOf(s) \in Seq(Letters)
      BY TextConcat
    <2>2. TextOf(bytes) \in Seq(Letters)
      BY TextConcat
    <2> QED BY <2>1, <2>2
  <1>2. Len(u) <= MaxChunk /\ Len(u) \in Nat
    <2>1. Len(u) <= Len(bytes) /\ Len(bytes) \in Nat
      BY TextShort
    <2>2. Len(u) \in Nat
      <3> HIDE DEF u
      <3> QED BY <1>1
    <2> HIDE DEF u
    <2> QED BY <1>0, <2>1, <2>2
  <1>3. all # <<>>
    <2>1. Len(all) = Len(s) + Len(bytes) /\ Len(s) \in Nat /\ Len(bytes) \in Nat \ {0}
      BY ConcatType
    <2> HIDE DEF all
    <2> QED BY <2>1
  <1>4. w.buf \in Seq(Letters)
    BY DEF WaiterType
  <1>5. p \in Seq(Range(p)) /\ Len(p) \in Nat /\ Len(p) + MaxChunk <= BufKeep
    BY PatternType
  <1> HIDE DEF t, u, all
  <1>6. full \in Seq(Letters) /\ t \o u \in Seq(Letters) /\ Len(full) = Len(w.buf) + Len(u)
    BY <1>1, <1>4, ConcatType
  <1>7. /\ buf \in Seq(Letters) /\ Suffix(buf, full) /\ (buf = full \/ Len(buf) = BufKeep)
        /\ Len(full) <= BufMax => buf = full
    <2> HIDE DEF full
    <2> QED BY <1>6, TrimmedIs
  <1>8. x = IF w.state # "waiting" THEN w
            ELSE [w EXCEPT !.buf = IF Occurs(buf, p) THEN <<>> ELSE buf,
                           !.state = IF Occurs(buf, p) THEN "matched" ELSE "waiting"]
    BY DEF Hears
  <1> HIDE DEF x
  <1>9. ASSUME w.state = "matched" PROVE Knows(x, p, all)
    <2>1. x = w
      BY <1>8, <1>9
    <2>2. Occurs(t, p)
      BY <1>9 DEF Knows, t
    <2>3. Occurs(t \o u, p)
      BY <1>1, <1>5, <2>2, OccursLonger
    <2> QED BY <1>1, <1>3, <1>9, <2>1, <2>3 DEF Knows
  <1>10. ASSUME w.state = "waiting" PROVE Knows(x, p, all)
    <2>1. Suffix(w.buf, t) /\ (w.buf = t \/ Len(w.buf) >= BufKeep) /\ ~(s # <<>> /\ Occurs(t, p))
      BY <1>10 DEF Knows, t
    <2>2. Suffix(full, t \o u)
      BY <1>1, <1>4, <2>1, SuffixConcat
    <2>3. Suffix(buf, t \o u)
      <3> HIDE DEF buf, full
      <3> QED BY <1>6, <1>7, <2>2, SuffixTrans
    <2>4. buf = t \o u \/ Len(buf) >= BufKeep
      <3>1. CASE buf = full /\ w.buf = t
        BY <3>1
      <3>2. CASE Len(buf) = BufKeep
        BY <1>0, <3>2
      <3>3. CASE buf = full /\ Len(w.buf) >= BufKeep
        <4>1. Len(w.buf) \in Nat
          BY <1>4
        <4> HIDE DEF buf, full
        <4> QED BY <1>0, <1>2, <1>6, <3>3, <4>1
      <3> QED BY <1>7, <2>1, <3>1, <3>2, <3>3
    <2>5. Occurs(buf, p) => Occurs(t \o u, p)
      <3> HIDE DEF buf, full
      <3> QED BY <1>5, <1>6, <1>7, <2>3, OccursInMore
    <2>6. Occurs(t \o u, p) => Occurs(buf, p)
      <3> HIDE DEF buf, full
      <3> SUFFICES ASSUME Occurs(t \o u, p), buf # t \o u PROVE Occurs(buf, p)
        OBVIOUS
      <3>1. Len(buf) >= BufKeep
        BY <2>4
      <3>2. CASE Occurs(t, p)
        <4>1. s = <<>>
          BY <2>1, <3>2
        <4>2. t = <<>>
          BY <4>1 DEF t, TextOf, Flat, FlattenSeq
        <4>3. PICK i \in 0..(Len(t) - Len(p)) : \A j \in 1..Len(p) : t[i + j] = p[j]
          <5>1. Stands(t, p)
            BY <1>1, <1>5, <3>2, OccursAt
          <5> QED BY <5>1 DEF Stands
        <4>4. Len(p) = 0 /\ Len(buf) \in Nat
          BY <1>5, <1>7, <4>2, <4>3
        <4>5. Stands(buf, p)
          <5>1. 0 \in 0..(Len(buf) - Len(p)) /\ 1..Len(p) = {}
            BY <4>4
          <5> QED BY <5>1 DEF Stands
        <4> QED BY <1>5, <1>7, <4>5, OccursAt
      <3>3. CASE ~Occurs(t, p)
        BY <1>1, <1>2, <1>5, <1>7, <2>3, <3>1, <3>3, OccursRecently
      <3> QED BY <3>2, <3>3
    <2>7. CASE Occurs(buf, p)
      <3>1. x = [w EXCEPT !.buf = <<>>, !.state = "matched"]
        BY <1>8, <1>10, <2>7
      <3>2. x.state = "matched"
        BY <3>1 DEF WaiterType
      <3> QED BY <1>1, <1>3, <2>5, <2>7, <3>2 DEF Knows
    <2>8. CASE ~Occurs(buf, p)
      <3>1. x = [w EXCEPT !.buf = buf, !.state = "waiting"]
        BY <1>8, <1>10, <2>8
      <3>2. x.state = "waiting" /\ x.buf = buf
        BY <3>1 DEF WaiterType
      <3>3. ~Occurs(t \o u, p)
        BY <2>6, <2>8
      <3> HIDE DEF buf, full
      <3> QED BY <1>1, <2>3, <2>4, <3>2, <3>3 DEF Knows
    <2> QED BY <2>7, <2>8
  <1>11. ASSUME w.state \notin {"matched", "waiting"} PROVE Knows(x, p, all)
    BY <1>8, <1>11 DEF Knows
  <1>12. Knows(x, p, all)
    BY <1>9, <1>10, <1>11
  <1> QED BY <1>12 DEF x, u, all

Since(w) == SubSeq(printed, w.since + 1, Len(printed))

ConsoleType ==
    /\ printed \in Seq(Chars)
    /\ sent = <<>> => rest \in Seq(Chars)
    /\ pending \in {<<>>, <<"u1">>}
    /\ waiters \in [Patterns -> WaiterType]
    /\ \A p \in Patterns : waiters[p].since <= Len(printed)

AllKnow == \A p \in Patterns : Knows(waiters[p], p, Since(waiters[p]))

ConsoleInv == ConsoleType /\ AllKnow

LEMMA SinceGrows ==
    ASSUME NEW S, NEW s \in Seq(S), NEW t \in Seq(S), NEW n \in 0..Len(s)
    PROVE  /\ SubSeq(s \o t, n + 1, Len(s \o t)) = SubSeq(s, n + 1, Len(s)) \o t
           /\ SubSeq(s, n + 1, Len(s)) \in Seq(S) /\ n <= Len(s \o t)
  <1>0. Len(s) \in Nat /\ Len(t) \in Nat /\ n \in Nat /\ n <= Len(s)
    OBVIOUS
  <1> DEFINE a == s \o t
             x == SubSeq(a, n + 1, Len(a))
             y == SubSeq(s, n + 1, Len(s))
             z == y \o t
  <1>1. /\ a \in Seq(S) /\ Len(a) = Len(s) + Len(t) /\ (\A i \in 1..Len(s) : a[i] = s[i])
        /\ \A i \in 1..Len(t) : a[Len(s) + i] = t[i]
    BY ConcatType
  <1> HIDE DEF a
  <1>2. x \in Seq(S) /\ Len(x) = Len(a) - n /\ \A i \in 1..(Len(a) - n) : x[i] = a[n + i]
    BY <1>0, <1>1
  <1>3. y \in Seq(S) /\ Len(y) = Len(s) - n /\ \A i \in 1..(Len(s) - n) : y[i] = s[n + i]
    BY <1>0
  <1> HIDE DEF x, y
  <1>4. /\ z \in Seq(S) /\ Len(z) = Len(y) + Len(t) /\ (\A i \in 1..Len(y) : z[i] = y[i])
        /\ \A i \in 1..Len(t) : z[Len(y) + i] = t[i]
    <2>1. y \in Seq(S)
      BY <1>3
    <2> QED BY <2>1, ConcatType
  <1> HIDE DEF z
  <1>5. Len(x) = Len(z)
    BY <1>0, <1>1, <1>2, <1>3, <1>4
  <1>6. ASSUME NEW i \in 1..Len(x) PROVE x[i] = z[i]
    <2>1. CASE i \in 1..Len(y)
      <3>1. n + i \in 1..Len(s) /\ i \in 1..(Len(s) - n) /\ i \in 1..(Len(a) - n)
        BY <1>0, <1>1, <1>3, <2>1
      <3> QED BY <1>1, <1>2, <1>3, <1>4, <2>1, <3>1
    <2>2. CASE i \notin 1..Len(y)
      <3> DEFINE j == i - Len(y)
      <3>1. j \in 1..Len(t) /\ Len(y) + j = i /\ Len(s) + j = n + i /\ i \in 1..(Len(a) - n)
        BY <1>0, <1>1, <1>2, <1>3, <2>2
      <3> HIDE DEF j
      <3>2. z[i] = t[j] /\ a[n + i] = t[j] /\ x[i] = a[n + i]
        BY <1>1, <1>2, <1>4, <3>1
      <3> QED BY <3>2
    <2> QED BY <2>1, <2>2
  <1>7. x = z
    BY <1>2, <1>4, <1>5, <1>6, SeqEqual
  <1>8. n <= Len(a)
    BY <1>0, <1>1
  <1> QED BY <1>3, <1>7, <1>8 DEF a, x, y, z

LEMMA OutputsType == ASSUME NEW o \in Outputs PROVE o \in Seq(Chars)
  <1>1. o \in Seq(Range(o)) /\ Range(o) \subseteq Chars
    BY StreamsAssumption DEF Chars
  <1> QED BY <1>1

LEMMA ConsoleInit == Init => ConsoleInv
  <1> SUFFICES ASSUME Init PROVE ConsoleInv
    OBVIOUS
  <1>1. /\ printed = <<>> /\ pending = <<>>
        /\ waiters = [p \in Patterns |-> [state |-> "none", buf |-> <<>>, since |-> 0]]
    BY DEF Init
  <1>2. sent = <<>> => rest \in Seq(Chars)
    <2> SUFFICES ASSUME sent = <<>> PROVE rest \in Seq(Chars)
      OBVIOUS
    <2>1. CASE rest \in Outputs
      BY <2>1, OutputsType
    <2>2. CASE rest = FlattenSeq([i \in DOMAIN sent |-> Bytes(sent[i])])
      <3>1. [i \in DOMAIN sent |-> Bytes(sent[i])] = <<>>
        OBVIOUS
      <3>2. rest = <<>>
        BY <2>2, <3>1 DEF FlattenSeq
      <3> QED BY <3>2
    <2> QED BY <2>1, <2>2 DEF Init
  <1>3. \A p \in Patterns : waiters[p] = [state |-> "none", buf |-> <<>>, since |-> 0] /\ waiters[p] \in WaiterType
    BY <1>1 DEF WaiterType
  <1>4. ConsoleType
    <2>1. waiters \in [Patterns -> WaiterType]
      BY <1>1, <1>3
    <2>2. printed \in Seq(Chars) /\ \A p \in Patterns : waiters[p].since <= Len(printed)
      BY <1>1, <1>3
    <2> QED BY <1>1, <1>2, <2>1, <2>2 DEF ConsoleType
  <1>5. AllKnow
    BY <1>3 DEF AllKnow, Knows
  <1> QED BY <1>4, <1>5 DEF ConsoleInv

LEMMA ChunkType ==
    ASSUME NEW S, NEW s \in Seq(S), s # <<>>, NEW n \in 1..(IF Len(s) < MaxChunk THEN Len(s) ELSE MaxChunk)
    PROVE  /\ SubSeq(s, 1, n) \in Seq(S) /\ Len(SubSeq(s, 1, n)) = n /\ n <= MaxChunk /\ n \in Nat \ {0}
           /\ n <= Len(s) /\ SubSeq(s, 1, n) # <<>>
           /\ SubSeq(s, n + 1, Len(s)) \in Seq(S) /\ Len(SubSeq(s, n + 1, Len(s))) = Len(s) - n
           /\ \A i \in 1..n : SubSeq(s, 1, n)[i] = s[i]
           /\ \A i \in 1..(Len(s) - n) : SubSeq(s, n + 1, Len(s))[i] = s[n + i]
  <1>0. Len(s) \in Nat /\ MaxChunk \in Nat
    BY StreamsAssumption
  <1>1. n \in Nat \ {0} /\ n <= Len(s) /\ n <= MaxChunk
    BY <1>0
  <1> DEFINE x == SubSeq(s, 1, n)
             y == SubSeq(s, n + 1, Len(s))
  <1>2. x \in Seq(S) /\ Len(x) = n /\ \A i \in 1..n : x[i] = s[i]
    BY <1>0, <1>1
  <1>3. y \in Seq(S) /\ Len(y) = Len(s) - n /\ \A i \in 1..(Len(s) - n) : y[i] = s[n + i]
    BY <1>0, <1>1
  <1> HIDE DEF x, y
  <1>4. x # <<>>
    BY <1>1, <1>2
  <1> QED BY <1>1, <1>2, <1>3, <1>4 DEF x, y

LEMMA ConsoleChunk ==
    ASSUME ConsoleInv, NEW bytes \in Seq(Chars), bytes # <<>>, Len(bytes) <= MaxChunk,
           sent = <<>> => rest' \in Seq(Chars), onSerialChunk(bytes)
    PROVE  ConsoleInv'
  <1> DEFINE decoded == Decode(pending, bytes)
             text == TextOf(bytes)
  <1>1. decoded.text = text /\ decoded.pending \in {<<>>, <<"u1">>}
    BY Decoded DEF ConsoleInv, ConsoleType
  <1>2. /\ printed' = printed \o bytes /\ pending' = decoded.pending /\ sent' = sent
        /\ waiters' = [p \in Patterns |-> Hears(waiters[p], p, decoded.text)]
    BY DEF onSerialChunk, gdb
  <1>3. text \in Seq(Letters) /\ printed \in Seq(Chars)
    BY TextConcat DEF ConsoleInv, ConsoleType
  <1> HIDE DEF decoded, text
  <1>4. ASSUME NEW p \in Patterns
        PROVE  /\ waiters'[p] = Hears(waiters[p], p, text) /\ waiters'[p] \in WaiterType
               /\ waiters'[p].since = waiters[p].since
               /\ waiters[p] \in WaiterType /\ waiters[p].since \in 0..Len(printed)
    <2>1. waiters[p] \in WaiterType /\ waiters[p].since \in 0..Len(printed)
      <3>1. waiters[p] \in WaiterType /\ waiters[p].since <= Len(printed)
        BY DEF ConsoleInv, ConsoleType
      <3>2. waiters[p].since \in Nat /\ Len(printed) \in Nat
        BY <1>3, <3>1 DEF WaiterType
      <3> QED BY <3>1, <3>2
    <2>2. waiters'[p] = Hears(waiters[p], p, text)
      BY <1>1, <1>2
    <2>3. Hears(waiters[p], p, text) \in WaiterType /\ Hears(waiters[p], p, text).since = waiters[p].since
      BY <1>3, <2>1, HearsType
    <2> QED BY <2>1, <2>2, <2>3
  <1>5. ASSUME NEW p \in Patterns
        PROVE  /\ SubSeq(printed', waiters'[p].since + 1, Len(printed')) = Since(waiters[p]) \o bytes
               /\ Since(waiters[p]) \in Seq(Chars) /\ waiters'[p].since <= Len(printed')
    <2> DEFINE n == waiters[p].since
    <2>1. n \in 0..Len(printed) /\ waiters'[p].since = n
      BY <1>4
    <2> HIDE DEF n
    <2>2. /\ SubSeq(printed \o bytes, n + 1, Len(printed \o bytes)) = SubSeq(printed, n + 1, Len(printed)) \o bytes
          /\ SubSeq(printed, n + 1, Len(printed)) \in Seq(Chars) /\ n <= Len(printed \o bytes)
      BY <1>3, <2>1, SinceGrows
    <2> QED BY <1>2, <2>1, <2>2 DEF Since, n
  <1>6. ConsoleType'
    <2>1. waiters' \in [Patterns -> WaiterType]
      BY <1>2, <1>4
    <2>2. printed' \in Seq(Chars)
      BY <1>2, <1>3, ConcatType
    <2>3. \A p \in Patterns : waiters'[p].since <= Len(printed')
      BY <1>5
    <2> QED BY <1>1, <1>2, <2>1, <2>2, <2>3 DEF ConsoleType
  <1>7. AllKnow'
    <2>1. ASSUME NEW p \in Patterns PROVE Knows(waiters'[p], p, Since(waiters[p]) \o bytes)
      <3>1. Knows(waiters[p], p, Since(waiters[p]))
        BY DEF ConsoleInv, AllKnow
      <3>2. Knows(Hears(waiters[p], p, text), p, Since(waiters[p]) \o bytes)
        BY <1>4, <1>5, <3>1, HearsKnows DEF text
      <3> QED BY <1>4, <3>2
    <2> QED BY <1>5, <2>1 DEF AllKnow, Since
  <1> QED BY <1>6, <1>7 DEF ConsoleInv

LEMMA ConsoleOthers ==
    ASSUME ConsoleInv, NEW p \in Patterns, waitForSerial(p) \/ TimesOut(p)
    PROVE  ConsoleInv'
  <1>1. rest' = rest /\ sent' = sent /\ printed' = printed /\ pending' = pending
    BY DEF waitForSerial, TimesOut, gdb
  <1>2. PICK w : waiters' = [waiters EXCEPT ![p] = w] /\ w \in WaiterType /\ w.since <= Len(printed)
                 /\ Knows(w, p, Since(w))
    <2>0. printed \in Seq(Chars) /\ Len(printed) \in Nat /\ waiters[p] \in WaiterType
      BY DEF ConsoleInv, ConsoleType
    <2>1. CASE waitForSerial(p)
      <3> DEFINE w == [state |-> "waiting", buf |-> <<>>, since |-> Len(printed)]
      <3>1. waiters' = [waiters EXCEPT ![p] = w]
        BY <2>1 DEF waitForSerial
      <3>2. w \in WaiterType /\ w.since <= Len(printed)
        BY <2>0 DEF WaiterType
      <3>3. Since(w) = <<>>
        BY <2>0 DEF Since
      <3>4. TextOf(<<>>) = <<>>
        BY DEF TextOf, Flat, FlattenSeq
      <3>5. Suffix(<<>>, <<>>)
        BY DEF Suffix
      <3>6. Knows(w, p, <<>>)
        BY <3>4, <3>5 DEF Knows
      <3> QED BY <3>1, <3>2, <3>3, <3>6
    <2>2. CASE TimesOut(p)
      <3> DEFINE w == [[waiters[p] EXCEPT !.state = "null"] EXCEPT !.buf = <<>>]
      <3>1. waiters' = [waiters EXCEPT ![p] = w]
        <4>1. waiters' = [waiters EXCEPT ![p].state = "null", ![p].buf = <<>>]
          BY <2>2 DEF TimesOut
        <4>2. waiters \in [Patterns -> WaiterType]
          BY DEF ConsoleInv, ConsoleType
        <4> QED BY <4>1, <4>2
      <3>2. w \in WaiterType /\ w.state = "null" /\ w.since = waiters[p].since
        <4> DEFINE v == waiters[p]
        <4>1. v \in WaiterType /\ w = [v EXCEPT !.state = "null", !.buf = <<>>]
          BY <2>0
        <4> HIDE DEF v, w
        <4>2. v.since \in Nat /\ <<>> \in Seq(Letters)
          BY <4>1 DEF WaiterType
        <4>3. w = [state |-> "null", buf |-> <<>>, since |-> v.since]
          BY <4>1 DEF WaiterType
        <4> QED BY <4>2, <4>3 DEF WaiterType, v
      <3>3. w.since <= Len(printed)
        BY <3>2 DEF ConsoleInv, ConsoleType
      <3> HIDE DEF w
      <3>4. Knows(w, p, Since(w))
        BY <3>2 DEF Knows
      <3> QED BY <3>1, <3>2, <3>3, <3>4
    <2> QED BY <2>1, <2>2
  <1>3. ConsoleType'
    <2>1. waiters \in [Patterns -> WaiterType]
      BY DEF ConsoleInv, ConsoleType
    <2>2. waiters' \in [Patterns -> WaiterType]
      BY <1>2, <2>1
    <2>3. \A q \in Patterns : waiters'[q].since <= Len(printed)
      BY <1>2, <2>1 DEF ConsoleInv, ConsoleType
    <2> QED BY <1>1, <2>2, <2>3 DEF ConsoleInv, ConsoleType
  <1>4. AllKnow'
    <2>1. waiters \in [Patterns -> WaiterType]
      BY DEF ConsoleInv, ConsoleType
    <2>2. ASSUME NEW q \in Patterns PROVE Knows(waiters'[q], q, Since(waiters'[q]))
      <3>1. CASE q = p
        BY <1>2, <2>1, <3>1
      <3>2. CASE q # p
        BY <1>2, <2>1, <3>2 DEF ConsoleInv, AllKnow
      <3> QED BY <3>1, <3>2
    <2> QED BY <1>1, <2>2 DEF AllKnow, Since
  <1> QED BY <1>3, <1>4 DEF ConsoleInv

LEMMA ConsoleStep ==
    ASSUME ConsoleInv, [Next]_vars
    PROVE  ConsoleInv'
  <1>1. CASE Chunk
    <2>1. rest # <<>>
      BY <1>1 DEF Chunk
    <2>2. PICK n \in 1..(IF Len(rest) < MaxChunk THEN Len(rest) ELSE MaxChunk) :
             /\ rest' = SubSeq(rest, n + 1, Len(rest))
             /\ FromGdb(SubSeq(rest, 1, n)) \/ onSerialChunk(SubSeq(rest, 1, n))
      BY <1>1 DEF Chunk
    <2>3. CASE FromGdb(SubSeq(rest, 1, n))
      <3>1. sent # <<>> /\ sent' = sent /\ printed' = printed /\ pending' = pending /\ waiters' = waiters
        BY <2>3 DEF FromGdb, console
      <3> QED BY <3>1 DEF ConsoleInv, ConsoleType, AllKnow, Since
    <2>4. CASE onSerialChunk(SubSeq(rest, 1, n))
      <3>1. rest \in Seq(Chars)
        BY <2>4 DEF onSerialChunk, ConsoleInv, ConsoleType
      <3> DEFINE bytes == SubSeq(rest, 1, n)
      <3>2. bytes \in Seq(Chars) /\ bytes # <<>> /\ Len(bytes) <= MaxChunk /\ rest' \in Seq(Chars)
        <4> DEFINE bound == IF Len(rest) < MaxChunk THEN Len(rest) ELSE MaxChunk
        <4>1. n \in 1..bound
          BY <2>2
        <4>2. /\ SubSeq(rest, 1, n) \in Seq(Chars) /\ Len(SubSeq(rest, 1, n)) = n /\ n <= MaxChunk
              /\ SubSeq(rest, 1, n) # <<>> /\ SubSeq(rest, n + 1, Len(rest)) \in Seq(Chars)
          BY <2>1, <3>1, <4>1, ChunkType
        <4> HIDE DEF bytes
        <4>3. bytes \in Seq(Chars) /\ bytes # <<>> /\ Len(bytes) = n
          BY <4>2 DEF bytes
        <4>4. rest' \in Seq(Chars)
          BY <2>2, <4>2
        <4> QED BY <4>2, <4>3, <4>4
      <3>3. onSerialChunk(bytes)
        BY <2>4
      <3> HIDE DEF bytes
      <3> QED BY <3>2, <3>3, ConsoleChunk
    <2> QED BY <2>2, <2>3, <2>4
  <1>2. CASE \E p \in Patterns : waitForSerial(p) \/ TimesOut(p)
    BY <1>2, ConsoleOthers
  <1>3. CASE UNCHANGED vars
    BY <1>3 DEF vars, gdb, console, ConsoleInv, ConsoleType, AllKnow, Since
  <1> QED BY <1>1, <1>2, <1>3 DEF Next

\* What a waiter remembers of what was printed since it came is always its end, and enough
\* of it.
THEOREM ConsoleInvariant == Spec => []ConsoleInv
  <1>1. Init => ConsoleInv
    BY ConsoleInit
  <1>2. ConsoleInv /\ [Next]_vars => ConsoleInv'
    BY ConsoleStep
  <1> QED BY <1>1, <1>2, PTL DEF Spec

LEMMA ConsoleTold == ConsoleInv => WaitersTold
  <1> SUFFICES ASSUME ConsoleInv, NEW p \in Patterns
               PROVE  LET w == waiters[p]
                          since == SubSeq(printed, w.since + 1, Len(printed))
                          came == since # <<>> /\ Occurs(Decode(<<>>, since).text, p)
                      IN  (w.state = "waiting" => ~came) /\ (w.state = "matched" => came)
    BY DEF WaitersTold
  <1> DEFINE w == waiters[p]
             since == Since(w)
             came == since # <<>> /\ Occurs(Decode(<<>>, since).text, p)
  <1>1. since \in Seq(Chars)
    <2>1. w \in WaiterType /\ w.since <= Len(printed) /\ printed \in Seq(Chars)
      BY DEF ConsoleInv, ConsoleType
    <2>2. w.since \in 0..Len(printed)
      <3>1. w.since \in Nat /\ Len(printed) \in Nat
        BY <2>1 DEF WaiterType
      <3> HIDE DEF w
      <3> QED BY <2>1, <3>1
    <2> HIDE DEF w
    <2>3. SubSeq(printed, w.since + 1, Len(printed)) \in Seq(Chars)
      BY <2>1, <2>2, SinceGrows
    <2> QED BY <2>3 DEF Since
  <1>2. since # <<>> => Decode(<<>>, since).text = TextOf(since)
    <2> HIDE DEF since
    <2> QED BY <1>1, Decoded
  <1>3. Knows(w, p, since)
    BY DEF ConsoleInv, AllKnow
  <1> HIDE DEF w, since
  <1>4. (w.state = "waiting" => ~came) /\ (w.state = "matched" => came)
    BY <1>2, <1>3 DEF Knows
  <1> QED BY <1>4 DEF w, since, Since

\* Who waits for a text is told of it with the chunk that completes it, and of nothing else,
\* whatever is printed and however it is cut (onSerialChunk of board.ts).
THEOREM WaitersToldAlways == Spec => []WaitersTold
  <1>1. Spec => []ConsoleInv
    BY ConsoleInvariant
  <1>2. ConsoleInv => WaitersTold
    BY ConsoleTold
  <1> QED BY <1>1, <1>2, PTL

-----------------------------------------------------------------------------
(* The lines of a text *)

NoLines == [told |-> <<>>, rest |-> <<>>]
Splits == [told : Seq(Seq(Letters)), rest : Seq(Letters)]
SplitStep(s, ch) ==
    IF ch = "LF" THEN [told |-> Append(s.told, Chomp(s.rest)), rest |-> <<>>]
    ELSE [s EXCEPT !.rest = Append(@, ch)]
\* f splits any of the first letters.
SplitsBy(f, text) ==
    f = [t \in SUBSET (1..Len(text)) |->
            IF t = {} THEN NoLines ELSE SplitStep(f[t \ {MaxOf(t)}], text[MaxOf(t)])]

\* The fold, letter by letter
SplitFold(F, text) == F[0] = NoLines /\ \A n \in 1..Len(text) : F[n] = SplitStep(F[n - 1], text[n])

LEMMA AppendType ==
    ASSUME NEW S, NEW s \in Seq(S), NEW e \in S
    PROVE  /\ Append(s, e) \in Seq(S) /\ Len(Append(s, e)) = Len(s) + 1 /\ Append(s, e) # <<>>
           /\ Append(s, e)[Len(s) + 1] = e /\ \A i \in 1..Len(s) : Append(s, e)[i] = s[i]
           /\ Append(s, e) = s \o <<e>> /\ <<e>> \in Seq(S)
  OBVIOUS

\* Without its CR a line is what it is without a last CR.
LEMMA Chomped ==
    ASSUME NEW S, NEW x \in Seq(S)
    PROVE  /\ Chomp(x) \in Seq(S) /\ Len(x) <= Len(Chomp(x)) + 1
           /\ x = Chomp(x) \/ x = Chomp(x) \o <<"CR">>
  <1>1. CASE x # <<>> /\ Last(x) = "CR"
    <2> DEFINE n == Len(x) - 1
               y == SubSeq(x, 1, n)
    <2>1. n \in Nat /\ n + 1 = Len(x) /\ Chomp(x) = y /\ x[n + 1] = "CR"
      BY <1>1 DEF Chomp, Front, Last
    <2> HIDE DEF n
    <2>2. y \in Seq(S) /\ Len(y) = n /\ \A i \in 1..n : y[i] = x[i]
      <3>1. Len(x) \in Nat /\ n \in 0..Len(x)
        BY <2>1
      <3>2. \A i \in 1..n : x[i] \in S
        BY <2>1
      <3> QED BY <2>1, <3>1, <3>2
    <2>3. "CR" \in S
      BY <2>1
    <2> HIDE DEF y
    <2>4. Append(y, "CR") = x
      <3> DEFINE z == Append(y, "CR")
      <3>1. z \in Seq(S) /\ Len(z) = n + 1 /\ z[n + 1] = "CR" /\ \A i \in 1..n : z[i] = y[i]
        BY <2>2, <2>3, AppendType
      <3> HIDE DEF z
      <3>2. \A i \in 1..Len(x) : z[i] = x[i]
        BY <2>1, <2>2, <3>1
      <3>3. z = x
        BY <2>1, <3>1, <3>2, SeqEqual
      <3> QED BY <3>3 DEF z
    <2>5. Append(y, "CR") = y \o <<"CR">>
      BY <2>2, <2>3, AppendType
    <2> QED BY <2>1, <2>2, <2>4, <2>5
  <1>2. CASE ~(x # <<>> /\ Last(x) = "CR")
    <2>1. Chomp(x) = x /\ Len(x) \in Nat
      BY <1>2 DEF Chomp
    <2> QED BY <2>1
  <1> QED BY <1>1, <1>2

LEMMA SplitStepType ==
    ASSUME NEW s \in Splits, NEW ch \in Letters
    PROVE  SplitStep(s, ch) \in Splits
  <1>0. s.told \in Seq(Seq(Letters)) /\ s.rest \in Seq(Letters) /\ <<>> \in Seq(Letters)
    BY DEF Splits
  <1>1. CASE ch = "LF"
    <2>1. Chomp(s.rest) \in Seq(Letters)
      BY <1>0, Chomped
    <2>2. Append(s.told, Chomp(s.rest)) \in Seq(Seq(Letters))
      BY <1>0, <2>1, AppendType
    <2> QED BY <1>0, <1>1, <2>2 DEF SplitStep, Splits
  <1>2. CASE ch # "LF"
    <2>1. Append(s.rest, ch) \in Seq(Letters)
      BY <1>0, AppendType
    <2>2. SplitStep(s, ch) = [s EXCEPT !.rest = Append(s.rest, ch)]
      BY <1>2 DEF SplitStep
    <2> QED BY <2>1, <2>2 DEF Splits
  <1> QED BY <1>1, <1>2

LEMMA SplitIs ==
    ASSUME NEW text \in Seq(Letters)
    PROVE  \E f : SplitsBy(f, text) /\ SplitText(text) = f[1..Len(text)]
  <1> DEFINE L == Len(text)
             g == [s \in Splits |-> [ch \in Letters |-> SplitStep(s, ch)]]
  <1>0. L \in Nat /\ (\A i \in 1..L : text[i] \in Letters) /\ DOMAIN text = 1..L
    OBVIOUS
  <1>1. \A s \in Splits, ch \in Letters : g[s][ch] = SplitStep(s, ch)
    OBVIOUS
  <1>2. Closed(g, Splits, Letters)
    BY <1>1, SplitStepType DEF Closed
  <1>3. NoLines \in Splits
    BY DEF NoLines, Splits
  <1> HIDE DEF g, L
  <1>4. PICK h \in [SUBSET (1..L) -> Splits] : Folds(h, L, g, NoLines, text)
    <2> DEFINE A == Splits
               B == Letters
               base == NoLines
    <2>1. Closed(g, A, B) /\ base \in A /\ L \in Nat /\ \A i \in 1..L : text[i] \in B
      BY <1>0, <1>2, <1>3
    <2> HIDE DEF A, B, base
    <2>2. \E f \in [SUBSET (1..L) -> A] : Folds(f, L, g, base, text)
      BY <2>1, FoldExists
    <2> QED BY <2>2 DEF A, base
  <1>5. ASSUME NEW t \in SUBSET (1..L)
        PROVE  h[t] = IF t = {} THEN NoLines ELSE SplitStep(h[t \ {MaxOf(t)}], text[MaxOf(t)])
    <2>1. CASE t # {}
      <3> DEFINE m == MaxOf(t)
                 u == t \ {m}
      <3>1. u \in SUBSET (1..L) /\ m \in 1..L
        BY <1>0, <2>1, MaxIn
      <3>2. h[t] = g[h[u]][text[m]]
        BY <1>4, <2>1 DEF Folds
      <3> HIDE DEF m, u
      <3>3. h[u] \in Splits /\ text[m] \in Letters
        BY <1>0, <1>4, <3>1
      <3> QED BY <1>1, <2>1, <3>2, <3>3 DEF m, u
    <2>2. CASE t = {}
      BY <1>4, <2>2 DEF Folds
    <2> QED BY <2>1, <2>2
  <1>6. SplitsBy(h, text)
    <2>1. h = [t \in SUBSET (1..L) |-> h[t]]
      BY <1>4
    <2>2. [t \in SUBSET (1..L) |-> h[t]]
           = [t \in SUBSET (1..L) |->
                IF t = {} THEN NoLines ELSE SplitStep(h[t \ {MaxOf(t)}], text[MaxOf(t)])]
      BY <1>5
    <2> QED BY <2>1, <2>2 DEF SplitsBy, L
  <1> DEFINE f == CHOOSE f : SplitsBy(f, text)
  <1>7. SplitsBy(f, text)
    BY <1>6
  <1>8. SplitText(text) = f[1..Len(text)]
    BY <1>0 DEF SplitText, SplitsBy, SplitStep, NoLines, FoldLeft, MapThenFoldSet, MaxOf, Max, L
  <1> QED BY <1>7, <1>8

LEMMA SplitFolds ==
    ASSUME NEW text \in Seq(Letters)
    PROVE  \E F \in [0..Len(text) -> Splits] : SplitFold(F, text) /\ F[Len(text)] = SplitText(text)
  <1> DEFINE L == Len(text)
  <1>0. L \in Nat /\ \A i \in 1..L : text[i] \in Letters
    OBVIOUS
  <1>1. PICK f : SplitsBy(f, text) /\ SplitText(text) = f[1..L]
    BY SplitIs
  <1> HIDE DEF L
  <1> DEFINE F == [n \in 0..L |-> f[1..n]]
  <1>2. \A n \in 0..L : F[n] = f[1..n] /\ 1..n \in SUBSET (1..L)
    BY <1>0
  <1>3. F[0] = NoLines
    <2>1. 1..0 = {} /\ 0 \in 0..L
      BY <1>0
    <2> HIDE DEF F
    <2> QED BY <1>1, <1>2, <2>1 DEF SplitsBy, L
  <1>4. ASSUME NEW n \in 1..L PROVE F[n] = SplitStep(F[n - 1], text[n])
    <2>1. n \in 0..L /\ n - 1 \in 0..L /\ n \in Nat \ {0}
      BY <1>0
    <2> HIDE DEF F
    <2>2. MaxOf(1..n) = n /\ (1..n) \ {n} = 1..(n - 1) /\ 1..n # {}
      BY <2>1, MaxOfInitial
    <2>3. f[1..n] = SplitStep(f[(1..n) \ {MaxOf(1..n)}], text[MaxOf(1..n)])
      BY <1>1, <1>2, <2>1, <2>2 DEF SplitsBy, L
    <2> QED BY <1>2, <2>1, <2>2, <2>3
  <1> DEFINE G == {n \in 0..L : F[n] \in Splits}
  <1>5. 0 \in G
    <2>1. NoLines \in Splits
      BY DEF NoLines, Splits
    <2>2. 0 \in 0..L
      BY <1>0
    <2> HIDE DEF F
    <2> QED BY <1>3, <2>1, <2>2
  <1>6. ASSUME NEW k \in G, k \in 0..(L - 1) PROVE k + 1 \in G
    <2>1. k + 1 \in 1..L /\ (k + 1) - 1 = k /\ k + 1 \in 0..L
      BY <1>0, <1>6
    <2>2. F[k] \in Splits
      OBVIOUS
    <2> HIDE DEF F
    <2>3. F[k + 1] = SplitStep(F[k], text[k + 1])
      BY <1>4, <2>1
    <2>4. F[k + 1] \in Splits
      BY <1>0, <2>1, <2>2, <2>3, SplitStepType
    <2> QED BY <2>1, <2>4
  <1>7. \A n \in 0..L : F[n] \in Splits
    <2> HIDE DEF F
    <2>1. 0..L \subseteq G
      <3> HIDE DEF G
      <3> QED BY <1>0, <1>5, <1>6, UpTo
    <2> QED BY <2>1
  <1>8. F \in [0..L -> Splits]
    BY <1>7
  <1>9. F[L] = SplitText(text)
    BY <1>0, <1>1
  <1> HIDE DEF F
  <1> QED BY <1>3, <1>4, <1>8, <1>9 DEF SplitFold, L

\* The first n values of s
Upto(s, n) == SubSeq(s, 1, n)

LEMMA UptoIs ==
    ASSUME NEW S, NEW s \in Seq(S)
    PROVE  /\ Upto(s, 0) = <<>> /\ Upto(s, Len(s)) = s
           /\ \A n \in 0..(Len(s) - 1) : /\ Upto(s, n + 1) = Append(Upto(s, n), s[n + 1])
                                         /\ s[n + 1] \in S /\ n + 1 \in 0..Len(s)
           /\ \A n \in 0..Len(s) : Upto(s, n) \in Seq(S) /\ Len(Upto(s, n)) = n
  <1>0. Len(s) \in Nat
    OBVIOUS
  <1>1. ASSUME NEW n \in 0..Len(s)
        PROVE  /\ Upto(s, n) \in Seq(S) /\ Len(Upto(s, n)) = n
               /\ \A i \in 1..n : Upto(s, n)[i] = s[i]
    <2>1. \A i \in 1..n : s[i] \in S
      BY <1>0
    <2> QED BY <1>0, <2>1 DEF Upto
  <1>2. Upto(s, 0) = <<>>
    <2>1. 0 \in 0..Len(s)
      BY <1>0
    <2>2. Upto(s, 0) \in Seq(S) /\ Len(Upto(s, 0)) = 0
      BY <1>1, <2>1
    <2> QED BY <2>2
  <1>3. Upto(s, Len(s)) = s
    <2> DEFINE u == Upto(s, Len(s))
    <2>1. u \in Seq(S) /\ Len(u) = Len(s) /\ \A i \in 1..Len(s) : u[i] = s[i]
      BY <1>0, <1>1
    <2> HIDE DEF u
    <2>2. u = s
      BY <2>1, SeqEqual
    <2> QED BY <2>2 DEF u
  <1>4. ASSUME NEW n \in 0..(Len(s) - 1)
        PROVE  /\ Upto(s, n + 1) = Append(Upto(s, n), s[n + 1])
               /\ s[n + 1] \in S /\ n + 1 \in 0..Len(s)
    <2> DEFINE u == Upto(s, n)
               v == Upto(s, n + 1)
               e == s[n + 1]
               w == Append(u, e)
    <2>0. n \in Nat /\ n \in 0..Len(s) /\ n + 1 \in 0..Len(s) /\ n + 1 \in 1..Len(s) /\ e \in S
      BY <1>0
    <2>1. /\ u \in Seq(S) /\ Len(u) = n /\ \A i \in 1..n : u[i] = s[i]
      BY <1>1, <2>0
    <2>2. v \in Seq(S) /\ Len(v) = n + 1 /\ \A i \in 1..(n + 1) : v[i] = s[i]
      BY <1>1, <2>0
    <2> HIDE DEF u, v, e
    <2>3. w \in Seq(S) /\ Len(w) = n + 1 /\ w[n + 1] = e /\ \A i \in 1..n : w[i] = u[i]
      BY <2>0, <2>1, AppendType
    <2> HIDE DEF w
    <2>4. \A i \in 1..(n + 1) : v[i] = w[i]
      BY <2>0, <2>1, <2>2, <2>3 DEF e
    <2>5. v = w
      BY <2>2, <2>3, <2>4, SeqEqual
    <2> QED BY <2>0, <2>5 DEF u, v, e, w
  <1> QED BY <1>1, <1>2, <1>3, <1>4

\* A text is split letter by letter.
LEMMA SplitAppend ==
    ASSUME NEW s \in Seq(Letters), NEW ch \in Letters
    PROVE  SplitText(Append(s, ch)) = SplitStep(SplitText(s), ch) /\ SplitText(s) \in Splits
  <1> DEFINE L == Len(s)
             t == Append(s, ch)
  <1>0. L \in Nat /\ L \in 0..L
    OBVIOUS
  <1>1. t \in Seq(Letters) /\ Len(t) = L + 1 /\ t[L + 1] = ch /\ \A i \in 1..L : t[i] = s[i]
    BY AppendType
  <1>2. PICK E \in [0..L -> Splits] : SplitFold(E, s) /\ E[L] = SplitText(s)
    BY SplitFolds
  <1> HIDE DEF L, t
  <1>3. PICK F \in [0..(L + 1) -> Splits] : SplitFold(F, t) /\ F[L + 1] = SplitText(t)
    <2>1. \E F \in [0..Len(t) -> Splits] : SplitFold(F, t) /\ F[Len(t)] = SplitText(t)
      BY <1>1, SplitFolds
    <2> QED BY <1>1, <2>1
  <1> DEFINE G == {n \in 0..L : F[n] = E[n]}
  <1>4. 0 \in G
    BY <1>0, <1>2, <1>3 DEF SplitFold
  <1>5. ASSUME NEW n \in G, n \in 0..(L - 1) PROVE n + 1 \in G
    <2>1. n + 1 \in 1..L /\ n + 1 \in 1..(L + 1) /\ (n + 1) - 1 = n /\ n + 1 \in 0..L
      BY <1>0, <1>5
    <2>2. E[n + 1] = SplitStep(E[n], s[n + 1])
      BY <1>2, <2>1 DEF SplitFold, L
    <2>3. F[n + 1] = SplitStep(F[n], t[n + 1])
      BY <1>1, <1>3, <2>1 DEF SplitFold
    <2> QED BY <1>1, <2>1, <2>2, <2>3
  <1>6. F[L] = E[L]
    <2>1. 0..L \subseteq G
      <3> HIDE DEF G
      <3> QED BY <1>0, <1>4, <1>5, UpTo
    <2> QED BY <1>0, <2>1
  <1>7. F[L + 1] = SplitStep(F[L], t[L + 1])
    <2>1. L + 1 \in 1..(L + 1) /\ (L + 1) - 1 = L
      BY <1>0
    <2> QED BY <1>1, <1>3, <2>1 DEF SplitFold
  <1>8. E[L] \in Splits
    BY <1>0
  <1> QED BY <1>1, <1>2, <1>3, <1>6, <1>7, <1>8 DEF t

LEMMA SplitType ==
    ASSUME NEW s \in Seq(Letters)
    PROVE  /\ SplitText(s) \in Splits /\ SplitText(s).told \in Seq(Seq(Letters))
           /\ SplitText(s).rest \in Seq(Letters)
  <1>1. SplitText(s) \in Splits
    <2>1. PICK F \in [0..Len(s) -> Splits] : F[Len(s)] = SplitText(s)
      BY SplitFolds
    <2>2. Len(s) \in 0..Len(s)
      OBVIOUS
    <2> QED BY <2>1, <2>2
  <1> QED BY <1>1 DEF Splits

LEMMA SplitNothing == SplitText(<<>>) = NoLines
  <1>1. <<>> \in Seq(Letters) /\ Len(<<>>) = 0
    OBVIOUS
  <1>2. PICK F \in [0..0 -> Splits] : SplitFold(F, <<>>) /\ F[0] = SplitText(<<>>)
    BY <1>1, SplitFolds
  <1> QED BY <1>2 DEF SplitFold

LEMMA SplitFields ==
    ASSUME NEW s \in Splits, NEW ch \in Letters
    PROVE  /\ ch = "LF" => SplitStep(s, ch).told = Append(s.told, Chomp(s.rest)) /\ SplitStep(s, ch).rest = <<>>
           /\ ch # "LF" => SplitStep(s, ch).told = s.told /\ SplitStep(s, ch).rest = Append(s.rest, ch)
  BY DEF SplitStep, Splits

Chained(p, q, e) == Append(p \o q, e) = p \o Append(q, e)
LEMMA AppendConcat ==
    ASSUME NEW S, NEW p \in Seq(S), NEW q \in Seq(S), NEW e \in S
    PROVE  Chained(p, q, e)
  BY DEF Chained

OneLine(s) == \A i \in 1..Len(s) : s[i] # "LF"

LEMMA OneLineAppend ==
    ASSUME NEW s \in Seq(Letters), NEW ch \in Letters
    PROVE  OneLine(Append(s, ch)) <=> OneLine(s) /\ ch # "LF"
  <1> DEFINE t == Append(s, ch)
             n == Len(s)
  <1>1. n \in Nat /\ Len(t) = n + 1 /\ t[n + 1] = ch /\ \A i \in 1..n : t[i] = s[i]
    BY AppendType
  <1> HIDE DEF t, n
  <1>2. OneLine(t) <=> (\A i \in 1..n : s[i] # "LF") /\ ch # "LF"
    BY <1>1 DEF OneLine
  <1> QED BY <1>2 DEF OneLine, t, n

\* What has no line's end in it is no line yet.
LEMMA SplitPlain ==
    ASSUME NEW s \in Seq(Letters), OneLine(s)
    PROVE  SplitText(s) = [told |-> <<>>, rest |-> s]
  <1> DEFINE L == Len(s)
             G == {n \in 0..L : SplitText(Upto(s, n)) = [told |-> <<>>, rest |-> Upto(s, n)]}
  <1>0. L \in Nat /\ L \in 0..L /\ 0 \in 0..L
    OBVIOUS
  <1>1. 0 \in G
    BY <1>0, UptoIs, SplitNothing DEF NoLines
  <1>2. ASSUME NEW n \in G, n \in 0..(L - 1) PROVE n + 1 \in G
    <2> DEFINE u == Upto(s, n)
               c == s[n + 1]
    <2>1. SplitText(u) = [told |-> <<>>, rest |-> u]
      OBVIOUS
    <2>2. u \in Seq(Letters) /\ Upto(s, n + 1) = Append(u, c) /\ c \in Letters /\ n + 1 \in 0..L
      BY <1>2, UptoIs
    <2>3. c # "LF"
      BY <1>0, <2>2, <1>2 DEF OneLine
    <2> HIDE DEF u, c
    <2>4. SplitText(Append(u, c)) = SplitStep([told |-> <<>>, rest |-> u], c)
      BY <2>1, <2>2, SplitAppend
    <2>5. SplitStep([told |-> <<>>, rest |-> u], c) = [told |-> <<>>, rest |-> Append(u, c)]
      BY <2>3 DEF SplitStep
    <2> QED BY <2>2, <2>4, <2>5
  <1>3. 0..L \subseteq G
    <2> HIDE DEF G
    <2> QED BY <1>0, <1>1, <1>2, UpTo
  <1>4. SplitText(Upto(s, L)) = [told |-> <<>>, rest |-> Upto(s, L)]
    BY <1>0, <1>3
  <1>5. Upto(s, L) = s
    BY UptoIs
  <1> QED BY <1>4, <1>5

\* Behind the last line's end there is none.
LEMMA SplitRest ==
    ASSUME NEW s \in Seq(Letters)
    PROVE  OneLine(SplitText(s).rest)
  <1> DEFINE L == Len(s)
             G == {n \in 0..L : OneLine(SplitText(Upto(s, n)).rest)}
  <1>0. L \in Nat /\ L \in 0..L /\ 0 \in 0..L /\ Len(<<>>) = 0
    OBVIOUS
  <1>1. 0 \in G
    BY <1>0, UptoIs, SplitNothing DEF NoLines, OneLine
  <1>2. ASSUME NEW n \in G, n \in 0..(L - 1) PROVE n + 1 \in G
    <2> DEFINE u == Upto(s, n)
               c == s[n + 1]
               a == SplitText(u)
    <2>1. OneLine(a.rest)
      OBVIOUS
    <2>2. u \in Seq(Letters) /\ Upto(s, n + 1) = Append(u, c) /\ c \in Letters /\ n + 1 \in 0..L
      BY <1>2, UptoIs
    <2> HIDE DEF u, c
    <2>3. a \in Splits /\ a.rest \in Seq(Letters) /\ SplitText(Append(u, c)) = SplitStep(a, c)
      BY <2>2, SplitType, SplitAppend
    <2> HIDE DEF a
    <2>4. CASE c = "LF"
      <3>1. OneLine(<<>>)
        BY <1>0 DEF OneLine
      <3> QED BY <2>2, <2>3, <2>4, <3>1, SplitFields
    <2>5. CASE c # "LF"
      <3>1. OneLine(Append(a.rest, c))
        BY <2>1, <2>2, <2>3, <2>5, OneLineAppend
      <3> QED BY <2>2, <2>3, <2>5, <3>1, SplitFields
    <2> QED BY <2>4, <2>5
  <1>3. 0..L \subseteq G
    <2> HIDE DEF G
    <2> QED BY <1>0, <1>1, <1>2, UpTo
  <1>4. OneLine(SplitText(Upto(s, L)).rest)
    BY <1>0, <1>3
  <1>5. Upto(s, L) = s
    BY UptoIs
  <1> QED BY <1>4, <1>5

LEMMA SplitBehind ==
    ASSUME NEW told \in Seq(Seq(Letters)), NEW a \in Splits, NEW d \in Splits, NEW c \in Letters,
           a.told = told \o d.told, a.rest = d.rest
    PROVE  SplitStep(a, c).told = told \o SplitStep(d, c).told /\ SplitStep(a, c).rest = SplitStep(d, c).rest
  <1>0. d.told \in Seq(Seq(Letters)) /\ d.rest \in Seq(Letters)
    BY DEF Splits
  <1>1. CASE c = "LF"
    <2> DEFINE x == Chomp(d.rest)
               y == d.told
               X == Seq(Letters)
    <2>1. x \in X /\ y \in Seq(X) /\ told \in Seq(X)
      BY <1>0, Chomped
    <2>2. SplitStep(a, c).told = Append(told \o y, x) /\ SplitStep(a, c).rest = <<>>
      BY <1>1, SplitFields
    <2>3. SplitStep(d, c).told = Append(y, x) /\ SplitStep(d, c).rest = <<>>
      BY <1>1, SplitFields
    <2> HIDE DEF x, y, X
    <2>4. Append(told \o y, x) = told \o Append(y, x)
      <3>1. Chained(told, y, x)
        BY <2>1, AppendConcat
      <3> QED BY ONLY <3>1 DEF Chained
    <2> QED BY <2>2, <2>3, <2>4
  <1>2. CASE c # "LF"
    BY <1>2, SplitFields
  <1> QED BY <1>1, <1>2

\* What comes later is split together with what stands behind the last line.
LEMMA SplitMore ==
    ASSUME NEW s \in Seq(Letters), NEW t \in Seq(Letters)
    PROVE  /\ SplitText(s \o t).told = SplitText(s).told \o SplitText(SplitText(s).rest \o t).told
           /\ SplitText(s \o t).rest = SplitText(SplitText(s).rest \o t).rest
  <1> DEFINE L == Len(t)
             told == SplitText(s).told
             r == SplitText(s).rest
             Whole(n) == SplitText(s \o Upto(t, n))
             More(n) == SplitText(r \o Upto(t, n))
             Good(n) == Whole(n).told = told \o More(n).told /\ Whole(n).rest = More(n).rest
             G == {n \in 0..L : Good(n)}
  <1>0. L \in Nat /\ L \in 0..L /\ 0 \in 0..L /\ \A x \in Seq(Seq(Letters)) : x \o <<>> = x
    OBVIOUS
  <1>a. told \in Seq(Seq(Letters)) /\ r \in Seq(Letters) /\ OneLine(r) /\ s \o <<>> = s
    BY SplitType, SplitRest
  <1>b. r \o <<>> = r
    BY <1>a
  <1>1. 0 \in G
    <2> HIDE DEF r, told
    <2>1. SplitText(r) = [told |-> <<>>, rest |-> r]
      BY <1>a, SplitPlain
    <2>2. Upto(t, 0) = <<>>
      BY UptoIs
    <2>3. Whole(0).told = told /\ Whole(0).rest = r
      BY <1>a, <2>2 DEF told, r
    <2>4. More(0) = [told |-> <<>>, rest |-> r]
      BY <1>b, <2>1, <2>2
    <2> QED BY <1>0, <1>a, <2>3, <2>4
  <1>2. ASSUME NEW n \in G, n \in 0..(L - 1) PROVE n + 1 \in G
    <2> DEFINE u == Upto(t, n)
               c == t[n + 1]
               a == SplitText(s \o u)
               d == SplitText(r \o u)
    <2>1. a.told = told \o d.told /\ a.rest = d.rest
      OBVIOUS
    <2>2. u \in Seq(Letters) /\ Upto(t, n + 1) = Append(u, c) /\ c \in Letters /\ n + 1 \in 0..L
      BY <1>2, UptoIs
    <2> HIDE DEF u, c, r, told
    <2>3. s \o Append(u, c) = Append(s \o u, c) /\ s \o u \in Seq(Letters)
      BY <2>2
    <2>4. r \o Append(u, c) = Append(r \o u, c) /\ r \o u \in Seq(Letters)
      BY <1>a, <2>2
    <2>5. a \in Splits /\ a.rest \in Seq(Letters) /\ SplitText(s \o Append(u, c)) = SplitStep(a, c)
      BY <2>2, <2>3, SplitType, SplitAppend
    <2>6. /\ d \in Splits /\ d.rest \in Seq(Letters) /\ d.told \in Seq(Seq(Letters))
          /\ SplitText(r \o Append(u, c)) = SplitStep(d, c)
      BY <2>2, <2>4, SplitType, SplitAppend
    <2> HIDE DEF a, d
    <2>7. SplitStep(a, c).told = told \o SplitStep(d, c).told /\ SplitStep(a, c).rest = SplitStep(d, c).rest
      BY <1>a, <2>1, <2>2, <2>5, <2>6, SplitBehind
    <2>8. Good(n + 1)
      BY <2>2, <2>5, <2>6, <2>7
    <2> HIDE DEF Good
    <2> QED BY <2>2, <2>8
  <1>3. 0..L \subseteq G
    <2> HIDE DEF G
    <2> QED BY <1>0, <1>1, <1>2, UpTo
  <1>4. Good(L)
    <2> HIDE DEF Good
    <2> QED BY <1>0, <1>3
  <1>5. Upto(t, L) = t
    BY UptoIs
  <1> QED BY <1>4, <1>5

-----------------------------------------------------------------------------
(* What the lines say *)

Kept(chars) == [c \in Letters |-> IF c \in chars THEN <<>> ELSE <<c>>]

LEMMA KeptType == ASSUME NEW chars PROVE Maps(Kept(chars), Letters, Letters)
  <1>1. ASSUME NEW c \in Letters PROVE (IF c \in chars THEN <<>> ELSE <<c>>) \in Seq(Letters)
    OBVIOUS
  <1> QED BY <1>1 DEF Maps, Kept

LEMMA WithoutIs ==
    ASSUME NEW chars, NEW s \in Seq(Letters)
    PROVE  Without(s, chars) = Flat(s, Kept(chars))
  <1>1. \A i \in DOMAIN s : s[i] \in Letters
    OBVIOUS
  <1>2. \A i \in DOMAIN s : Kept(chars)[s[i]] = IF s[i] \in chars THEN <<>> ELSE <<s[i]>>
    BY <1>1 DEF Kept
  <1>3. [i \in DOMAIN s |-> Kept(chars)[s[i]]]
         = [i \in DOMAIN s |-> IF s[i] \in chars THEN <<>> ELSE <<s[i]>>]
    BY <1>2
  <1> QED BY <1>3 DEF Without, Flat

LEMMA WithoutConcat ==
    ASSUME NEW chars, NEW s \in Seq(Letters), NEW t \in Seq(Letters)
    PROVE  /\ Without(s \o t, chars) = Without(s, chars) \o Without(t, chars)
           /\ Without(s, chars) \in Seq(Letters)
  <1> DEFINE g == Kept(chars)
             x == s \o t
  <1>1. Maps(g, Letters, Letters) /\ x \in Seq(Letters)
    BY KeptType, ConcatType
  <1> HIDE DEF g
  <1>2. Flat(s \o t, g) = Flat(s, g) \o Flat(t, g) /\ Flat(s, g) \in Seq(Letters)
    BY <1>1, FlatConcat
  <1> HIDE DEF x
  <1>3. /\ Without(s, chars) = Flat(s, g) /\ Without(t, chars) = Flat(t, g)
        /\ Without(x, chars) = Flat(x, g)
    BY <1>1, WithoutIs DEF g
  <1> QED BY <1>2, <1>3 DEF x

LEMMA WithoutOne ==
    ASSUME NEW chars, NEW c \in Letters
    PROVE  Without(<<c>>, chars) = (IF c \in chars THEN <<>> ELSE <<c>>) /\ Without(<<>>, chars) = <<>>
  <1> DEFINE g == Kept(chars)
  <1>1. Maps(g, Letters, Letters) /\ <<c>> \in Seq(Letters) /\ <<>> \in Seq(Letters)
    BY KeptType
  <1>2. g[c] = IF c \in chars THEN <<>> ELSE <<c>>
    BY DEF Kept
  <1> HIDE DEF g
  <1>3. Flat(<<c>>, g) = g[c] /\ Flat(<<>>, g) = <<>>
    BY <1>1, FlatOne
  <1>4. Without(<<c>>, chars) = Flat(<<c>>, g) /\ Without(<<>>, chars) = Flat(<<>>, g)
    BY <1>1, WithoutIs DEF g
  <1> QED BY <1>2, <1>3, <1>4

LEMMA WithoutNothing == ASSUME NEW chars PROVE Without(<<>>, chars) = <<>>
  BY DEF Without, FlattenSeq

\* A text without CRs, and without any line's end
Bare(s) == Without(s, {"CR"})
Plain(s) == Without(s, {"CR", "LF"})

LEMMA BareIs ==
    ASSUME NEW s \in Seq(Letters), NEW t \in Seq(Letters)
    PROVE  /\ Bare(s \o t) = Bare(s) \o Bare(t) /\ Plain(s \o t) = Plain(s) \o Plain(t)
           /\ Bare(s) \in Seq(Letters) /\ Plain(s) \in Seq(Letters)
  BY WithoutConcat DEF Bare, Plain

LEMMA BareOne ==
    ASSUME NEW c \in Letters
    PROVE  /\ c = "LF" => Plain(<<c>>) = <<>>
           /\ c # "LF" => Plain(<<c>>) = Bare(<<c>>)
           /\ c = "CR" => Bare(<<c>>) = <<>>
           /\ Bare(<<>>) = <<>> /\ Plain(<<>>) = <<>>
  BY WithoutOne DEF Bare, Plain

LEMMA BareLine ==
    ASSUME NEW s \in Seq(Letters), OneLine(s)
    PROVE  Bare(s) = Plain(s)
  <1>1. \A i \in DOMAIN s : s[i] # "LF"
    BY DEF OneLine
  <1>2. [i \in DOMAIN s |-> IF s[i] \in {"CR"} THEN <<>> ELSE <<s[i]>>]
         = [i \in DOMAIN s |-> IF s[i] \in {"CR", "LF"} THEN <<>> ELSE <<s[i]>>]
    BY <1>1
  <1> QED BY <1>2 DEF Bare, Plain, Without

LEMMA BareChomp ==
    ASSUME NEW s \in Seq(Letters)
    PROVE  Bare(Chomp(s)) = Bare(s) /\ Chomp(s) \in Seq(Letters)
  <1> DEFINE x == Chomp(s)
  <1>1. x \in Seq(Letters) /\ (s = x \/ s = x \o <<"CR">>)
    BY Chomped
  <1> HIDE DEF x
  <1>2. CASE s = x \o <<"CR">>
    <2>1. "CR" \in Letters /\ <<"CR">> \in Seq(Letters)
      <3>1. s[Len(x) + 1] = "CR" /\ Len(x) + 1 \in 1..Len(s)
        BY <1>1, <1>2
      <3>2. "CR" \in Letters
        BY <3>1
      <3> QED BY <3>2
    <2>2. Bare(<<"CR">>) = <<>>
      BY <2>1, BareOne
    <2>3. Bare(s) = Bare(x) \o Bare(<<"CR">>) /\ Bare(x) \in Seq(Letters)
      BY <1>1, <1>2, <2>1, BareIs
    <2>4. Bare(x) \o <<>> = Bare(x)
      <3> DEFINE y == Bare(x)
      <3>1. y \in Seq(Letters)
        BY <2>3
      <3> HIDE DEF y
      <3>2. y \o <<>> = y
        BY <3>1
      <3> QED BY <3>2 DEF y
    <2> QED BY <1>1, <2>2, <2>3, <2>4 DEF x
  <1> QED BY <1>1, <1>2 DEF x

\* What lines and a rest say
Tells(told, r) == Bare(FlattenSeq(told) \o r)

LEMMA TellsIs ==
    ASSUME NEW told \in Seq(Seq(Letters)), NEW r \in Seq(Letters)
    PROVE  /\ Tells(told, r) = Bare(FlattenSeq(told)) \o Bare(r)
           /\ FlattenSeq(told) \in Seq(Letters) /\ Tells(told, r) \in Seq(Letters)
           /\ Bare(FlattenSeq(told)) \in Seq(Letters) /\ Bare(r) \in Seq(Letters)
  <1> DEFINE x == FlattenSeq(told)
  <1>1. x \in Seq(Letters)
    BY FlattenType
  <1> HIDE DEF x
  <1>2. Bare(x \o r) = Bare(x) \o Bare(r) /\ Bare(x) \in Seq(Letters) /\ Bare(r) \in Seq(Letters)
    BY <1>1, BareIs
  <1>3. x \o r \in Seq(Letters)
    BY <1>1, ConcatType
  <1>4. Bare(x \o r) \in Seq(Letters)
    BY <1>3, BareIs
  <1> QED BY <1>1, <1>2, <1>4 DEF x, Tells

\* A line more
LEMMA TellsLine ==
    ASSUME NEW told \in Seq(Seq(Letters)), NEW x \in Seq(Letters)
    PROVE  /\ FlattenSeq(Append(told, x)) = FlattenSeq(told) \o x
           /\ Append(told, x) \in Seq(Seq(Letters))
  <1> DEFINE X == Seq(Letters)
  <1>1. told \in Seq(X) /\ x \in X
    OBVIOUS
  <1> HIDE DEF X
  <1>2. Append(told, x) = told \o <<x>> /\ <<x>> \in Seq(X) /\ Append(told, x) \in Seq(X)
    BY <1>1, AppendType
  <1> DEFINE y == <<x>>
  <1>3. y \in Seq(Seq(Letters)) /\ FlattenSeq(y) = x
    BY <1>2, FlattenOne DEF X
  <1> HIDE DEF y
  <1>4. FlattenSeq(told \o y) = FlattenSeq(told) \o FlattenSeq(y)
    BY <1>3, FlattenConcat
  <1> QED BY <1>2, <1>3, <1>4 DEF X, y

LEMMA TellsStep ==
    ASSUME NEW a \in Splits, NEW c \in Letters
    PROVE  Tells(SplitStep(a, c).told, SplitStep(a, c).rest) = Tells(a.told, a.rest) \o Plain(<<c>>)
  <1> DEFINE told == a.told
             r == a.rest
             e == <<c>>
             F == FlattenSeq(told)
  <1>1. told \in Seq(Seq(Letters)) /\ r \in Seq(Letters) /\ e \in Seq(Letters) /\ <<>> \in Seq(Letters)
    BY DEF Splits
  <1>2. /\ Tells(told, r) = Bare(F) \o Bare(r) /\ Tells(told, r) \in Seq(Letters) /\ F \in Seq(Letters)
        /\ Bare(F) \in Seq(Letters) /\ Bare(r) \in Seq(Letters)
    BY <1>1, TellsIs
  <1>3. CASE c = "LF"
    <2> DEFINE x == Chomp(r)
               told1 == Append(told, x)
    <2>1. SplitStep(a, c).told = told1 /\ SplitStep(a, c).rest = <<>>
      BY <1>3, SplitFields
    <2>2. x \in Seq(Letters) /\ Bare(x) = Bare(r)
      BY <1>1, BareChomp
    <2> HIDE DEF told, x, r
    <2>3. FlattenSeq(told1) = F \o x /\ told1 \in Seq(Seq(Letters))
      BY <1>1, <2>2, TellsLine
    <2> HIDE DEF told1, F
    <2>4. Tells(told1, <<>>) = Bare(F \o x) \o Bare(<<>>) /\ Bare(F \o x) = Bare(F) \o Bare(x)
      <3>1. Bare(F \o x) = Bare(F) \o Bare(x)
        BY <1>2, <2>2, BareIs
      <3>2. Tells(told1, <<>>) = Bare(FlattenSeq(told1)) \o Bare(<<>>)
        BY <1>1, <2>3, TellsIs
      <3> QED BY <2>3, <3>1, <3>2
    <2>5. Bare(<<>>) = <<>> /\ Plain(e) = <<>>
      BY <1>3, BareOne
    <2> QED BY <2>1, <2>2, <2>4, <2>5, <1>2 DEF told, r
  <1>4. CASE c # "LF"
    <2>1. SplitStep(a, c).told = told /\ SplitStep(a, c).rest = Append(r, c)
      BY <1>4, SplitFields
    <2>2. Append(r, c) = r \o e
      BY <1>1, AppendType
    <2>3. Plain(e) = Bare(e)
      BY <1>4, BareOne
    <2> HIDE DEF told, r, e, F
    <2>4. r \o e \in Seq(Letters) /\ Bare(r \o e) = Bare(r) \o Bare(e) /\ Bare(e) \in Seq(Letters)
      BY <1>1, ConcatType, BareIs
    <2>5. Tells(told, r \o e) = Bare(F) \o Bare(r \o e)
      BY <1>1, <2>4, TellsIs DEF F
    <2>6. (Bare(F) \o Bare(r)) \o Bare(e) = Bare(F) \o (Bare(r) \o Bare(e))
      <3> DEFINE p == Bare(F)
                 q == Bare(r)
                 w == Bare(e)
      <3>1. p \in Seq(Letters) /\ q \in Seq(Letters) /\ w \in Seq(Letters)
        BY <1>2, <2>4
      <3> HIDE DEF p, q, w
      <3>2. (p \o q) \o w = p \o (q \o w)
        BY <3>1, ConcatAssociative
      <3> QED BY <3>2 DEF p, q, w
    <2> QED BY <1>2, <2>1, <2>2, <2>3, <2>4, <2>5, <2>6 DEF told, r, e
  <1> QED BY <1>3, <1>4

\* The lines of a text and what stands behind them say what the text says.
LEMMA SplitTells ==
    ASSUME NEW s \in Seq(Letters)
    PROVE  Tells(SplitText(s).told, SplitText(s).rest) = Plain(s)
  <1> DEFINE L == Len(s)
             Good(u) == Tells(SplitText(u).told, SplitText(u).rest) = Plain(u)
             G == {n \in 0..L : Good(Upto(s, n))}
  <1>0. L \in Nat /\ L \in 0..L /\ 0 \in 0..L
    OBVIOUS
  <1>1. 0 \in G
    <2>1. Upto(s, 0) = <<>>
      BY UptoIs
    <2>2. SplitText(<<>>).told = <<>> /\ SplitText(<<>>).rest = <<>>
      BY SplitNothing DEF NoLines
    <2>3. Plain(<<>>) = <<>> /\ Bare(<<>>) = <<>>
      BY WithoutNothing DEF Plain, Bare
    <2>4. FlattenSeq(<<>>) \o <<>> = <<>>
      BY DEF FlattenSeq
    <2>5. Good(<<>>)
      BY <2>2, <2>3, <2>4 DEF Tells
    <2> HIDE DEF Good
    <2> QED BY <1>0, <2>1, <2>5
  <1>2. ASSUME NEW n \in G, n \in 0..(L - 1) PROVE n + 1 \in G
    <2> DEFINE u == Upto(s, n)
               c == s[n + 1]
               a == SplitText(u)
    <2>1. Tells(a.told, a.rest) = Plain(u)
      OBVIOUS
    <2>2. u \in Seq(Letters) /\ Upto(s, n + 1) = Append(u, c) /\ c \in Letters /\ n + 1 \in 0..L
      BY <1>2, UptoIs
    <2> HIDE DEF u, c
    <2>3. a \in Splits /\ SplitText(Append(u, c)) = SplitStep(a, c)
      BY <2>2, SplitType, SplitAppend
    <2> HIDE DEF a
    <2>4. Append(u, c) = u \o <<c>> /\ <<c>> \in Seq(Letters)
      BY <2>2, AppendType
    <2>5. Plain(Append(u, c)) = Plain(u) \o Plain(<<c>>)
      <3> DEFINE e == <<c>>
      <3>1. e \in Seq(Letters)
        BY <2>4
      <3> HIDE DEF e
      <3>2. Plain(u \o e) = Plain(u) \o Plain(e)
        BY <2>2, <3>1, BareIs
      <3> QED BY <2>4, <3>2 DEF e
    <2>6. Good(Append(u, c))
      BY <2>1, <2>2, <2>3, <2>5, TellsStep
    <2> HIDE DEF Good
    <2> QED BY <2>2, <2>6
  <1>3. 0..L \subseteq G
    <2> HIDE DEF G
    <2> QED BY <1>0, <1>1, <1>2, UpTo
  <1>4. Good(Upto(s, L))
    <2> HIDE DEF Good
    <2> QED BY <1>0, <1>3
  <1>5. Upto(s, L) = s
    BY UptoIs
  <1> QED BY <1>4, <1>5

\* What r and more was split into: no line shorter than r without its CR comes first.
Long(d, n) ==
    \/ d.told = <<>> /\ Len(d.rest) >= n
    \/ d.told # <<>> /\ Len(d.told[1]) + 1 >= n

LEMMA LongStep ==
    ASSUME NEW d \in Splits, NEW c \in Letters, NEW n \in Nat, Long(d, n)
    PROVE  Long(SplitStep(d, c), n)
  <1> DEFINE told == d.told
             r == d.rest
             s == SplitStep(d, c)
  <1>1. told \in Seq(Seq(Letters)) /\ r \in Seq(Letters)
    BY DEF Splits
  <1>0. /\ c = "LF" => s.told = Append(told, Chomp(r)) /\ s.rest = <<>>
        /\ c # "LF" => s.told = told /\ s.rest = Append(r, c)
    BY SplitFields
  <1> SUFFICES Long(s, n)
    OBVIOUS
  <1> HIDE DEF s
  <1>2. CASE c = "LF"
    <2> DEFINE x == Chomp(r)
               told1 == Append(told, x)
               X == Seq(Letters)
    <2>1. s.told = told1
      BY <1>0, <1>2
    <2>2. x \in X /\ Len(x) \in Nat /\ Len(r) <= Len(x) + 1 /\ Len(r) \in Nat
      BY <1>1, Chomped
    <2>3. told \in Seq(X)
      BY <1>1
    <2> HIDE DEF x, X, told
    <2>4. told1 # <<>> /\ told1[Len(told) + 1] = x /\ \A i \in 1..Len(told) : told1[i] = told[i]
      BY <2>2, <2>3, AppendType
    <2> HIDE DEF told1, r
    <2>5. CASE told = <<>>
      <3>1. Len(told) = 0
        BY <2>5
      <3>2. Len(r) >= n
        BY <2>5 DEF Long, told, r
      <3>3. told1[1] = x
        BY <2>4, <3>1
      <3> QED BY <2>1, <2>2, <2>4, <3>2, <3>3 DEF Long
    <2>6. CASE told # <<>>
      <3>1. 1 \in 1..Len(told)
        BY <2>3, <2>6
      <3>2. Len(told[1]) + 1 >= n
        BY <2>6 DEF Long, told
      <3>3. told1[1] = told[1]
        BY <2>4, <3>1
      <3> QED BY <2>1, <2>4, <3>2, <3>3 DEF Long
    <2> QED BY <2>5, <2>6
  <1>3. CASE c # "LF"
    <2>1. s.told = told /\ s.rest = Append(r, c)
      BY <1>0, <1>3
    <2>2. Len(Append(r, c)) = Len(r) + 1 /\ Len(r) \in Nat
      BY <1>1, AppendType
    <2>3. CASE told = <<>>
      <3>1. Len(r) >= n
        BY <2>3 DEF Long
      <3> QED BY <2>1, <2>2, <2>3, <3>1 DEF Long
    <2>4. CASE told # <<>>
      BY <2>1, <2>4 DEF Long
    <2> QED BY <2>3, <2>4
  <1> QED BY <1>2, <1>3

LEMMA SplitLong ==
    ASSUME NEW r \in Seq(Letters), OneLine(r), NEW t \in Seq(Letters)
    PROVE  Long(SplitText(r \o t), Len(r))
  <1> DEFINE L == Len(t)
             n == Len(r)
             Good(u) == Long(SplitText(r \o u), n)
             G == {m \in 0..L : Good(Upto(t, m))}
  <1>0. L \in Nat /\ L \in 0..L /\ 0 \in 0..L /\ n \in Nat /\ r \o <<>> = r
    OBVIOUS
  <1>1. 0 \in G
    <2>1. Upto(t, 0) = <<>>
      BY UptoIs
    <2>2. SplitText(r) = [told |-> <<>>, rest |-> r]
      BY SplitPlain
    <2>3. Good(<<>>)
      BY <1>0, <2>2 DEF Long
    <2> HIDE DEF Good
    <2> QED BY <1>0, <2>1, <2>3
  <1>2. ASSUME NEW m \in G, m \in 0..(L - 1) PROVE m + 1 \in G
    <2> DEFINE u == Upto(t, m)
               c == t[m + 1]
               d == SplitText(r \o u)
    <2>1. Long(d, n)
      OBVIOUS
    <2>2. u \in Seq(Letters) /\ Upto(t, m + 1) = Append(u, c) /\ c \in Letters /\ m + 1 \in 0..L
      BY <1>2, UptoIs
    <2> HIDE DEF u, c, n
    <2>3. r \o Append(u, c) = Append(r \o u, c) /\ r \o u \in Seq(Letters)
      BY <2>2
    <2>4. d \in Splits /\ SplitText(r \o Append(u, c)) = SplitStep(d, c)
      BY <2>2, <2>3, SplitType, SplitAppend
    <2> HIDE DEF d
    <2>5. Good(Append(u, c))
      BY <1>0, <2>1, <2>2, <2>4, LongStep
    <2> HIDE DEF Good
    <2> QED BY <2>2, <2>5
  <1>3. 0..L \subseteq G
    <2> HIDE DEF G
    <2> QED BY <1>0, <1>1, <1>2, UpTo
  <1>4. Good(Upto(t, L))
    <2> HIDE DEF Good
    <2> QED BY <1>0, <1>3
  <1>5. Upto(t, L) = t
    BY UptoIs
  <1> QED BY <1>4, <1>5

-----------------------------------------------------------------------------
(* Lines of any length *)

\* No line of whole is cut.
Short(whole) ==
    /\ \A i \in 1..Len(whole.told) : Len(whole.told[i]) < LineMax
    /\ Len(whole.rest) <= LineMax

\* What holds of the lines, and of what was not told, of a text.
LinesOf(ls, b, text) ==
    /\ ls \in Seq(Seq(Letters)) /\ b \in Seq(Letters) /\ OneLine(b)
    /\ Tells(ls, b) = Plain(text)
    /\ Short(SplitText(text)) => ls = SplitText(text).told /\ b = SplitText(text).rest

LEMMA ShortBefore ==
    ASSUME NEW s \in Seq(Letters), NEW t \in Seq(Letters), Short(SplitText(s \o t))
    PROVE  /\ Short(SplitText(s))
           /\ Len(SplitText(SplitText(s).rest \o t).rest) <= LineMax
  <1> DEFINE told == SplitText(s).told
             r == SplitText(s).rest
             more == SplitText(r \o t).told
             end == SplitText(r \o t).rest
             whole == SplitText(s \o t).told
  <1>1. /\ told \in Seq(Seq(Letters)) /\ r \in Seq(Letters) /\ OneLine(r)
        /\ r \o t \in Seq(Letters)
    BY SplitType, SplitRest, ConcatType
  <1>2. /\ whole = told \o more /\ SplitText(s \o t).rest = end
    BY SplitMore
  <1>3. Long(SplitText(r \o t), Len(r))
    <2> HIDE DEF r
    <2> QED BY <1>1, SplitLong
  <1>4. more \in Seq(Seq(Letters)) /\ end \in Seq(Letters)
    <2> HIDE DEF r
    <2> QED BY <1>1, SplitType
  <1>5. (\A i \in 1..Len(whole) : Len(whole[i]) < LineMax) /\ Len(end) <= LineMax
    BY <1>2 DEF Short
  <1>6. Long(SplitText(r \o t), Len(r)) <=> \/ more = <<>> /\ Len(end) >= Len(r)
                                            \/ more # <<>> /\ Len(more[1]) + 1 >= Len(r)
    BY DEF Long
  <1> DEFINE X == Seq(Letters)
  <1>7. told \in Seq(X) /\ more \in Seq(X)
    BY <1>1, <1>4
  <1>8. Short(SplitText(s)) <=> (\A i \in 1..Len(told) : Len(told[i]) < LineMax) /\ Len(r) <= LineMax
    BY DEF Short
  <1>9. Len(r) \in Nat /\ Len(end) \in Nat /\ LineMax \in Nat
    BY <1>1, <1>4, StreamsAssumption
  <1> HIDE DEF told, r, more, end, whole, X
  <1>10. /\ Len(whole) = Len(told) + Len(more)
         /\ \A i \in 1..Len(told) : whole[i] = told[i]
         /\ \A i \in 1..Len(more) : whole[Len(told) + i] = more[i]
    BY <1>2, <1>7, ConcatType
  <1>11. Len(told) \in Nat /\ Len(more) \in Nat
    BY <1>7
  <1>12. \A i \in 1..Len(told) : Len(told[i]) < LineMax
    BY <1>5, <1>10, <1>11
  <1>13. Len(r) <= LineMax
    <2>1. CASE more = <<>>
      BY <1>3, <1>5, <1>6, <1>9, <2>1
    <2>2. CASE more # <<>>
      <3>1. 1 \in 1..Len(more) /\ Len(told) + 1 \in 1..Len(whole)
        <4>1. Len(more) # 0
          BY <1>7, <2>2
        <4> QED BY <1>10, <1>11, <4>1
      <3>2. Len(more[1]) < LineMax
        BY <1>5, <1>10, <3>1
      <3>3. Len(more[1]) \in Nat /\ Len(more[1]) + 1 >= Len(r)
        <4>1. more[1] \in Seq(Letters)
          BY <1>7, <3>1 DEF X
        <4> QED BY <1>3, <1>6, <2>2, <4>1
      <3> QED BY <1>9, <3>2, <3>3
    <2> QED BY <2>1, <2>2
  <1> QED BY <1>5, <1>8, <1>12, <1>13 DEF end, r

Grouped(p, q, w) == (p \o q) \o w = p \o (q \o w)
LEMMA Grouping ==
    ASSUME NEW S, NEW p \in Seq(S), NEW q \in Seq(S), NEW w \in Seq(S)
    PROVE  Grouped(p, q, w)
  BY ConcatAssociative DEF Grouped

\* Lines told after others say what both say.
LEMMA TellsMore ==
    ASSUME NEW ls \in Seq(Seq(Letters)), NEW told \in Seq(Seq(Letters)), NEW e \in Seq(Letters)
    PROVE  /\ Tells(ls \o told, e) = Bare(FlattenSeq(ls)) \o Tells(told, e)
           /\ ls \o told \in Seq(Seq(Letters))
  <1> DEFINE both == ls \o told
             p == Bare(FlattenSeq(ls))
             q == Bare(FlattenSeq(told))
             w == Bare(e)
  <1>1. both \in Seq(Seq(Letters))
    <2> DEFINE X == Seq(Letters)
    <2>1. ls \in Seq(X) /\ told \in Seq(X)
      OBVIOUS
    <2> HIDE DEF X
    <2>2. ls \o told \in Seq(X)
      BY <2>1, ConcatType
    <2> QED BY <2>2 DEF X
  <1>2. FlattenSeq(both) = FlattenSeq(ls) \o FlattenSeq(told)
    BY FlattenConcat
  <1>3. /\ FlattenSeq(ls) \in Seq(Letters) /\ FlattenSeq(told) \in Seq(Letters)
        /\ p \in Seq(Letters) /\ q \in Seq(Letters) /\ w \in Seq(Letters) /\ Tells(told, e) = q \o w
    BY TellsIs
  <1> HIDE DEF both
  <1>4. Tells(both, e) = Bare(FlattenSeq(both)) \o w
    BY <1>1, TellsIs
  <1>5. Bare(FlattenSeq(both)) = p \o q
    <2> DEFINE x == FlattenSeq(ls)
               y == FlattenSeq(told)
    <2>1. x \in Seq(Letters) /\ y \in Seq(Letters)
      BY <1>3
    <2> HIDE DEF x, y
    <2>2. Bare(x \o y) = Bare(x) \o Bare(y)
      BY <2>1, BareIs
    <2> QED BY <1>2, <2>2 DEF x, y
  <1> HIDE DEF p, q, w
  <1>6. (p \o q) \o w = p \o (q \o w)
    <2>1. p \in Seq(Letters) /\ q \in Seq(Letters) /\ w \in Seq(Letters)
      BY <1>3
    <2> QED BY ONLY <2>1, ConcatAssociative
  <1> QED BY <1>1, <1>3, <1>4, <1>5, <1>6 DEF both, p

LEMMA LinesGrow ==
    ASSUME NEW ls, NEW b, NEW s \in Seq(Letters), NEW t \in Seq(Letters), LinesOf(ls, b, s),
           NEW told, NEW e, told = SplitText(b \o t).told, e = SplitText(b \o t).rest
    PROVE  LinesOf((ls \o told) \o (IF TooLong(e) THEN <<e>> ELSE <<>>),
                   IF TooLong(e) THEN <<>> ELSE e, s \o t)
  <1> DEFINE both == ls \o told
             ls1 == both \o (IF TooLong(e) THEN <<e>> ELSE <<>>)
             b1 == IF TooLong(e) THEN <<>> ELSE e
             X == Seq(Letters)
  <1>1. /\ ls \in Seq(Seq(Letters)) /\ b \in Seq(Letters) /\ OneLine(b) /\ Tells(ls, b) = Plain(s)
    BY DEF LinesOf
  <1>2. /\ told \in Seq(Seq(Letters)) /\ e \in Seq(Letters) /\ OneLine(e) /\ Tells(told, e) = Plain(b \o t)
    <2>1. b \o t \in Seq(Letters)
      BY <1>1, ConcatType
    <2> QED BY <2>1, SplitType, SplitRest, SplitTells
  <1>3. both \in Seq(Seq(Letters)) /\ Tells(both, e) = Bare(FlattenSeq(ls)) \o Tells(told, e)
    BY <1>1, <1>2, TellsMore
  <1>4. /\ FlattenSeq(both) \in Seq(Letters) /\ OneLine(<<>>) /\ <<>> \in Seq(Letters)
    <2>1. FlattenSeq(both) \in Seq(Letters)
      <3> HIDE DEF both
      <3> QED BY <1>3, FlattenType
    <2>2. Len(<<>>) = 0
      OBVIOUS
    <2> QED BY <2>1, <2>2 DEF OneLine
  <1> HIDE DEF both
  <1>5. ASSUME TooLong(e)
        PROVE  ls1 \in Seq(Seq(Letters)) /\ Tells(ls1, b1) = Tells(both, e) /\ b1 = <<>>
    <2>1. ls1 = both \o <<e>> /\ b1 = <<>>
      BY <1>5
    <2>2. both \o <<e>> = Append(both, e)
      <3>1. both \in Seq(X) /\ e \in X
        BY <1>2, <1>3
      <3> HIDE DEF X
      <3> QED BY <3>1, AppendType
    <2>3. FlattenSeq(Append(both, e)) = FlattenSeq(both) \o e /\ Append(both, e) \in Seq(Seq(Letters))
      BY <1>2, <1>3, TellsLine
    <2> HIDE DEF ls1, b1
    <2>4. FlattenSeq(ls1) = FlattenSeq(both) \o e /\ ls1 \in Seq(Seq(Letters))
      BY <2>1, <2>2, <2>3
    <2>5. (FlattenSeq(both) \o e) \o <<>> = FlattenSeq(both) \o e
      <3> DEFINE y == FlattenSeq(both)
      <3>1. y \in Seq(Letters)
        BY <1>4
      <3> HIDE DEF y
      <3>2. (y \o e) \o <<>> = y \o e
        BY <1>2, <3>1
      <3> QED BY <3>2 DEF y
    <2>6. Tells(ls1, b1) = Tells(both, e)
      BY <2>1, <2>4, <2>5 DEF Tells
    <2> QED BY <2>1, <2>4, <2>6
  <1>6. ASSUME ~TooLong(e) PROVE ls1 = both /\ b1 = e
    <2>1. both \o <<>> = both
      <3>1. both \in Seq(X)
        BY <1>3
      <3> HIDE DEF X
      <3> QED BY <3>1
    <2> QED BY <1>6, <2>1
  <1>7. /\ ls1 \in Seq(Seq(Letters)) /\ b1 \in Seq(Letters) /\ OneLine(b1)
        /\ Tells(ls1, b1) = Tells(both, e) /\ (~TooLong(e) => ls1 = both /\ b1 = e)
    <2>1. CASE TooLong(e)
      <3> HIDE DEF ls1, b1
      <3> QED BY <1>4, <1>5, <2>1
    <2>2. CASE ~TooLong(e)
      <3> HIDE DEF ls1, b1
      <3> QED BY <1>2, <1>3, <1>6, <2>2
    <2> QED BY <2>1, <2>2
  <1>8. Tells(ls1, b1) = Plain(s \o t)
    <2> DEFINE p == Bare(FlattenSeq(ls))
               q == Bare(b)
               w == Plain(t)
    <2> HIDE DEF ls1, b1
    <2>1. Tells(ls, b) = p \o q /\ p \in Seq(Letters) /\ q \in Seq(Letters)
      BY <1>1, TellsIs
    <2>2. Plain(b \o t) = q \o w /\ w \in Seq(Letters)
      <3>1. Plain(b \o t) = Plain(b) \o Plain(t) /\ Plain(t) \in Seq(Letters)
        BY <1>1, BareIs
      <3>2. Plain(b) = Bare(b)
        BY <1>1, BareLine
      <3> QED BY <3>1, <3>2
    <2>3. Plain(s \o t) = Plain(s) \o w
      BY BareIs
    <2> HIDE DEF p, q, w
    <2>4. (p \o q) \o w = p \o (q \o w)
      <3>1. Grouped(p, q, w)
        BY <2>1, <2>2, Grouping
      <3> QED BY ONLY <3>1 DEF Grouped
    <2> QED BY <1>1, <1>2, <1>3, <1>7, <2>1, <2>2, <2>3, <2>4 DEF p
  <1>9. ASSUME Short(SplitText(s \o t))
        PROVE  ls1 = SplitText(s \o t).told /\ b1 = SplitText(s \o t).rest
    <2>1. Short(SplitText(s)) /\ Len(SplitText(SplitText(s).rest \o t).rest) <= LineMax
      BY <1>9, ShortBefore
    <2>2. ls = SplitText(s).told /\ b = SplitText(s).rest
      BY <2>1 DEF LinesOf
    <2>3. Len(e) <= LineMax /\ Len(e) \in Nat /\ LineMax \in Nat
      BY <1>2, <2>1, <2>2, StreamsAssumption
    <2>4. ~TooLong(e)
      BY <2>3 DEF TooLong
    <2> HIDE DEF ls1, b1
    <2> QED BY <1>7, <2>2, <2>4, SplitMore DEF both
  <1> HIDE DEF ls1, b1
  <1>10. LinesOf(ls1, b1, s \o t)
    BY <1>7, <1>8, <1>9 DEF LinesOf
  <1> QED BY <1>10 DEF ls1, b1, both

LinesInv ==
    /\ printed \in Seq(Chars)
    /\ LinesOf(lines, lineBuf, TextOf(printed))

LEMMA LinesInit == Init => LinesInv
  <1> SUFFICES ASSUME Init PROVE LinesInv
    OBVIOUS
  <1>1. printed = <<>> /\ lines = <<>> /\ lineBuf = <<>>
    BY DEF Init
  <1>2. /\ <<>> \in Seq(Chars) /\ <<>> \in Seq(Seq(Letters)) /\ <<>> \in Seq(Letters)
        /\ Len(<<>>) = 0 /\ <<>> \o <<>> = <<>> /\ DOMAIN <<>> = {}
    OBVIOUS
  <1>3. TextOf(<<>>) = <<>> /\ FlattenSeq(<<>>) = <<>>
    BY DEF TextOf, Flat, FlattenSeq
  <1>4. Tells(<<>>, <<>>) = Plain(<<>>)
    BY <1>2, <1>3, WithoutNothing DEF Tells, Bare, Plain
  <1>5. SplitText(<<>>).told = <<>> /\ SplitText(<<>>).rest = <<>>
    BY SplitNothing DEF NoLines
  <1>6. OneLine(<<>>)
    BY <1>2 DEF OneLine
  <1> QED BY <1>1, <1>2, <1>3, <1>4, <1>5, <1>6 DEF LinesInv, LinesOf

LEMMA LinesChunk ==
    ASSUME ConsoleInv, LinesInv, NEW bytes \in Seq(Chars), bytes # <<>>, onSerialChunk(bytes)
    PROVE  LinesInv'
  <1> DEFINE decoded == Decode(pending, bytes)
             text == TextOf(bytes)
             s == TextOf(printed)
             told == SplitText(lineBuf \o text).told
             e == SplitText(lineBuf \o text).rest
  <1>1. decoded.text = text
    BY Decoded DEF ConsoleInv, ConsoleType
  <1>2. printed' = printed \o bytes
    BY DEF onSerialChunk
  <1>3. /\ lineBuf' = (IF TooLong(e) THEN <<>> ELSE e)
        /\ lines' = (lines \o told) \o (IF TooLong(e) THEN <<e>> ELSE <<>>)
    BY <1>1 DEF onSerialChunk
  <1>4. /\ text \in Seq(Letters) /\ s \in Seq(Letters) /\ printed \in Seq(Chars)
        /\ TextOf(printed \o bytes) = s \o text
    BY TextConcat DEF LinesInv
  <1>5. printed' \in Seq(Chars)
    BY <1>2, <1>4, ConcatType
  <1>6. LinesOf(lines, lineBuf, s)
    BY DEF LinesInv
  <1>7. told = SplitText(lineBuf \o text).told /\ e = SplitText(lineBuf \o text).rest
    OBVIOUS
  <1> HIDE DEF text, s, told, e
  <1>8. LinesOf((lines \o told) \o (IF TooLong(e) THEN <<e>> ELSE <<>>),
                IF TooLong(e) THEN <<>> ELSE e, s \o text)
    BY <1>4, <1>6, <1>7, LinesGrow
  <1>9. LinesOf(lines', lineBuf', TextOf(printed'))
    BY <1>2, <1>3, <1>4, <1>8
  <1> QED BY <1>5, <1>9 DEF LinesInv

LEMMA LinesStep ==
    ASSUME ConsoleInv, LinesInv, [Next]_vars
    PROVE  LinesInv'
  <1>1. ASSUME printed' = printed, lines' = lines, lineBuf' = lineBuf PROVE LinesInv'
    BY <1>1 DEF LinesInv
  <1>2. CASE Chunk
    <2>1. rest # <<>>
      BY <1>2 DEF Chunk
    <2>2. PICK n \in 1..(IF Len(rest) < MaxChunk THEN Len(rest) ELSE MaxChunk) :
             FromGdb(SubSeq(rest, 1, n)) \/ onSerialChunk(SubSeq(rest, 1, n))
      BY <1>2 DEF Chunk
    <2>3. CASE FromGdb(SubSeq(rest, 1, n))
      BY <1>1, <2>3 DEF FromGdb, console
    <2>4. CASE onSerialChunk(SubSeq(rest, 1, n))
      <3>1. rest \in Seq(Chars)
        BY <2>4 DEF onSerialChunk, ConsoleInv, ConsoleType
      <3> DEFINE bytes == SubSeq(rest, 1, n)
                 bound == IF Len(rest) < MaxChunk THEN Len(rest) ELSE MaxChunk
      <3>2. n \in 1..bound
        BY <2>2
      <3>3. SubSeq(rest, 1, n) \in Seq(Chars) /\ SubSeq(rest, 1, n) # <<>>
        BY <2>1, <3>1, <3>2, ChunkType
      <3>4. onSerialChunk(bytes) /\ bytes \in Seq(Chars) /\ bytes # <<>>
        BY <2>4, <3>3
      <3> HIDE DEF bytes
      <3> QED BY <3>4, LinesChunk
    <2> QED BY <2>2, <2>3, <2>4
  <1>3. CASE \E p \in Patterns : waitForSerial(p) \/ TimesOut(p)
    BY <1>1, <1>3 DEF waitForSerial, TimesOut
  <1>4. CASE UNCHANGED vars
    BY <1>1, <1>4 DEF vars, console
  <1> QED BY <1>2, <1>3, <1>4 DEF Next

\* The lines and what is not yet told say what was printed, and they are the lines of all that was
\* printed as long as none of them is too long.
THEOREM LinesInvariant == Spec => []LinesInv
  <1>1. Init => LinesInv
    BY LinesInit
  <1>2. ConsoleInv /\ LinesInv /\ [Next]_vars => LinesInv'
    BY LinesStep
  <1> QED BY <1>1, <1>2, ConsoleInvariant, PTL DEF Spec

LEMMA LinesTold == LinesInv => LinesRight
  <1> SUFFICES ASSUME LinesInv, printed # <<>>
               PROVE  LET whole == SplitText(Text)
                      IN  /\ Without(FlattenSeq(lines) \o lineBuf, {"CR"}) = Without(Text, {"CR", "LF"})
                          /\ (\A i \in DOMAIN whole.told : Len(whole.told[i]) < LineMax) /\ Len(whole.rest) <= LineMax
                             => lines = whole.told /\ lineBuf = whole.rest
    BY DEF LinesRight
  <1> DEFINE t == TextOf(printed)
             told == SplitText(t).told
             r == SplitText(t).rest
  <1>1. Text = t /\ printed \in Seq(Chars) /\ t \in Seq(Letters)
    BY Decoded, TextConcat DEF LinesInv, Text
  <1>2. Tells(lines, lineBuf) = Plain(t) /\ (Short(SplitText(t)) => lines = told /\ lineBuf = r)
    BY DEF LinesInv, LinesOf
  <1>3. told \in Seq(Seq(Letters)) /\ r \in Seq(Letters)
    <2> HIDE DEF t
    <2> QED BY <1>1, SplitType
  <1>4. Short(SplitText(t)) <=> (\A i \in 1..Len(told) : Len(told[i]) < LineMax) /\ Len(r) <= LineMax
    BY DEF Short
  <1>5. DOMAIN told = 1..Len(told) /\ Len(r) \in Nat /\ LineMax \in Nat
    BY <1>3, StreamsAssumption
  <1> HIDE DEF t, told, r
  <1>6. (\A i \in DOMAIN told : Len(told[i]) < LineMax) /\ Len(r) <= LineMax => lines = told /\ lineBuf = r
    BY <1>2, <1>4, <1>5
  <1>7. Without(FlattenSeq(lines) \o lineBuf, {"CR"}) = Without(t, {"CR", "LF"})
    BY <1>2 DEF Tells, Bare, Plain
  <1> QED BY <1>1, <1>6, <1>7 DEF told, r

\* What the lines say is what the board printed, however it was cut, and a line that is not too
\* long is told whole (onSerialChunk of board.ts).
THEOREM LinesRightAlways == Spec => []LinesRight
  <1>1. LinesInv => LinesRight
    BY LinesTold
  <1> QED BY <1>1, LinesInvariant, PTL

-----------------------------------------------------------------------------
(* Folds of steps that are operators of the model *)

\* f takes the step g wherever it is defined.
Follows(f, A, g, base, seq) ==
    /\ f[{}] = base
    /\ \A t \in SUBSET (1..Len(seq)) :
          t # {} /\ f[t \ {MaxOf(t)}] \in A => f[t] = g[f[t \ {MaxOf(t)}]][seq[MaxOf(t)]]

LEMMA FoldFrom ==
    ASSUME NEW A, NEW B, NEW g, Closed(g, A, B), NEW base \in A, NEW seq \in Seq(B),
           NEW f, Follows(f, A, g, base, seq)
    PROVE  \E F \in [0..Len(seq) -> A] : Steps(F, g, base, seq) /\ F[Len(seq)] = f[1..Len(seq)]
  <1> DEFINE L == Len(seq)
             F == [n \in 0..L |-> f[1..n]]
             G == {n \in 0..L : f[1..n] \in A /\ (n # 0 => f[1..n] = g[f[1..(n - 1)]][seq[n]])}
  <1>0. L \in Nat /\ (\A i \in 1..L : seq[i] \in B) /\ 1..0 = {} /\ 0 \in 0..L /\ L \in 0..L
    OBVIOUS
  <1>1. 0 \in G
    BY <1>0 DEF Follows
  <1>2. ASSUME NEW n \in G, n \in 0..(L - 1) PROVE n + 1 \in G
    <2> DEFINE m == n + 1
    <2>1. m \in Nat \ {0} /\ m \in 0..L /\ m \in 1..L /\ m - 1 = n /\ 1..m \in SUBSET (1..L)
      BY <1>0, <1>2
    <2>2. f[1..n] \in A
      OBVIOUS
    <2> HIDE DEF m, L
    <2>3. MaxOf(1..m) = m /\ (1..m) \ {m} = 1..n /\ 1..m # {}
      BY <2>1, MaxOfInitial
    <2>4. f[1..m] = g[f[1..n]][seq[m]]
      BY <2>1, <2>2, <2>3 DEF Follows, L
    <2>5. f[1..m] \in A
      BY <1>0, <2>1, <2>2, <2>4 DEF Closed
    <2> QED BY <2>1, <2>4, <2>5 DEF m
  <1>3. 0..L \subseteq G
    <2> HIDE DEF G
    <2> QED BY <1>0, <1>1, <1>2, UpTo
  <1>4. ASSUME NEW n \in 0..L PROVE F[n] = f[1..n] /\ F[n] \in A
    BY <1>3
  <1>5. ASSUME NEW n \in 1..L PROVE F[n] = g[F[n - 1]][seq[n]]
    <2>1. n \in 0..L /\ n - 1 \in 0..L /\ n # 0
      BY <1>0
    <2>2. f[1..n] = g[f[1..(n - 1)]][seq[n]]
      BY <1>3, <2>1
    <2> HIDE DEF F
    <2> QED BY <1>4, <2>1, <2>2
  <1>6. F \in [0..L -> A]
    BY <1>4
  <1>7. F[0] = base /\ F[L] = f[1..L]
    BY <1>0 DEF Follows
  <1> HIDE DEF F
  <1> QED BY <1>5, <1>6, <1>7 DEF Steps, L

Total(h, A, B, g, base, seq) ==
    /\ h = [t \in SUBSET (1..Len(seq)) |-> h[t]] /\ h[{}] = base
    /\ \A t \in SUBSET (1..Len(seq)) :
          t # {} => /\ h[t] = g[h[t \ {MaxOf(t)}]][seq[MaxOf(t)]]
                    /\ h[t \ {MaxOf(t)}] \in A /\ seq[MaxOf(t)] \in B

LEMMA FoldTotal ==
    ASSUME NEW A, NEW B, NEW g, Closed(g, A, B), NEW base \in A, NEW seq \in Seq(B)
    PROVE  \E h : Total(h, A, B, g, base, seq)
  <1> DEFINE L == Len(seq)
  <1>0. L \in Nat /\ \A i \in 1..L : seq[i] \in B
    OBVIOUS
  <1> HIDE DEF L
  <1>1. PICK h \in [SUBSET (1..L) -> A] : Folds(h, L, g, base, seq)
    BY <1>0, FoldExists
  <1>2. h = [t \in SUBSET (1..L) |-> h[t]] /\ {} \in SUBSET (1..L)
    BY <1>1
  <1>3. h[{}] = base
    BY <1>1, <1>2 DEF Folds
  <1>4. ASSUME NEW t \in SUBSET (1..L), t # {}
        PROVE  /\ h[t] = g[h[t \ {MaxOf(t)}]][seq[MaxOf(t)]]
               /\ h[t \ {MaxOf(t)}] \in A /\ seq[MaxOf(t)] \in B
    <2>1. MaxOf(t) \in 1..L /\ t \ {MaxOf(t)} \in SUBSET (1..L)
      BY <1>0, <1>4, MaxIn
    <2> QED BY <1>0, <1>1, <1>4, <2>1 DEF Folds
  <1> QED BY <1>2, <1>3, <1>4 DEF L, Total

\* One value more is one step more.
LEMMA StepsAppend ==
    ASSUME NEW A, NEW B, NEW g, Closed(g, A, B), NEW base \in A, NEW seq \in Seq(B), NEW c \in B,
           NEW E \in [0..Len(seq) -> A], Steps(E, g, base, seq),
           NEW F \in [0..Len(Append(seq, c)) -> A], Steps(F, g, base, Append(seq, c))
    PROVE  /\ F[Len(Append(seq, c))] = g[E[Len(seq)]][c]
           /\ E[Len(seq)] \in A
  <1> DEFINE L == Len(seq)
             t == Append(seq, c)
  <1>0. L \in Nat /\ L \in 0..L
    OBVIOUS
  <1>1. Len(t) = L + 1 /\ t[L + 1] = c /\ \A i \in 1..L : t[i] = seq[i]
    BY AppendType
  <1>2. E[0] = base /\ \A n \in 1..L : E[n] = g[E[n - 1]][seq[n]]
    BY DEF Steps
  <1>3. F[0] = base /\ \A n \in 1..(L + 1) : F[n] = g[F[n - 1]][t[n]]
    <2> HIDE DEF t
    <2> QED BY <1>1 DEF Steps, t
  <1> HIDE DEF L, t
  <1> DEFINE G == {n \in 0..L : F[n] = E[n]}
  <1>4. 0 \in G
    BY <1>0, <1>2, <1>3
  <1>5. ASSUME NEW n \in G, n \in 0..(L - 1) PROVE n + 1 \in G
    <2>1. n + 1 \in 1..L /\ n + 1 \in 1..(L + 1) /\ (n + 1) - 1 = n /\ n + 1 \in 0..L
      BY <1>0, <1>5
    <2>2. E[n + 1] = g[E[n]][seq[n + 1]]
      BY <1>2, <2>1
    <2>3. F[n + 1] = g[F[n]][t[n + 1]]
      BY <1>3, <2>1
    <2> QED BY <1>1, <2>1, <2>2, <2>3
  <1>6. F[L] = E[L]
    <2>1. 0..L \subseteq G
      <3> HIDE DEF G
      <3> QED BY <1>0, <1>4, <1>5, UpTo
    <2> QED BY <1>0, <2>1
  <1>7. F[L + 1] = g[F[L]][t[L + 1]]
    <2>1. L + 1 \in 1..(L + 1) /\ (L + 1) - 1 = L
      BY <1>0
    <2> QED BY <1>3, <2>1
  <1>8. E[L] \in A
    BY <1>0 DEF L
  <1> QED BY <1>1, <1>6, <1>7, <1>8 DEF L, t

-----------------------------------------------------------------------------
(* The sum of a packet *)

Byte == 0..255
Sums == [sum \in Byte |-> [b \in Byte |-> (sum + b) % 256]]
SumBy(f, s) ==
    f = [t \in SUBSET (1..Len(s)) |-> IF t = {} THEN 0 ELSE (f[t \ {MaxOf(t)}] + s[MaxOf(t)]) % 256]

LEMMA SumsClosed == Closed(Sums, Byte, Byte) /\ 0 \in Byte
  <1>1. \A sum, b \in Byte : (sum + b) % 256 \in Byte
    BY DEF Byte
  <1>2. \A sum, b \in Byte : Sums[sum][b] = (sum + b) % 256
    BY DEF Sums
  <1>3. 0 \in Byte
    BY DEF Byte
  <1>4. ASSUME NEW a \in Byte, NEW b \in Byte PROVE Sums[a][b] \in Byte
    <2>1. (a + b) % 256 \in Byte /\ Sums[a][b] = (a + b) % 256
      BY <1>1, <1>2
    <2> QED BY ONLY <2>1
  <1> QED BY <1>3, <1>4, Zenon DEF Closed

LEMMA SumFolds ==
    ASSUME NEW s \in Seq(Byte)
    PROVE  \E F \in [0..Len(s) -> Byte] : Steps(F, Sums, 0, s) /\ F[Len(s)] = SumOf(s)
  <1> DEFINE L == Len(s)
  <1>0. L \in Nat /\ DOMAIN s = 1..L /\ {} \in SUBSET (1..L)
    OBVIOUS
  <1>1. \A sum, b \in Byte : Sums[sum][b] = (sum + b) % 256
    BY DEF Sums
  <1>2. PICK h : /\ h = [t \in SUBSET (1..Len(s)) |-> h[t]] /\ h[{}] = 0
                 /\ \A t \in SUBSET (1..Len(s)) :
                       t # {} => /\ h[t] = Sums[h[t \ {MaxOf(t)}]][s[MaxOf(t)]]
                                 /\ h[t \ {MaxOf(t)}] \in Byte /\ s[MaxOf(t)] \in Byte
    <2>1. \E h : Total(h, Byte, Byte, Sums, 0, s)
      BY SumsClosed, FoldTotal
    <2> QED BY <2>1 DEF Total
  <1>3. SumBy(h, s)
    <2>1. ASSUME NEW t \in SUBSET (1..L)
          PROVE  h[t] = IF t = {} THEN 0 ELSE (h[t \ {MaxOf(t)}] + s[MaxOf(t)]) % 256
      <3>1. CASE t # {}
        <4> DEFINE x == h[t \ {MaxOf(t)}]
                   y == s[MaxOf(t)]
        <4>1. h[t] = Sums[x][y] /\ x \in Byte /\ y \in Byte
          BY <1>2, <3>1
        <4> HIDE DEF x, y
        <4>2. h[t] = (x + y) % 256
          BY <1>1, <4>1
        <4> QED BY <3>1, <4>2 DEF x, y
      <3> QED BY <1>2, <3>1
    <2>2. [t \in SUBSET (1..L) |-> h[t]]
           = [t \in SUBSET (1..L) |-> IF t = {} THEN 0 ELSE (h[t \ {MaxOf(t)}] + s[MaxOf(t)]) % 256]
      BY <2>1
    <2> QED BY <1>2, <2>2 DEF SumBy
  <1> DEFINE f == CHOOSE f : SumBy(f, s)
  <1>4. SumBy(f, s)
    BY <1>3
  <1>5. SumOf(s) = f[1..L]
    BY <1>0 DEF SumOf, SumBy, FoldLeft, MapThenFoldSet, MaxOf, Max
  <1> HIDE DEF f
  <1>6. Follows(f, Byte, Sums, 0, s)
    <2>1. ASSUME NEW t \in SUBSET (1..L)
          PROVE  f[t] = IF t = {} THEN 0 ELSE (f[t \ {MaxOf(t)}] + s[MaxOf(t)]) % 256
      BY <1>4 DEF SumBy
    <2>2. ASSUME NEW t \in SUBSET (1..L), t # {}, f[t \ {MaxOf(t)}] \in Byte
          PROVE  f[t] = Sums[f[t \ {MaxOf(t)}]][s[MaxOf(t)]]
      <3>1. s[MaxOf(t)] \in Byte
        <4>1. MaxOf(t) \in 1..L
          BY <1>0, <2>2, MaxIn
        <4> QED BY <4>1
      <3> DEFINE x == f[t \ {MaxOf(t)}]
                 y == s[MaxOf(t)]
      <3>2. f[t] = (x + y) % 256
        BY <2>1, <2>2
      <3>3. x \in Byte /\ y \in Byte
        BY <2>2, <3>1
      <3> HIDE DEF x, y
      <3>4. f[t] = Sums[x][y]
        BY <1>1, <3>2, <3>3
      <3> QED BY <3>4 DEF x, y
    <2>3. f[{}] = 0
      BY <1>0, <2>1
    <2> QED BY <2>2, <2>3 DEF Follows
  <1>7. \E F \in [0..Len(s) -> Byte] : Steps(F, Sums, 0, s) /\ F[Len(s)] = f[1..Len(s)]
    BY <1>6, SumsClosed, FoldFrom
  <1> QED BY <1>5, <1>7

LEMMA SumAppend ==
    ASSUME NEW s \in Seq(Byte), NEW b \in Byte
    PROVE  SumOf(Append(s, b)) = (SumOf(s) + b) % 256 /\ SumOf(s) \in Byte
  <1> DEFINE t == Append(s, b)
  <1>1. PICK E \in [0..Len(s) -> Byte] : Steps(E, Sums, 0, s) /\ E[Len(s)] = SumOf(s)
    BY SumFolds
  <1>2. t \in Seq(Byte)
    BY AppendType
  <1>3. PICK F \in [0..Len(t) -> Byte] : Steps(F, Sums, 0, t) /\ F[Len(t)] = SumOf(t)
    <2> HIDE DEF t
    <2> QED BY <1>2, SumFolds
  <1>4. F[Len(t)] = Sums[E[Len(s)]][b] /\ E[Len(s)] \in Byte
    BY <1>1, <1>3, SumsClosed, StepsAppend
  <1> HIDE DEF t
  <1> QED BY <1>1, <1>3, <1>4 DEF Sums, t

-----------------------------------------------------------------------------
(* The bytes of a packet, unescaped *)

Unescaping == [out : Seq(Int), skip : BOOLEAN]
Unescaped == [out |-> <<>>, skip |-> FALSE]
Places(bytes) == [i \in DOMAIN bytes |-> i]
Unescape(bytes) == [s \in Unescaping |-> [i \in 1..Len(bytes) |-> Unescapes(bytes, s, i)]]
UnescapeBy(f, bytes) ==
    f = [t \in SUBSET (1..Len(bytes)) |->
            IF t = {} THEN Unescaped
            ELSE Unescapes(bytes, f[t \ {MaxOf(t)}], Places(bytes)[MaxOf(t)])]

LEMMA FlipType == ASSUME NEW b \in Byte PROVE Flip(b) \in Byte /\ Flip(b) \in Int
  BY DEF Flip, Byte

LEMMA RunType ==
    ASSUME NEW S, NEW e \in S, NEW n \in Int
    PROVE  [k \in 1..n |-> e] \in Seq(S)
  <1>1. CASE n \in Nat
    BY <1>1
  <1>2. CASE n \notin Nat
    <2>1. 1..n = 1..0
      BY <1>2
    <2>2. [k \in 1..0 |-> e] \in Seq(S)
      OBVIOUS
    <2> QED BY <2>1, <2>2
  <1> QED BY <1>1, <1>2

LEMMA UnescapesType ==
    ASSUME NEW bytes \in Seq(Byte), NEW s \in Unescaping, NEW i \in 1..Len(bytes)
    PROVE  Unescapes(bytes, s, i) \in Unescaping
  <1> DEFINE b == bytes[i]
             out == s.out
  <1>1. out \in Seq(Int) /\ s.skip \in BOOLEAN
    BY DEF Unescaping
  <1>2. b \in Byte /\ b \in Int
    <2>1. b \in Byte
      OBVIOUS
    <2> HIDE DEF b
    <2> QED BY <2>1 DEF Byte
  <1>3. CASE s.skip
    <2>1. Unescapes(bytes, s, i) = [out |-> out, skip |-> FALSE]
      BY <1>3 DEF Unescapes
    <2> QED BY <1>1, <2>1 DEF Unescaping
  <1>4. CASE ~s.skip /\ b = Brace /\ i < Len(bytes)
    <2>1. Unescapes(bytes, s, i) = [out |-> Append(out, Flip(bytes[i + 1])), skip |-> TRUE]
      BY <1>4 DEF Unescapes
    <2>2. Flip(bytes[i + 1]) \in Int
      <3>1. bytes[i + 1] \in Byte
        BY <1>4
      <3> QED BY <3>1, FlipType
    <2>3. Append(out, Flip(bytes[i + 1])) \in Seq(Int)
      BY <1>1, <2>2, AppendType
    <2> QED BY <2>1, <2>3 DEF Unescaping
  <1>5. CASE ~s.skip /\ ~(b = Brace /\ i < Len(bytes)) /\ b = Star /\ out # <<>> /\ i < Len(bytes)
    <2> DEFINE run == [k \in 1..(bytes[i + 1] - 29) |-> Last(out)]
    <2>1. Unescapes(bytes, s, i) = [out |-> out \o run, skip |-> TRUE]
      BY <1>5 DEF Unescapes
    <2>2. run \in Seq(Int)
      <3>1. bytes[i + 1] - 29 \in Int
        <4> DEFINE c == bytes[i + 1]
        <4>1. c \in Byte
          BY <1>5
        <4> HIDE DEF c
        <4>2. c - 29 \in Int
          BY <4>1 DEF Byte
        <4> QED BY <4>2 DEF c
      <3>2. Last(out) \in Int
        BY <1>1, <1>5 DEF Last
      <3> QED BY <3>1, <3>2, RunType
    <2> HIDE DEF run, out
    <2>3. out \o run \in Seq(Int)
      BY <1>1, <2>2, ConcatType
    <2> QED BY <2>1, <2>3 DEF Unescaping
  <1>6. CASE /\ ~s.skip /\ ~(b = Brace /\ i < Len(bytes))
             /\ ~(b = Star /\ out # <<>> /\ i < Len(bytes))
    <2>1. Unescapes(bytes, s, i) = [out |-> Append(out, b), skip |-> FALSE]
      BY <1>6 DEF Unescapes
    <2>2. Append(out, b) \in Seq(Int)
      BY <1>1, <1>2, AppendType
    <2> QED BY <2>1, <2>2 DEF Unescaping
  <1> QED BY <1>3, <1>4, <1>5, <1>6

LEMMA UnescapeClosed ==
    ASSUME NEW bytes \in Seq(Byte)
    PROVE  /\ Closed(Unescape(bytes), Unescaping, 1..Len(bytes)) /\ Unescaped \in Unescaping
           /\ Places(bytes) \in Seq(1..Len(bytes)) /\ Len(Places(bytes)) = Len(bytes)
           /\ \A i \in 1..Len(bytes) : Places(bytes)[i] = i
           /\ \A s \in Unescaping, i \in 1..Len(bytes) : Unescape(bytes)[s][i] = Unescapes(bytes, s, i)
  <1> DEFINE L == Len(bytes)
  <1>1. L \in Nat /\ DOMAIN bytes = 1..L
    OBVIOUS
  <1>2. \A s \in Unescaping, i \in 1..L : Unescape(bytes)[s][i] = Unescapes(bytes, s, i)
    BY DEF Unescape
  <1>3. ASSUME NEW s \in Unescaping, NEW i \in 1..L PROVE Unescape(bytes)[s][i] \in Unescaping
    <2>1. Unescapes(bytes, s, i) \in Unescaping
      BY UnescapesType
    <2> QED BY <1>2, <2>1
  <1>4. Closed(Unescape(bytes), Unescaping, 1..L)
    BY <1>3 DEF Closed
  <1>5. Places(bytes) = [i \in 1..L |-> i]
    BY <1>1 DEF Places
  <1>6. Unescaped \in Unescaping
    BY DEF Unescaped, Unescaping
  <1> HIDE DEF L
  <1>7. Places(bytes) \in Seq(1..L) /\ Len(Places(bytes)) = L /\ \A i \in 1..L : Places(bytes)[i] = i
    BY <1>1, <1>5
  <1> QED BY <1>2, <1>4, <1>6, <1>7 DEF L

LEMMA UnescapeFolds ==
    ASSUME NEW bytes \in Seq(Byte)
    PROVE  \E F \in [0..Len(bytes) -> Unescaping] :
              /\ F[0] = Unescaped /\ \A n \in 1..Len(bytes) : F[n] = Unescapes(bytes, F[n - 1], n)
              /\ F[Len(bytes)].out = unescapePayload(bytes)
  <1> DEFINE L == Len(bytes)
             g == Unescape(bytes)
             s == Places(bytes)
  <1>0. L \in Nat /\ DOMAIN bytes = 1..L /\ {} \in SUBSET (1..L)
    OBVIOUS
  <1>1. /\ Closed(g, Unescaping, 1..L) /\ Unescaped \in Unescaping /\ s \in Seq(1..L) /\ Len(s) = L
        /\ \A i \in 1..L : s[i] = i
        /\ \A x \in Unescaping, i \in 1..L : g[x][i] = Unescapes(bytes, x, i)
    BY UnescapeClosed
  <1>s. DOMAIN s = 1..L
    BY <1>0 DEF Places
  <1> HIDE DEF L, g, s
  <1>2. PICK h : /\ h = [t \in SUBSET (1..L) |-> h[t]] /\ h[{}] = Unescaped
                 /\ \A t \in SUBSET (1..L) :
                       t # {} => /\ h[t] = g[h[t \ {MaxOf(t)}]][s[MaxOf(t)]]
                                 /\ h[t \ {MaxOf(t)}] \in Unescaping /\ s[MaxOf(t)] \in 1..L
    <2>1. \E h : /\ h = [t \in SUBSET (1..Len(s)) |-> h[t]] /\ h[{}] = Unescaped
                 /\ \A t \in SUBSET (1..Len(s)) :
                       t # {} => /\ h[t] = g[h[t \ {MaxOf(t)}]][s[MaxOf(t)]]
                                 /\ h[t \ {MaxOf(t)}] \in Unescaping /\ s[MaxOf(t)] \in 1..L
      <3>1. \E h : Total(h, Unescaping, 1..L, g, Unescaped, s)
        BY <1>1, FoldTotal
      <3> QED BY <3>1 DEF Total
    <2> QED BY <1>1, <2>1
  <1> DEFINE Next1(f, t) == Unescapes(bytes, f[t \ {MaxOf(t)}], s[MaxOf(t)])
  <1>3. UnescapeBy(h, bytes)
    <2>1. ASSUME NEW t \in SUBSET (1..L) PROVE h[t] = IF t = {} THEN Unescaped ELSE Next1(h, t)
      <3>1. CASE t # {}
        <4> DEFINE x == h[t \ {MaxOf(t)}]
                   y == s[MaxOf(t)]
        <4>1. h[t] = g[x][y] /\ x \in Unescaping /\ y \in 1..L
          BY <1>2, <3>1
        <4> HIDE DEF x, y
        <4>2. h[t] = Unescapes(bytes, x, y)
          BY <1>1, <4>1
        <4> QED BY <3>1, <4>2 DEF x, y
      <3> QED BY <1>2, <3>1
    <2>2. [t \in SUBSET (1..L) |-> h[t]]
           = [t \in SUBSET (1..L) |-> IF t = {} THEN Unescaped ELSE Next1(h, t)]
      BY <2>1
    <2> QED BY <1>2, <2>2 DEF UnescapeBy, L, s
  <1> DEFINE f == CHOOSE f : UnescapeBy(f, bytes)
  <1>4. UnescapeBy(f, bytes)
    BY <1>3
  <1>5. unescapePayload(bytes) = f[1..L].out
    <2>1. DOMAIN Places(bytes) = 1..L
      BY <1>s DEF s
    <2> QED BY <2>1 DEF unescapePayload, UnescapeBy, FoldLeft, MapThenFoldSet, MaxOf, Max, L, Places, Unescaped
  <1> HIDE DEF f
  <1>6. Follows(f, Unescaping, g, Unescaped, s)
    <2>1. ASSUME NEW t \in SUBSET (1..L) PROVE f[t] = IF t = {} THEN Unescaped ELSE Next1(f, t)
      BY <1>4 DEF UnescapeBy, L, s
    <2>2. ASSUME NEW t \in SUBSET (1..L), t # {}, f[t \ {MaxOf(t)}] \in Unescaping
          PROVE  f[t] = g[f[t \ {MaxOf(t)}]][s[MaxOf(t)]]
      <3>1. s[MaxOf(t)] \in 1..L
        <4>1. MaxOf(t) \in 1..L
          BY <1>0, <2>2, MaxIn DEF L
        <4> QED BY <1>1, <4>1
      <3> DEFINE x == f[t \ {MaxOf(t)}]
                 y == s[MaxOf(t)]
      <3>2. f[t] = Unescapes(bytes, x, y)
        BY <2>1, <2>2
      <3>3. x \in Unescaping /\ y \in 1..L
        BY <2>2, <3>1
      <3> HIDE DEF x, y
      <3>4. f[t] = g[x][y]
        BY <1>1, <3>2, <3>3
      <3> QED BY <3>4 DEF x, y
    <2>3. f[{}] = Unescaped
      BY <1>0, <2>1 DEF L
    <2> QED BY <1>1, <2>2, <2>3 DEF Follows
  <1>7. PICK F \in [0..L -> Unescaping] : Steps(F, g, Unescaped, s) /\ F[L] = f[1..L]
    <2>1. \E F \in [0..Len(s) -> Unescaping] : Steps(F, g, Unescaped, s) /\ F[Len(s)] = f[1..Len(s)]
      BY <1>1, <1>6, FoldFrom
    <2> QED BY <1>1, <2>1
  <1>8. ASSUME NEW n \in 1..L PROVE F[n] = Unescapes(bytes, F[n - 1], n)
    <2>1. n - 1 \in 0..L /\ s[n] = n
      BY <1>0, <1>1 DEF L
    <2>2. F[n - 1] \in Unescaping
      BY <1>7, <2>1
    <2>3. F[n] = g[F[n - 1]][s[n]]
      BY <1>1, <1>7 DEF Steps
    <2> QED BY <1>1, <2>1, <2>2, <2>3
  <1>9. F[0] = Unescaped /\ F[L].out = unescapePayload(bytes)
    BY <1>5, <1>7 DEF Steps
  <1> QED BY <1>7, <1>8, <1>9 DEF L

LEMMA UnescapedType == ASSUME NEW bytes \in Seq(Byte) PROVE unescapePayload(bytes) \in Seq(Int)
  <1>1. PICK F \in [0..Len(bytes) -> Unescaping] : F[Len(bytes)].out = unescapePayload(bytes)
    BY UnescapeFolds
  <1>2. Len(bytes) \in 0..Len(bytes)
    OBVIOUS
  <1>3. F[Len(bytes)] \in Unescaping
    BY <1>2
  <1> QED BY <1>1, <1>3 DEF Unescaping

\* A byte of a payload, as it goes out
EscapedByte(b) == IF b \in Special THEN <<Brace, Flip(b)>> ELSE <<b>>

LEMMA FlipIs ==
    ASSUME NEW b \in Special
    PROVE  Flip(Flip(b)) = b /\ Flip(b) \in Byte /\ Flip(b) # Hash /\ b \in Byte
  BY DEF Special, Flip, Hash, Dollar, Brace, Star, Byte

LEMMA EscapedByteIs ==
    ASSUME NEW b \in Byte
    PROVE  /\ EscapedByte(b) \in Seq(Byte)
           /\ \A i \in 1..Len(EscapedByte(b)) : EscapedByte(b)[i] # Hash
           /\ b \in Special => /\ Len(EscapedByte(b)) = 2
                               /\ EscapedByte(b)[1] = Brace /\ EscapedByte(b)[2] = Flip(b)
           /\ b \notin Special => Len(EscapedByte(b)) = 1 /\ EscapedByte(b)[1] = b
  <1>0. Brace \in Byte /\ Brace # Hash /\ Hash \in Special
    BY DEF Brace, Hash, Byte, Special
  <1>1. CASE b \in Special
    <2> DEFINE c == Flip(b)
    <2>1. c \in Byte /\ c # Hash
      BY <1>1, FlipIs
    <2>2. EscapedByte(b) = <<Brace, c>>
      BY <1>1 DEF EscapedByte
    <2> HIDE DEF c
    <2>3. <<Brace, c>> \in Seq(Byte) /\ Len(<<Brace, c>>) = 2 /\ <<Brace, c>>[1] = Brace /\ <<Brace, c>>[2] = c
      BY <1>0, <2>1
    <2>4. \A i \in 1..2 : <<Brace, c>>[i] # Hash
      BY <1>0, <2>1
    <2> QED BY <1>1, <2>2, <2>3, <2>4 DEF c
  <1>2. CASE b \notin Special
    <2>1. EscapedByte(b) = <<b>> /\ b # Hash
      BY <1>0, <1>2 DEF EscapedByte
    <2> QED BY <1>2, <2>1
  <1> QED BY <1>1, <1>2

\* Where the k-th byte of a payload ends among the bytes that went out.
Escapes(D, payload, bytes) ==
    /\ D[0] = 0 /\ D[Len(payload)] = Len(bytes)
    /\ \A k \in 1..Len(payload) :
          /\ D[k] <= Len(bytes)
          /\ payload[k] \in Special => /\ D[k] = D[k - 1] + 2
                                       /\ bytes[D[k - 1] + 1] = Brace
                                       /\ bytes[D[k - 1] + 2] = Flip(payload[k])
          /\ payload[k] \notin Special => D[k] = D[k - 1] + 1 /\ bytes[D[k - 1] + 1] = payload[k]

LEMMA EscapedIs ==
    ASSUME NEW payload \in Seq(Byte)
    PROVE  /\ Escaped(payload) \in Seq(Byte)
           /\ \A i \in 1..Len(Escaped(payload)) : Escaped(payload)[i] # Hash
           /\ \E D \in [0..Len(payload) -> Nat] : Escapes(D, payload, Escaped(payload))
  <1> DEFINE n == Len(payload)
             bytes == Escaped(payload)
             es == [i \in 1..n |-> EscapedByte(payload[i])]
  <1>0. n \in Nat /\ DOMAIN payload = 1..n /\ (\A i \in 1..n : payload[i] \in Byte) /\ n \in 0..n /\ 0 \in 0..n
    OBVIOUS
  <1>1. ASSUME NEW i \in 1..n
        PROVE  /\ EscapedByte(payload[i]) \in Seq(Byte)
               /\ \A j \in 1..Len(EscapedByte(payload[i])) : EscapedByte(payload[i])[j] # Hash
    BY <1>0, EscapedByteIs
  <1>2. es \in Seq(Seq(Byte)) /\ Len(es) = n /\ \A i \in 1..n : es[i] = EscapedByte(payload[i])
    <2> DEFINE X == Seq(Byte)
    <2>1. \A i \in 1..n : EscapedByte(payload[i]) \in X
      BY <1>1
    <2> HIDE DEF X
    <2>2. es \in Seq(X) /\ Len(es) = n /\ \A i \in 1..n : es[i] = EscapedByte(payload[i])
      BY <1>0, <2>1
    <2> QED BY <2>2 DEF X
  <1>3. bytes = FlattenSeq(es)
    BY <1>0 DEF Escaped, EscapedByte
  <1> HIDE DEF n, es, bytes
  <1>4. PICK F \in [0..n -> Seq(Byte)] : Joins(F, es) /\ F[n] = bytes
    <2>1. \E F \in [0..Len(es) -> Seq(Byte)] : Joins(F, es) /\ F[Len(es)] = FlattenSeq(es)
      BY <1>2, FlattenSteps
    <2> QED BY <1>2, <1>3, <2>1
  <1>5. ASSUME NEW k \in 1..n
        PROVE  /\ F[k] = F[k - 1] \o es[k] /\ F[k - 1] \in Seq(Byte) /\ es[k] \in Seq(Byte)
               /\ Len(F[k - 1]) \in Nat /\ Len(es[k]) \in Nat
               /\ F[k] \in Seq(Byte) /\ k - 1 \in 0..n /\ k \in 0..n
               /\ Len(F[k]) = Len(F[k - 1]) + Len(es[k])
               /\ \A i \in 1..Len(F[k - 1]) : F[k][i] = F[k - 1][i]
               /\ \A i \in 1..Len(es[k]) : F[k][Len(F[k - 1]) + i] = es[k][i]
               /\ Len(F[k]) <= Len(bytes) /\ \A i \in 1..Len(F[k]) : bytes[i] = F[k][i]
    <2>1. k - 1 \in 0..n /\ k \in 0..n /\ n \in k..n
      BY <1>0
    <2>2. F[k] = F[k - 1] \o es[k]
      BY <1>2, <1>4 DEF Joins
    <2>3. F[k - 1] \in Seq(Byte) /\ F[k] \in Seq(Byte)
      BY <2>1
    <2>4. es[k] \in Seq(Byte)
      BY <1>1, <1>2
    <2>5. Len(F[k]) <= Len(F[n]) /\ \A i \in 1..Len(F[k]) : F[n][i] = F[k][i]
      <3>1. /\ F \in [0..Len(es) -> Seq(Byte)] /\ Joins(F, es)
            /\ k \in 0..Len(es) /\ n \in k..Len(es)
        BY <1>2, <1>4, <2>1
      <3>2. es \in Seq(Seq(Byte))
        BY <1>2
      <3>3. Begins(F[k], F[n])
        BY <3>1, <3>2, FlattenPrefix
      <3> QED BY <3>3 DEF Begins
    <2> DEFINE x == F[k - 1]
               y == es[k]
    <2>6. x \in Seq(Byte) /\ y \in Seq(Byte)
      BY <2>3, <2>4
    <2> HIDE DEF x, y
    <2>7. /\ Len(x \o y) = Len(x) + Len(y)
          /\ \A i \in 1..Len(x) : (x \o y)[i] = x[i]
          /\ \A i \in 1..Len(y) : (x \o y)[Len(x) + i] = y[i]
      BY <2>6, ConcatType
    <2>8. Len(x) \in Nat /\ Len(y) \in Nat
      BY <2>6
    <2> QED BY <1>4, <2>1, <2>2, <2>3, <2>4, <2>5, <2>7, <2>8 DEF x, y
  <1>6. bytes \in Seq(Byte) /\ F[0] = <<>>
    BY <1>0, <1>4 DEF Joins
  <1>7. \A i \in 1..Len(bytes) : bytes[i] # Hash
    <2> DEFINE Clean(x) == \A i \in 1..Len(x) : x[i] # Hash
               G == {k \in 0..n : Clean(F[k])}
    <2>1. 0 \in G
      <3>1. Len(F[0]) = 0
        BY <1>6
      <3> QED BY <1>0, <3>1
    <2>2. ASSUME NEW k \in G, k \in 0..(n - 1) PROVE k + 1 \in G
      <3> DEFINE m == k + 1
                 a == Len(F[k])
                 b == Len(es[m])
      <3>1. m \in 1..n /\ m - 1 = k /\ m \in 0..n
        BY <1>0, <2>2
      <3>2. Clean(F[k])
        OBVIOUS
      <3> HIDE DEF m
      <3>3. /\ Len(F[m]) = a + b /\ a \in Nat /\ b \in Nat
            /\ \A i \in 1..a : F[m][i] = F[k][i]
            /\ \A i \in 1..b : F[m][a + i] = es[m][i]
        <4>1. F[m - 1] = F[k]
          BY <3>1
        <4> QED BY <1>5, <3>1, <4>1
      <3>4. \A i \in 1..b : es[m][i] # Hash
        BY <1>1, <1>2, <3>1
      <3>5. ASSUME NEW i \in 1..Len(F[m]) PROVE F[m][i] # Hash
        <4>1. CASE i <= a
          BY <3>2, <3>3, <4>1
        <4>2. CASE i > a
          <5>1. i - a \in 1..b /\ a + (i - a) = i
            BY <3>3, <4>2
          <5> HIDE DEF a, b
          <5> QED BY <3>3, <3>4, <5>1
        <4> QED BY <3>3, <4>1, <4>2
      <3>6. Clean(F[m])
        BY <3>5
      <3> HIDE DEF Clean
      <3> QED BY <3>1, <3>6 DEF m
    <2>3. 0..n \subseteq G
      <3> HIDE DEF G
      <3> QED BY <1>0, <2>1, <2>2, UpTo
    <2>4. Clean(F[n])
      <3> HIDE DEF Clean
      <3> QED BY <1>0, <2>3
    <2> QED BY <1>4, <2>4
  <1> DEFINE D == [k \in 0..n |-> Len(F[k])]
  <1>8. ASSUME NEW k \in 0..n PROVE D[k] = Len(F[k]) /\ D[k] \in Nat
    <2>1. F[k] \in Seq(Byte)
      OBVIOUS
    <2> QED BY <2>1
  <1>9. D \in [0..n -> Nat]
    BY <1>8
  <1> HIDE DEF D
  <1>10. D[0] = 0 /\ D[n] = Len(bytes)
    BY <1>0, <1>4, <1>6, <1>8
  <1>11. ASSUME NEW k \in 1..n
         PROVE  /\ D[k] <= Len(bytes)
                /\ payload[k] \in Special => /\ D[k] = D[k - 1] + 2
                                             /\ bytes[D[k - 1] + 1] = Brace
                                             /\ bytes[D[k - 1] + 2] = Flip(payload[k])
                /\ payload[k] \notin Special => D[k] = D[k - 1] + 1 /\ bytes[D[k - 1] + 1] = payload[k]
    <2> DEFINE a == D[k - 1]
               b == Len(es[k])
    <2>1. /\ D[k] = a + b /\ a \in Nat /\ b \in Nat /\ D[k] <= Len(bytes)
          /\ \A i \in 1..b : bytes[a + i] = es[k][i]
      <3>1. a = Len(F[k - 1]) /\ D[k] = Len(F[k]) /\ a \in Nat
        BY <1>5, <1>8
      <3>0. b \in Nat /\ Len(F[k]) = Len(F[k - 1]) + b /\ Len(F[k]) <= Len(bytes)
        BY <1>5
      <3>2. b \in Nat /\ Len(F[k]) = a + b /\ Len(F[k]) <= Len(bytes)
        BY <3>0, <3>1
      <3>3. ASSUME NEW i \in 1..b PROVE bytes[a + i] = es[k][i]
        <4>1. a + i \in 1..Len(F[k])
          <5> HIDE DEF a, b
          <5> QED BY <3>1, <3>2
        <4>2. bytes[a + i] = F[k][a + i]
          BY <1>5, <4>1
        <4>3. F[k][a + i] = es[k][i]
          BY <1>5, <3>1
        <4> QED BY <4>2, <4>3
      <3> QED BY <3>1, <3>2, <3>3
    <2>2. payload[k] \in Byte /\ es[k] = EscapedByte(payload[k])
      BY <1>0, <1>2
    <2>3. CASE payload[k] \in Special
      <3>1. b = 2 /\ es[k][1] = Brace /\ es[k][2] = Flip(payload[k])
        BY <2>2, <2>3, EscapedByteIs
      <3> HIDE DEF a, b
      <3>2. bytes[a + 1] = Brace /\ bytes[a + 2] = Flip(payload[k])
        BY <2>1, <3>1
      <3> QED BY <2>1, <2>3, <3>1, <3>2 DEF a
    <2>4. CASE payload[k] \notin Special
      <3>1. b = 1 /\ es[k][1] = payload[k]
        BY <2>2, <2>4, EscapedByteIs
      <3> HIDE DEF a, b
      <3>2. bytes[a + 1] = payload[k]
        BY <2>1, <3>1
      <3> QED BY <2>1, <2>4, <3>1, <3>2 DEF a
    <2> QED BY <2>3, <2>4
  <1>12. Escapes(D, payload, bytes)
    BY <1>10, <1>11 DEF Escapes, n
  <1> QED BY <1>6, <1>7, <1>9, <1>12 DEF n, bytes

LEMMA UnescapesEscape ==
    ASSUME NEW bytes \in Seq(Byte), NEW out, NEW i \in Nat, i + 2 <= Len(bytes), bytes[i + 1] = Brace
    PROVE  /\ Unescapes(bytes, [out |-> out, skip |-> FALSE], i + 1)
               = [out |-> Append(out, Flip(bytes[i + 2])), skip |-> TRUE]
           /\ \A s : Unescapes(bytes, [out |-> s, skip |-> TRUE], i + 2) = [out |-> s, skip |-> FALSE]
  <1>1. i + 1 < Len(bytes) /\ (i + 1) + 1 = i + 2
    OBVIOUS
  <1> QED BY <1>1 DEF Unescapes

LEMMA UnescapesPlain ==
    ASSUME NEW bytes \in Seq(Byte), NEW out, NEW i \in Nat, bytes[i + 1] \notin Special
    PROVE  Unescapes(bytes, [out |-> out, skip |-> FALSE], i + 1)
             = [out |-> Append(out, bytes[i + 1]), skip |-> FALSE]
  <1>1. bytes[i + 1] # Brace /\ bytes[i + 1] # Star
    BY DEF Special
  <1> QED BY <1>1 DEF Unescapes

\* A payload comes out of its packet as it was put in.
LEMMA RoundTrip ==
    ASSUME NEW payload \in Seq(Byte)
    PROVE  unescapePayload(Escaped(payload)) = payload
  <1> DEFINE n == Len(payload)
             bytes == Escaped(payload)
             L == Len(bytes)
             State(k) == [out |-> Upto(payload, k), skip |-> FALSE]
  <1>0. n \in Nat /\ n \in 0..n /\ 0 \in 0..n /\ (\A i \in 1..n : payload[i] \in Byte)
    OBVIOUS
  <1>1. bytes \in Seq(Byte) /\ L \in Nat
    BY EscapedIs
  <1>2. PICK D \in [0..n -> Nat] : Escapes(D, payload, bytes)
    BY EscapedIs
  <1>3. Upto(payload, 0) = <<>> /\ Upto(payload, n) = payload
    BY UptoIs
  <1>4. ASSUME NEW k \in 0..(n - 1)
        PROVE  /\ Upto(payload, k + 1) = Append(Upto(payload, k), payload[k + 1])
               /\ payload[k + 1] \in Byte /\ k + 1 \in 1..n /\ (k + 1) - 1 = k /\ k \in 0..n /\ k + 1 \in 0..n
    <2>1. k + 1 \in 1..n /\ (k + 1) - 1 = k /\ k \in 0..n /\ k + 1 \in 0..n
      BY <1>0
    <2> QED BY <2>1, UptoIs
  <1> HIDE DEF bytes
  <1>5. PICK U \in [0..L -> Unescaping] :
           /\ U[0] = Unescaped /\ \A i \in 1..L : U[i] = Unescapes(bytes, U[i - 1], i)
           /\ U[L].out = unescapePayload(bytes)
    BY <1>1, UnescapeFolds
  <1> HIDE DEF n, L
  <1> DEFINE G == {k \in 0..n : U[D[k]] = State(k)}
  <1>6. 0 \in G
    BY <1>0, <1>2, <1>3, <1>5 DEF Escapes, Unescaped
  <1>7. ASSUME NEW k \in G, k \in 0..(n - 1) PROVE k + 1 \in G
    <2> DEFINE m == k + 1
               b == payload[m]
               out == Upto(payload, k)
               i == D[k]
    <2>1. /\ Upto(payload, m) = Append(out, b) /\ b \in Byte /\ m \in 1..n /\ m - 1 = k /\ m \in 0..n
          /\ i \in Nat
      BY <1>4, <1>7
    <2>2. U[i] = [out |-> out, skip |-> FALSE]
      OBVIOUS
    <2> HIDE DEF m
    <2>3. /\ D[m] <= L
          /\ b \in Special => D[m] = i + 2 /\ bytes[i + 1] = Brace /\ bytes[i + 2] = Flip(b)
          /\ b \notin Special => D[m] = i + 1 /\ bytes[i + 1] = b
      BY <1>2, <2>1 DEF Escapes, n, L
    <2> HIDE DEF out, i, b
    <2>4. U[D[m]] = [out |-> Append(out, b), skip |-> FALSE]
      <3>1. CASE b \in Special
        <4>1. i + 1 \in 1..L /\ i + 2 \in 1..L /\ (i + 1) - 1 = i /\ (i + 2) - 1 = i + 1 /\ i + 2 <= Len(bytes)
          BY <1>1, <2>1, <2>3, <3>1 DEF L
        <4>2. U[i + 1] = Unescapes(bytes, [out |-> out, skip |-> FALSE], i + 1)
          BY <1>5, <2>2, <4>1
        <4>3. U[i + 2] = Unescapes(bytes, U[i + 1], i + 2)
          BY <1>5, <4>1
        <4>4. /\ Unescapes(bytes, [out |-> out, skip |-> FALSE], i + 1)
                  = [out |-> Append(out, Flip(bytes[i + 2])), skip |-> TRUE]
              /\ \A s : Unescapes(bytes, [out |-> s, skip |-> TRUE], i + 2) = [out |-> s, skip |-> FALSE]
          BY <1>1, <2>1, <2>3, <3>1, <4>1, UnescapesEscape
        <4>5. Flip(bytes[i + 2]) = b
          BY <2>3, <3>1, FlipIs
        <4> QED BY <2>3, <3>1, <4>2, <4>3, <4>4, <4>5
      <3>2. CASE b \notin Special
        <4>1. i + 1 \in 1..L /\ (i + 1) - 1 = i
          BY <1>1, <2>1, <2>3, <3>2 DEF L
        <4>2. U[i + 1] = Unescapes(bytes, [out |-> out, skip |-> FALSE], i + 1)
          BY <1>5, <2>2, <4>1
        <4>3. Unescapes(bytes, [out |-> out, skip |-> FALSE], i + 1) = [out |-> Append(out, b), skip |-> FALSE]
          BY <1>1, <2>1, <2>3, <3>2, UnescapesPlain
        <4> QED BY <2>3, <3>2, <4>2, <4>3
      <3> QED BY <3>1, <3>2
    <2>5. U[D[m]] = State(m)
      BY <2>1, <2>4
    <2> QED BY <2>1, <2>5 DEF m
  <1>8. U[D[n]] = State(n)
    <2>1. 0..n \subseteq G
      <3> HIDE DEF G
      <3> QED BY <1>0, <1>6, <1>7, UpTo
    <2> QED BY <1>0, <2>1
  <1>9. D[n] = L
    BY <1>2 DEF Escapes, n, L
  <1> QED BY <1>3, <1>5, <1>8, <1>9 DEF bytes

-----------------------------------------------------------------------------
(* The parser, byte by byte *)

ItemType == [kind : {"packet", "interrupt", "ack", "nack"}, payload : Seq(Int), good : BOOLEAN]
ParserType == [state : {"idle", "payload", "csum1", "csum2"}, buf : Seq(Byte), sum : Byte, csum : Int]
Feeds == [parser : ParserType, items : Seq(ItemType), acks : Seq({"+", "-"})]

LEMMA IdleType == Idle \in ParserType /\ Idle.state = "idle" /\ Idle.buf = <<>> /\ Idle.sum = 0
  BY DEF Idle, ParserType, Byte

LEMMA FeedsIs ==
    ASSUME NEW s \in Feeds
    PROVE  /\ s.parser \in ParserType /\ s.items \in Seq(ItemType) /\ s.acks \in Seq({"+", "-"})
           /\ s.parser.state \in {"idle", "payload", "csum1", "csum2"} /\ s.parser.buf \in Seq(Byte)
           /\ s.parser.sum \in Byte /\ s.parser.csum \in Int
  BY DEF Feeds, ParserType

LEMMA ValueType == ASSUME NEW b \in Byte PROVE Value(b) \in Int
  BY DEF Value, Byte

\* An item that is heeded
LEMMA HeedsIs ==
    ASSUME NEW s \in Feeds, NEW item \in ItemType
    PROVE  /\ Heeds(s, item) \in Feeds /\ Heeds(s, item).parser = s.parser
           /\ item.kind = "interrupt" => /\ Heeds(s, item).items = Append(s.items, item)
                                         /\ Heeds(s, item).acks = s.acks
           /\ item.kind = "packet" /\ item.good => /\ Heeds(s, item).items = Append(s.items, item)
                                                   /\ Heeds(s, item).acks = Append(s.acks, "+")
           /\ item.kind = "packet" /\ ~item.good => /\ Heeds(s, item).items = s.items
                                                    /\ Heeds(s, item).acks = Append(s.acks, "-")
           /\ item.kind \in {"ack", "nack"} => Heeds(s, item) = s
  <1>0. /\ s.items \in Seq(ItemType) /\ s.acks \in Seq({"+", "-"})
        /\ item.kind \in {"packet", "interrupt", "ack", "nack"} /\ item.good \in BOOLEAN
    BY FeedsIs DEF ItemType
  <1>1. Append(s.items, item) \in Seq(ItemType)
    BY <1>0, AppendType
  <1>2. Append(s.acks, "+") \in Seq({"+", "-"}) /\ Append(s.acks, "-") \in Seq({"+", "-"})
    <2> DEFINE X == {"+", "-"}
    <2>1. s.acks \in Seq(X) /\ "+" \in X /\ "-" \in X
      BY <1>0
    <2> HIDE DEF X
    <2>2. Append(s.acks, "+") \in Seq(X) /\ Append(s.acks, "-") \in Seq(X)
      BY <2>1, AppendType
    <2> QED BY <2>2 DEF X
  <1> DEFINE its == Append(s.items, item)
             yes == Append(s.acks, "+")
             no == Append(s.acks, "-")
  <1>3. CASE item.kind = "interrupt"
    <2>1. Heeds(s, item) = [s EXCEPT !.items = its]
      BY <1>3 DEF Heeds
    <2>2. its \in Seq(ItemType)
      BY <1>1
    <2> HIDE DEF its
    <2>3. Heeds(s, item) \in Feeds /\ Heeds(s, item).parser = s.parser
          /\ Heeds(s, item).items = its /\ Heeds(s, item).acks = s.acks
      BY <2>1, <2>2 DEF Feeds
    <2> QED BY <1>3, <2>3 DEF its
  <1>4. CASE item.kind = "packet" /\ item.good
    <2>1. Heeds(s, item) = [s EXCEPT !.items = its, !.acks = yes]
      BY <1>4 DEF Heeds
    <2>2. its \in Seq(ItemType) /\ yes \in Seq({"+", "-"})
      BY <1>1, <1>2
    <2> HIDE DEF its, yes
    <2>3. Heeds(s, item) \in Feeds /\ Heeds(s, item).parser = s.parser
          /\ Heeds(s, item).items = its /\ Heeds(s, item).acks = yes
      BY <2>1, <2>2 DEF Feeds
    <2> QED BY <1>4, <2>3 DEF its, yes
  <1>5. CASE item.kind = "packet" /\ ~item.good
    <2>1. Heeds(s, item) = [s EXCEPT !.items = s.items, !.acks = no]
      BY <1>5 DEF Heeds
    <2>2. no \in Seq({"+", "-"})
      BY <1>2
    <2> HIDE DEF no
    <2>3. Heeds(s, item) \in Feeds /\ Heeds(s, item).parser = s.parser
          /\ Heeds(s, item).items = s.items /\ Heeds(s, item).acks = no
      BY <1>0, <2>1, <2>2 DEF Feeds
    <2> QED BY <1>5, <2>3 DEF no
  <1>6. CASE item.kind \in {"ack", "nack"}
    <2>1. Heeds(s, item) = s
      BY <1>6 DEF Heeds
    <2> QED BY <1>6, <2>1
  <1> QED BY <1>0, <1>3, <1>4, <1>5, <1>6

LEMMA SignsIs ==
    /\ DOMAIN Signs = {43, 45, 3} /\ Signs[43] = "ack" /\ Signs[45] = "nack" /\ Signs[3] = "interrupt"
    /\ \A kind \in {"ack", "nack", "interrupt"} : /\ Item(kind) \in ItemType /\ Item(kind).kind = kind
                                                  /\ Item(kind).payload = <<>>
  <1>1. /\ DOMAIN Signs = {43, 45, 3} /\ Signs[43] = "ack" /\ Signs[45] = "nack" /\ Signs[3] = "interrupt"
    BY DEF Signs
  <1>2. ASSUME NEW kind \in {"ack", "nack", "interrupt"}
        PROVE  Item(kind) \in ItemType /\ Item(kind).kind = kind /\ Item(kind).payload = <<>>
    BY DEF Item, ItemType
  <1> QED BY <1>1, <1>2

\* One byte between packets
LEMMA ParsesIdle ==
    ASSUME NEW s \in Feeds, s.parser.state = "idle", NEW b \in Byte
    PROVE  /\ Parses(s, b) \in Feeds
           /\ b = Dollar => /\ Parses(s, b).parser.state = "payload" /\ Parses(s, b).parser.buf = <<>>
                            /\ Parses(s, b).parser.sum = 0
                            /\ Parses(s, b).items = s.items /\ Parses(s, b).acks = s.acks
           /\ b = 3 => /\ Parses(s, b).items = Append(s.items, Item("interrupt"))
                       /\ Parses(s, b).acks = s.acks /\ Parses(s, b).parser = s.parser
           /\ b = 43 \/ b \notin {Dollar} \cup DOMAIN Signs => Parses(s, b) = s
  <1>0. Dollar \notin {43, 45, 3}
    BY DEF Dollar
  <1>1. CASE b = Dollar
    <2> DEFINE q == [Idle EXCEPT !.state = "payload"]
    <2>1. Parses(s, b) = [s EXCEPT !.parser = q]
      BY <1>1 DEF Parses
    <2>2. q \in ParserType /\ q.state = "payload" /\ q.buf = <<>> /\ q.sum = 0
      BY IdleType DEF ParserType
    <2> HIDE DEF q
    <2>3. /\ Parses(s, b) \in Feeds /\ Parses(s, b).parser = q
          /\ Parses(s, b).items = s.items /\ Parses(s, b).acks = s.acks
      BY <2>1, <2>2 DEF Feeds
    <2> QED BY <1>0, <1>1, <2>2, <2>3, SignsIs
  <1>2. CASE b \in DOMAIN Signs
    <2>0. b \in {43, 45, 3} /\ b # Dollar
      BY <1>0, <1>2, SignsIs
    <2> DEFINE kind == Signs[b]
    <2>1. kind \in {"ack", "nack", "interrupt"}
      BY <2>0, SignsIs
    <2>2. Parses(s, b) = Heeds(s, Item(kind))
      BY <1>2, <2>0 DEF Parses
    <2>a. b = 43 => kind = "ack"
      BY SignsIs
    <2>b. b = 3 => kind = "interrupt"
      BY SignsIs
    <2> HIDE DEF kind
    <2>3. Item(kind) \in ItemType /\ Item(kind).kind = kind
      BY <2>1, SignsIs
    <2>4. /\ Parses(s, b) \in Feeds
          /\ kind = "ack" => Parses(s, b) = s
          /\ kind = "interrupt" => /\ Parses(s, b).items = Append(s.items, Item(kind))
                                   /\ Parses(s, b).acks = s.acks /\ Parses(s, b).parser = s.parser
      BY <2>2, <2>3, HeedsIs
    <2> QED BY <1>2, <2>0, <2>a, <2>b, <2>4
  <1>3. CASE b \notin {Dollar} \cup DOMAIN Signs
    <2>1. Parses(s, b) = s
      BY <1>3 DEF Parses
    <2> QED BY <1>3, <2>1, SignsIs
  <1> QED BY <1>1, <1>2, <1>3

\* One byte of a packet
LEMMA ParsesPacket ==
    ASSUME NEW s \in Feeds, s.parser.state # "idle", NEW b \in Byte
    PROVE  /\ Parses(s, b) \in Feeds
           /\ s.parser.state # "csum2" => Parses(s, b).items = s.items /\ Parses(s, b).acks = s.acks
           /\ s.parser.state = "payload" /\ b = Hash =>
                 /\ Parses(s, b).parser.state = "csum1" /\ Parses(s, b).parser.buf = s.parser.buf
                 /\ Parses(s, b).parser.sum = s.parser.sum
           /\ s.parser.state = "payload" /\ b # Hash =>
                 /\ Parses(s, b).parser.state = "payload"
                 /\ Parses(s, b).parser.buf = Append(s.parser.buf, b)
                 /\ Parses(s, b).parser.sum = (s.parser.sum + b) % 256
           /\ s.parser.state = "csum1" =>
                 /\ Parses(s, b).parser.state = "csum2" /\ Parses(s, b).parser.buf = s.parser.buf
                 /\ Parses(s, b).parser.sum = s.parser.sum /\ Parses(s, b).parser.csum = Value(b)
  <1> DEFINE p == s.parser
  <1>0. p \in ParserType /\ p.state \in {"idle", "payload", "csum1", "csum2"} /\ p.buf \in Seq(Byte)
        /\ p.sum \in Byte /\ p.csum \in Int
    BY FeedsIs
  <1>1. ASSUME NEW q \in ParserType
        PROVE  LET r == [s EXCEPT !.parser = q]
               IN  r \in Feeds /\ r.parser = q /\ r.items = s.items /\ r.acks = s.acks
    BY DEF Feeds
  <1>2. CASE p.state = "payload" /\ b = Hash
    <2> DEFINE q == [p EXCEPT !.state = "csum1"]
    <2>1. Parses(s, b) = [s EXCEPT !.parser = q]
      BY <1>2 DEF Parses
    <2> HIDE DEF p
    <2>2. q \in ParserType /\ q.state = "csum1" /\ q.buf = p.buf /\ q.sum = p.sum
      BY <1>0 DEF ParserType
    <2> HIDE DEF q
    <2> QED BY <1>1, <1>2, <2>1, <2>2 DEF p
  <1>3. CASE p.state = "payload" /\ b # Hash
    <2> DEFINE buf == Append(p.buf, b)
               sum == (p.sum + b) % 256
               q == [p EXCEPT !.buf = buf, !.sum = sum]
    <2>1. Parses(s, b) = [s EXCEPT !.parser = q]
      BY <1>3 DEF Parses
    <2>2. buf \in Seq(Byte)
      BY <1>0, AppendType
    <2>3. sum \in Byte
      <3> DEFINE x == p.sum
      <3>1. x \in Byte
        BY <1>0
      <3> HIDE DEF x
      <3>2. (x + b) % 256 \in Byte
        BY <3>1 DEF Byte
      <3> QED BY <3>2 DEF x
    <2> HIDE DEF p, buf, sum
    <2>4. q \in ParserType /\ q.state = p.state /\ q.buf = buf /\ q.sum = sum
      BY <1>0, <2>2, <2>3 DEF ParserType
    <2> HIDE DEF q
    <2> QED BY <1>1, <1>3, <2>1, <2>4 DEF p, buf, sum
  <1>4. CASE p.state = "csum1"
    <2> DEFINE v == Value(b)
               q == [p EXCEPT !.state = "csum2", !.csum = v]
    <2>1. Parses(s, b) = [s EXCEPT !.parser = q]
      BY <1>4 DEF Parses
    <2>2. v \in Int
      BY ValueType
    <2> HIDE DEF p, v
    <2>3. q \in ParserType /\ q.state = "csum2" /\ q.buf = p.buf /\ q.sum = p.sum /\ q.csum = v
      BY <1>0, <2>2 DEF ParserType
    <2> HIDE DEF q
    <2> QED BY <1>1, <1>4, <2>1, <2>3 DEF p, v
  <1>5. CASE p.state = "csum2"
    <2> DEFINE item == Packet(unescapePayload(p.buf), p.csum * 16 + Value(b) = p.sum)
    <2>1. Parses(s, b) = Heeds([s EXCEPT !.parser = Idle], item)
      BY <1>5 DEF Parses
    <2>2. item \in ItemType
      <3>1. unescapePayload(p.buf) \in Seq(Int)
        BY <1>0, UnescapedType
      <3>2. (p.csum * 16 + Value(b) = p.sum) \in BOOLEAN
        OBVIOUS
      <3> QED BY <3>1, <3>2 DEF Packet, ItemType
    <2> HIDE DEF item
    <2>3. [s EXCEPT !.parser = Idle] \in Feeds
      BY <1>1, IdleType
    <2>4. Parses(s, b) \in Feeds
      BY <2>1, <2>2, <2>3, HeedsIs
    <2> QED BY <1>5, <2>4
  <1> QED BY <1>0, <1>2, <1>3, <1>4, <1>5

Checked(s, b) == s.parser.csum * 16 + Value(b) = s.parser.sum

\* The last byte of a packet
LEMMA ParsesLast ==
    ASSUME NEW s \in Feeds, s.parser.state = "csum2", NEW b \in Byte
    PROVE  /\ Parses(s, b).parser = Idle
           /\ Checked(s, b) =>
                 /\ Parses(s, b).items = Append(s.items, Packet(unescapePayload(s.parser.buf), TRUE))
                 /\ Parses(s, b).acks = Append(s.acks, "+")
           /\ ~Checked(s, b) => /\ Parses(s, b).items = s.items
                                    /\ Parses(s, b).acks = Append(s.acks, "-")
  <1> DEFINE p == s.parser
             payload == unescapePayload(p.buf)
             good == p.csum * 16 + Value(b) = p.sum
             item == Packet(payload, good)
             s1 == [s EXCEPT !.parser = Idle]
  <1>0. p.buf \in Seq(Byte)
    BY FeedsIs
  <1>1. Parses(s, b) = Heeds(s1, item)
    BY DEF Parses
  <1>2. payload \in Seq(Int)
    BY <1>0, UnescapedType
  <1>3. s1 \in Feeds /\ s1.parser = Idle /\ s1.items = s.items /\ s1.acks = s.acks
    BY IdleType DEF Feeds
  <1>4. good \in BOOLEAN
    OBVIOUS
  <1>5. good <=> Checked(s, b)
    BY DEF Checked
  <1> HIDE DEF payload, good, s1
  <1>6. /\ item \in ItemType /\ item.kind = "packet" /\ item.good = good
        /\ good => item = Packet(payload, TRUE)
    BY <1>2, <1>4 DEF Packet, ItemType
  <1> HIDE DEF item
  <1>7. /\ Heeds(s1, item).parser = s1.parser
        /\ good => /\ Heeds(s1, item).items = Append(s1.items, item)
                   /\ Heeds(s1, item).acks = Append(s1.acks, "+")
        /\ ~good => /\ Heeds(s1, item).items = s1.items
                    /\ Heeds(s1, item).acks = Append(s1.acks, "-")
    BY <1>3, <1>6, HeedsIs
  <1> QED BY <1>1, <1>3, <1>5, <1>6, <1>7 DEF payload

LEMMA ParsesType == ASSUME NEW s \in Feeds, NEW b \in Byte PROVE Parses(s, b) \in Feeds
  BY ParsesIdle, ParsesPacket

\* What the parser makes of s with bytes.
After(s, bytes) == FoldLeft(Parses, s, bytes)
Parse == [s \in Feeds |-> [b \in Byte |-> Parses(s, b)]]
ParseBy(f, s, bytes) ==
    f = [t \in SUBSET (1..Len(bytes)) |->
            IF t = {} THEN s ELSE Parses(f[t \ {MaxOf(t)}], bytes[MaxOf(t)])]

LEMMA ParseIs ==
    /\ Closed(Parse, Feeds, Byte)
    /\ \A s \in Feeds, b \in Byte : Parse[s][b] = Parses(s, b)
  <1>1. \A s \in Feeds, b \in Byte : Parse[s][b] = Parses(s, b)
    BY DEF Parse
  <1>2. ASSUME NEW s \in Feeds, NEW b \in Byte PROVE Parse[s][b] \in Feeds
    <2>1. Parses(s, b) \in Feeds
      BY ParsesType
    <2> QED BY <1>1, <2>1
  <1>3. Closed(Parse, Feeds, Byte)
    BY <1>2, Zenon DEF Closed
  <1> QED BY <1>1, <1>3

LEMMA ParseFolds ==
    ASSUME NEW s \in Feeds, NEW bytes \in Seq(Byte)
    PROVE  \E F \in [0..Len(bytes) -> Feeds] : Steps(F, Parse, s, bytes) /\ F[Len(bytes)] = After(s, bytes)
  <1> DEFINE L == Len(bytes)
             Next1(f, t) == Parses(f[t \ {MaxOf(t)}], bytes[MaxOf(t)])
  <1>0. L \in Nat /\ DOMAIN bytes = 1..L /\ {} \in SUBSET (1..L)
    OBVIOUS
  <1>1. \A x \in Feeds, b \in Byte : Parse[x][b] = Parses(x, b)
    BY ParseIs
  <1>2. PICK h : /\ h = [t \in SUBSET (1..Len(bytes)) |-> h[t]] /\ h[{}] = s
                 /\ \A t \in SUBSET (1..Len(bytes)) :
                       t # {} => /\ h[t] = Parse[h[t \ {MaxOf(t)}]][bytes[MaxOf(t)]]
                                 /\ h[t \ {MaxOf(t)}] \in Feeds /\ bytes[MaxOf(t)] \in Byte
    <2>1. \E h : Total(h, Feeds, Byte, Parse, s, bytes)
      BY ParseIs, FoldTotal
    <2> QED BY <2>1 DEF Total
  <1>3. ParseBy(h, s, bytes)
    <2>1. ASSUME NEW t \in SUBSET (1..L) PROVE h[t] = IF t = {} THEN s ELSE Next1(h, t)
      <3>1. CASE t # {}
        <4> DEFINE x == h[t \ {MaxOf(t)}]
                   y == bytes[MaxOf(t)]
        <4>1. h[t] = Parse[x][y] /\ x \in Feeds /\ y \in Byte
          BY <1>2, <3>1
        <4> HIDE DEF x, y
        <4>2. h[t] = Parses(x, y)
          BY <1>1, <4>1
        <4> QED BY <3>1, <4>2 DEF x, y
      <3> QED BY <1>2, <3>1
    <2>2. [t \in SUBSET (1..L) |-> h[t]] = [t \in SUBSET (1..L) |-> IF t = {} THEN s ELSE Next1(h, t)]
      BY <2>1
    <2> QED BY <1>2, <2>2 DEF ParseBy
  <1> DEFINE f == CHOOSE f : ParseBy(f, s, bytes)
  <1>4. ParseBy(f, s, bytes)
    BY <1>3
  <1>5. After(s, bytes) = f[1..L]
    BY <1>0 DEF After, ParseBy, FoldLeft, MapThenFoldSet, MaxOf, Max
  <1> HIDE DEF f
  <1>6. Follows(f, Feeds, Parse, s, bytes)
    <2>1. ASSUME NEW t \in SUBSET (1..L) PROVE f[t] = IF t = {} THEN s ELSE Next1(f, t)
      BY <1>4 DEF ParseBy
    <2>2. ASSUME NEW t \in SUBSET (1..L), t # {}, f[t \ {MaxOf(t)}] \in Feeds
          PROVE  f[t] = Parse[f[t \ {MaxOf(t)}]][bytes[MaxOf(t)]]
      <3>1. bytes[MaxOf(t)] \in Byte
        <4>1. MaxOf(t) \in 1..L
          BY <1>0, <2>2, MaxIn
        <4> QED BY <4>1
      <3> DEFINE x == f[t \ {MaxOf(t)}]
                 y == bytes[MaxOf(t)]
      <3>2. f[t] = Parses(x, y)
        BY <2>1, <2>2
      <3>3. x \in Feeds /\ y \in Byte
        BY <2>2, <3>1
      <3> HIDE DEF x, y
      <3>4. f[t] = Parse[x][y]
        BY <1>1, <3>2, <3>3
      <3> QED BY <3>4 DEF x, y
    <2>3. f[{}] = s
      BY <1>0, <2>1
    <2> QED BY <2>2, <2>3 DEF Follows
  <1>7. \E F \in [0..Len(bytes) -> Feeds] : Steps(F, Parse, s, bytes) /\ F[Len(bytes)] = f[1..Len(bytes)]
    BY <1>6, ParseIs, FoldFrom
  <1> QED BY <1>5, <1>7

LEMMA AfterAppend ==
    ASSUME NEW s \in Feeds, NEW bytes \in Seq(Byte), NEW b \in Byte
    PROVE  After(s, Append(bytes, b)) = Parses(After(s, bytes), b) /\ After(s, bytes) \in Feeds
  <1> DEFINE t == Append(bytes, b)
  <1>1. PICK E \in [0..Len(bytes) -> Feeds] : Steps(E, Parse, s, bytes) /\ E[Len(bytes)] = After(s, bytes)
    BY ParseFolds
  <1>2. t \in Seq(Byte)
    BY AppendType
  <1>3. PICK F \in [0..Len(t) -> Feeds] : Steps(F, Parse, s, t) /\ F[Len(t)] = After(s, t)
    <2> HIDE DEF t
    <2> QED BY <1>2, ParseFolds
  <1>4. F[Len(t)] = Parse[E[Len(bytes)]][b] /\ E[Len(bytes)] \in Feeds
    BY <1>1, <1>3, ParseIs, StepsAppend
  <1> HIDE DEF t
  <1> QED BY <1>1, <1>3, <1>4, ParseIs DEF t

LEMMA AfterNothing == ASSUME NEW s \in Feeds PROVE After(s, <<>>) = s
  <1>1. <<>> \in Seq(Byte) /\ Len(<<>>) = 0
    OBVIOUS
  <1>2. PICK F \in [0..0 -> Feeds] : Steps(F, Parse, s, <<>>) /\ F[0] = After(s, <<>>)
    BY <1>1, ParseFolds
  <1> QED BY <1>2 DEF Steps

LEMMA AfterType == ASSUME NEW s \in Feeds, NEW bytes \in Seq(Byte) PROVE After(s, bytes) \in Feeds
  <1>1. PICK F \in [0..Len(bytes) -> Feeds] : F[Len(bytes)] = After(s, bytes)
    BY ParseFolds
  <1>2. Len(bytes) \in 0..Len(bytes)
    OBVIOUS
  <1>3. F[Len(bytes)] \in Feeds
    BY <1>2
  <1> QED BY <1>1, <1>3

\* The parser does not mind where the stream is cut.
LEMMA AfterMore ==
    ASSUME NEW s \in Feeds, NEW p \in Seq(Byte), NEW q \in Seq(Byte)
    PROVE  After(s, p \o q) = After(After(s, p), q)
  <1> DEFINE L == Len(q)
             a == After(s, p)
             G == {n \in 0..L : After(s, p \o Upto(q, n)) = After(a, Upto(q, n))}
  <1>0. L \in Nat /\ L \in 0..L /\ 0 \in 0..L /\ p \o <<>> = p
    OBVIOUS
  <1>a. a \in Feeds
    BY AfterType
  <1> HIDE DEF a
  <1>1. 0 \in G
    <2>1. Upto(q, 0) = <<>>
      BY UptoIs
    <2>2. After(a, <<>>) = a
      BY <1>a, AfterNothing
    <2> QED BY <1>0, <2>1, <2>2 DEF a
  <1>2. ASSUME NEW n \in G, n \in 0..(L - 1) PROVE n + 1 \in G
    <2> DEFINE u == Upto(q, n)
               c == q[n + 1]
    <2>1. After(s, p \o u) = After(a, u)
      OBVIOUS
    <2>2. u \in Seq(Byte) /\ Upto(q, n + 1) = Append(u, c) /\ c \in Byte /\ n + 1 \in 0..L
      BY <1>2, UptoIs
    <2> HIDE DEF u, c
    <2>3. p \o Append(u, c) = Append(p \o u, c) /\ p \o u \in Seq(Byte)
      BY <2>2
    <2>4. After(s, Append(p \o u, c)) = Parses(After(s, p \o u), c)
      BY <2>2, <2>3, AfterAppend
    <2>5. After(a, Append(u, c)) = Parses(After(a, u), c)
      BY <1>a, <2>2, AfterAppend
    <2> QED BY <2>1, <2>2, <2>3, <2>4, <2>5
  <1>3. After(s, p \o Upto(q, L)) = After(a, Upto(q, L))
    <2>1. 0..L \subseteq G
      <3> HIDE DEF G
      <3> QED BY <1>0, <1>1, <1>2, UpTo
    <2> QED BY <1>0, <2>1
  <1>4. Upto(q, L) = q
    BY UptoIs
  <1> QED BY <1>3, <1>4 DEF a

-----------------------------------------------------------------------------
(* What becomes of an item of the stream *)

\* Nothing is passed on, nor answered, before the last byte.
Quiet(s, bytes) ==
    \A n \in 0..(Len(bytes) - 1) : /\ After(s, Upto(bytes, n)).items = s.items
                                   /\ After(s, Upto(bytes, n)).acks = s.acks

Frames(bytes, body, d1, d2) ==
    LET m == Len(body)
    IN  /\ bytes \in Seq(Byte) /\ Len(bytes) = m + 4
        /\ bytes[1] = Dollar /\ bytes[m + 2] = Hash /\ bytes[m + 3] = d1 /\ bytes[m + 4] = d2
        /\ \A i \in 1..m : bytes[i + 1] = body[i]

LEMMA FrameIs ==
    ASSUME NEW body \in Seq(Byte), NEW d1 \in Byte, NEW d2 \in Byte
    PROVE  Frames(<<Dollar>> \o body \o <<Hash, d1, d2>>, body, d1, d2)
  <1> DEFINE a == <<Dollar>>
             z == <<Hash, d1, d2>>
             x == a \o body
             y == x \o z
             m == Len(body)
  <1>0. Dollar \in Byte /\ Hash \in Byte /\ m \in Nat
    BY DEF Dollar, Hash, Byte
  <1>1. a \in Seq(Byte) /\ Len(a) = 1 /\ a[1] = Dollar
    BY <1>0
  <1>2. z \in Seq(Byte) /\ Len(z) = 3 /\ z[1] = Hash /\ z[2] = d1 /\ z[3] = d2
    BY <1>0
  <1> HIDE DEF a, z
  <1>3. /\ x \in Seq(Byte) /\ Len(x) = 1 + m /\ x[1] = Dollar
        /\ \A i \in 1..m : x[1 + i] = body[i]
    <2>1. /\ x \in Seq(Byte) /\ Len(x) = Len(a) + m
          /\ \A i \in 1..Len(a) : x[i] = a[i]
          /\ \A i \in 1..m : x[Len(a) + i] = body[i]
      BY <1>1, ConcatType
    <2> HIDE DEF x, m
    <2>2. x[1] = a[1]
      BY <1>1, <2>1
    <2> QED BY <1>0, <1>1, <2>1, <2>2
  <1> HIDE DEF x
  <1>4. /\ y \in Seq(Byte) /\ Len(y) = Len(x) + Len(z)
        /\ \A i \in 1..Len(x) : y[i] = x[i]
        /\ \A i \in 1..Len(z) : y[Len(x) + i] = z[i]
    <2>1. x \in Seq(Byte) /\ z \in Seq(Byte)
      BY <1>2, <1>3
    <2> QED BY ONLY <2>1, ConcatType
  <1> HIDE DEF y, m
  <1>5. Len(y) = m + 4 /\ y[1] = Dollar
    BY <1>0, <1>2, <1>3, <1>4
  <1>6. y[m + 2] = Hash /\ y[m + 3] = d1 /\ y[m + 4] = d2
    <2>1. y[Len(x) + 1] = z[1] /\ y[Len(x) + 2] = z[2] /\ y[Len(x) + 3] = z[3]
      BY <1>2, <1>4
    <2>2. Len(x) + 1 = m + 2 /\ Len(x) + 2 = m + 3 /\ Len(x) + 3 = m + 4
      BY <1>0, <1>3
    <2> QED BY <1>2, <2>1, <2>2
  <1>7. ASSUME NEW i \in 1..m PROVE y[i + 1] = body[i]
    <2>1. i + 1 \in 1..Len(x) /\ i + 1 = 1 + i
      BY <1>0, <1>3
    <2> QED BY <1>3, <1>4, <2>1
  <1>8. Frames(y, body, d1, d2)
    BY <1>4, <1>5, <1>6, <1>7 DEF Frames, m
  <1> QED BY <1>8 DEF y, x, a, z

LEMMA AfterUpto ==
    ASSUME NEW s \in Feeds, NEW bytes \in Seq(Byte), NEW n \in 0..(Len(bytes) - 1)
    PROVE  /\ After(s, Upto(bytes, n + 1)) = Parses(After(s, Upto(bytes, n)), bytes[n + 1])
           /\ After(s, Upto(bytes, n)) \in Feeds /\ bytes[n + 1] \in Byte
  <1> DEFINE u == Upto(bytes, n)
             c == bytes[n + 1]
  <1>1. u \in Seq(Byte) /\ Upto(bytes, n + 1) = Append(u, c) /\ c \in Byte
    BY UptoIs
  <1> HIDE DEF u, c
  <1>2. After(s, Append(u, c)) = Parses(After(s, u), c) /\ After(s, u) \in Feeds
    BY <1>1, AfterAppend
  <1> QED BY <1>1, <1>2 DEF u, c

LEMMA AfterWhole ==
    ASSUME NEW s \in Feeds, NEW bytes \in Seq(Byte)
    PROVE  After(s, Upto(bytes, 0)) = s /\ After(s, Upto(bytes, Len(bytes))) = After(s, bytes)
  <1>1. Upto(bytes, 0) = <<>> /\ Upto(bytes, Len(bytes)) = bytes
    BY UptoIs
  <1> QED BY <1>1, AfterNothing

LEMMA SumNothing == SumOf(<<>>) = 0
  <1>1. <<>> \in Seq(Byte) /\ Len(<<>>) = 0
    OBVIOUS
  <1>2. PICK F \in [0..0 -> Byte] : Steps(F, Sums, 0, <<>>) /\ F[0] = SumOf(<<>>)
    BY <1>1, SumFolds
  <1> QED BY <1>2 DEF Steps

\* The digits behind a packet tell its sum
SumTold(d1, d2, body) == Value(d1) * 16 + Value(d2) = SumOf(body)
\* What becomes of a packet whose bytes are body
Taken(s, r, body) ==
    /\ r.items = Append(s.items, Packet(unescapePayload(body), TRUE))
    /\ r.acks = Append(s.acks, "+")
Refused(s, r) == r.items = s.items /\ r.acks = Append(s.acks, "-")

\* A packet, whole or damaged
LEMMA PacketEaten ==
    ASSUME NEW s \in Feeds, s.parser = Idle, NEW body \in Seq(Byte),
           \A i \in 1..Len(body) : body[i] # Hash,
           NEW d1 \in Byte, NEW d2 \in Byte, NEW bytes, Frames(bytes, body, d1, d2)
    PROVE  /\ Quiet(s, bytes) /\ After(s, bytes).parser = Idle
           /\ SumTold(d1, d2, body) => Taken(s, After(s, bytes), body)
           /\ ~SumTold(d1, d2, body) => Refused(s, After(s, bytes))
  <1> DEFINE m == Len(body)
             A(n) == After(s, Upto(bytes, n))
             Same1(n) == A(n).items = s.items /\ A(n).acks = s.acks
             In(n) == /\ A(n + 1).parser.state = "payload" /\ A(n + 1).parser.buf = Upto(body, n)
                      /\ A(n + 1).parser.sum = SumOf(Upto(body, n)) /\ Same1(n + 1)
             G == {n \in 0..m : In(n)}
  <1>0. m \in Nat /\ m \in 0..m /\ 0 \in 0..m
    OBVIOUS
  <1>1. /\ bytes \in Seq(Byte) /\ Len(bytes) = m + 4
        /\ bytes[1] = Dollar /\ bytes[m + 2] = Hash /\ bytes[m + 3] = d1 /\ bytes[m + 4] = d2
        /\ \A i \in 1..m : bytes[i + 1] = body[i]
    BY DEF Frames
  <1>2. A(0) = s /\ A(m + 4) = After(s, bytes)
    BY <1>1, AfterWhole
  <1>3. ASSUME NEW n \in 0..(m + 3)
        PROVE  A(n + 1) = Parses(A(n), bytes[n + 1]) /\ A(n) \in Feeds /\ bytes[n + 1] \in Byte
    <2>1. n \in 0..(Len(bytes) - 1)
      BY <1>0, <1>1
    <2> QED BY <1>1, <2>1, AfterUpto
  <1> HIDE DEF m, A
  <1>4. 0 \in G
    <2>1. A(1) = Parses(A(0), bytes[1]) /\ bytes[1] \in Byte
      <3>1. 0 \in 0..(m + 3) /\ 0 + 1 = 1
        BY <1>0
      <3> QED BY <1>3, <3>1
    <2>2. s.parser.state = "idle"
      BY IdleType
    <2>3. /\ A(1).parser.state = "payload" /\ A(1).parser.buf = <<>> /\ A(1).parser.sum = 0
          /\ A(1).items = s.items /\ A(1).acks = s.acks
      BY <1>1, <1>2, <2>1, <2>2, ParsesIdle
    <2>4. Upto(body, 0) = <<>>
      BY UptoIs
    <2>5. In(0)
      BY <2>3, <2>4, SumNothing
    <2> HIDE DEF In
    <2> QED BY <1>0, <2>5
  <1>5. ASSUME NEW n \in G, n \in 0..(m - 1) PROVE n + 1 \in G
    <2> DEFINE k == n + 1
               a == A(k)
               c == bytes[k + 1]
    <2>1. k \in 0..m /\ k \in 0..(m + 3) /\ k \in 1..m /\ k \in Nat
      BY <1>0, <1>5
    <2>2. In(n)
      OBVIOUS
    <2>3. c = body[k] /\ c # Hash
      BY <1>1, <2>1 DEF m
    <2>4. A(k + 1) = Parses(a, c) /\ a \in Feeds /\ c \in Byte
      BY <1>3, <2>1
    <2>5. Upto(body, k) = Append(Upto(body, n), c) /\ Upto(body, n) \in Seq(Byte)
      <3>1. n \in 0..(Len(body) - 1) /\ n \in 0..Len(body)
        BY <1>0, <1>5 DEF m
      <3> QED BY <2>3, <3>1, UptoIs
    <2> DEFINE u == Upto(body, n)
    <2>6. /\ a.parser.state = "payload" /\ a.parser.buf = u /\ a.parser.sum = SumOf(u)
          /\ a.items = s.items /\ a.acks = s.acks
      BY <2>2
    <2> HIDE DEF a, c, k, u
    <2>7. SumOf(Append(u, c)) = (SumOf(u) + c) % 256
      BY <2>4, <2>5, SumAppend DEF u
    <2>8. /\ A(k + 1).parser.state = "payload" /\ A(k + 1).parser.buf = Append(u, c)
          /\ A(k + 1).parser.sum = (SumOf(u) + c) % 256
          /\ A(k + 1).items = s.items /\ A(k + 1).acks = s.acks
      <3>1. /\ Parses(a, c).items = a.items /\ Parses(a, c).acks = a.acks
            /\ Parses(a, c).parser.state = "payload" /\ Parses(a, c).parser.buf = Append(a.parser.buf, c)
            /\ Parses(a, c).parser.sum = (a.parser.sum + c) % 256
        BY <2>3, <2>4, <2>6, ParsesPacket
      <3> QED BY <2>4, <2>6, <3>1
    <2>9. In(k)
      BY <2>5, <2>7, <2>8 DEF u
    <2> HIDE DEF In
    <2> QED BY <2>1, <2>9 DEF k
  <1>6. \A n \in 0..m : In(n)
    <2>1. 0..m \subseteq G
      <3> HIDE DEF G
      <3> QED BY <1>0, <1>4, <1>5, UpTo
    <2> QED BY <2>1
  <1>7. /\ A(m + 1).parser.state = "payload" /\ A(m + 1).parser.buf = body
        /\ A(m + 1).parser.sum = SumOf(body) /\ Same1(m + 1)
    <2>1. In(m)
      <3> HIDE DEF In
      <3> QED BY <1>0, <1>6
    <2>2. Upto(body, m) = body
      BY UptoIs DEF m
    <2> QED BY <2>1, <2>2
  <1> DEFINE b == A(m + 1)
             c == A(m + 2)
             d == A(m + 3)
  <1>8. /\ b \in Feeds /\ c \in Feeds /\ d \in Feeds
        /\ c = Parses(b, Hash) /\ d = Parses(c, d1) /\ A(m + 4) = Parses(d, d2) /\ Hash \in Byte
    <2>1. /\ m + 1 \in 0..(m + 3) /\ m + 2 \in 0..(m + 3) /\ m + 3 \in 0..(m + 3)
          /\ (m + 1) + 1 = m + 2 /\ (m + 2) + 1 = m + 3 /\ (m + 3) + 1 = m + 4
      BY <1>0
    <2> QED BY <1>1, <1>3, <2>1
  <1> HIDE DEF b, c, d
  <1>9. /\ c.parser.state = "csum1" /\ c.parser.buf = body /\ c.parser.sum = SumOf(body)
        /\ c.items = s.items /\ c.acks = s.acks
    BY <1>7, <1>8, ParsesPacket DEF b
  <1>10. /\ d.parser.state = "csum2" /\ d.parser.buf = body /\ d.parser.sum = SumOf(body)
         /\ d.parser.csum = Value(d1) /\ d.items = s.items /\ d.acks = s.acks
    BY <1>8, <1>9, ParsesPacket
  <1>11. /\ A(m + 4).parser = Idle
         /\ SumTold(d1, d2, body) => Taken(s, A(m + 4), body)
         /\ ~SumTold(d1, d2, body) => Refused(s, A(m + 4))
    <2>1. Checked(d, d2) <=> SumTold(d1, d2, body)
      BY <1>10 DEF Checked, SumTold
    <2>2. /\ Parses(d, d2).parser = Idle
          /\ Checked(d, d2) =>
                /\ Parses(d, d2).items = Append(d.items, Packet(unescapePayload(d.parser.buf), TRUE))
                /\ Parses(d, d2).acks = Append(d.acks, "+")
          /\ ~Checked(d, d2) => /\ Parses(d, d2).items = d.items
                                /\ Parses(d, d2).acks = Append(d.acks, "-")
      BY <1>8, <1>10, ParsesLast
    <2> QED BY <1>8, <1>10, <2>1, <2>2 DEF Taken, Refused
  <1>12. Quiet(s, bytes)
    <2>1. ASSUME NEW n \in 0..(m + 3) PROVE Same1(n)
      <3>1. CASE n = 0
        BY <1>2, <3>1
      <3>2. CASE n \in 1..(m + 1)
        <4>1. n - 1 \in 0..m /\ (n - 1) + 1 = n
          BY <1>0, <3>2
        <4>2. In(n - 1)
          <5> HIDE DEF In
          <5> QED BY <1>6, <4>1
        <4> QED BY <4>1, <4>2
      <3>3. CASE n = m + 2
        BY <1>9, <3>3 DEF c
      <3>4. CASE n = m + 3
        BY <1>10, <3>4 DEF d
      <3> QED BY <1>0, <2>1, <3>1, <3>2, <3>3, <3>4
    <2>2. \A n \in 0..(Len(bytes) - 1) : n \in 0..(m + 3)
      BY <1>0, <1>1
    <2> QED BY <2>1, <2>2 DEF Quiet, A
  <1> QED BY <1>2, <1>11, <1>12

\* What GDB can send (ConversationsAssumption)
WellFormed(item) ==
    /\ item.kind \in {"packet", "damaged", "interrupt", "ack", "noise"}
    /\ item.payload \in Seq(Byte)
    /\ item.kind = "interrupt" => item.payload = <<>>
    /\ item.kind = "damaged" => Hash \notin Range(item.payload) /\ SumOf(item.payload) # 0
    /\ item.kind = "noise" => Range(item.payload) \cap ({Dollar} \cup DOMAIN Signs) = {}

\* What has become of s when all of an item has come
Comes(item, s, r) ==
    /\ r \in Feeds /\ r.parser = Idle
    /\ item.kind \in {"packet", "interrupt"} =>
          \E x \in ItemType : Same(x, item) /\ r.items = Append(s.items, x)
    /\ item.kind \notin {"packet", "interrupt"} => r.items = s.items
    /\ item.kind = "packet" => r.acks = Append(s.acks, "+")
    /\ item.kind = "damaged" => r.acks = Append(s.acks, "-")
    /\ item.kind \notin {"packet", "damaged"} => r.acks = s.acks

LEMMA DigitsIs ==
    ASSUME NEW n \in Byte
    PROVE  /\ Digit(n \div 16) \in Byte /\ Digit(n % 16) \in Byte
           /\ Value(Digit(n \div 16)) * 16 + Value(Digit(n % 16)) = n
  <1>1. n \div 16 \in 0..15 /\ n % 16 \in 0..15 /\ (n \div 16) * 16 + (n % 16) = n
    <2>1. n \in 0..255
      BY DEF Byte
    <2>2. n \div 16 \in 0..15
      BY <2>1
    <2>3. n % 16 \in 0..15
      BY <2>1
    <2>4. (n \div 16) * 16 + (n % 16) = n
      BY <2>1
    <2> QED BY <2>2, <2>3, <2>4
  <1>2. ASSUME NEW d \in 0..15 PROVE Digit(d) \in Byte /\ Value(Digit(d)) = d
    BY DEF Digit, Value, Byte
  <1> DEFINE x == n \div 16
             y == n % 16
  <1>3. x \in 0..15 /\ y \in 0..15 /\ x * 16 + y = n
    BY <1>1
  <1> HIDE DEF x, y
  <1>4. Digit(x) \in Byte /\ Digit(y) \in Byte /\ Value(Digit(x)) * 16 + Value(Digit(y)) = n
    BY <1>2, <1>3
  <1> QED BY <1>4 DEF x, y

LEMMA PacketComes ==
    ASSUME NEW s \in Feeds, s.parser = Idle, NEW item, WellFormed(item), item.kind = "packet"
    PROVE  /\ Bytes(item) \in Seq(Byte) /\ Quiet(s, Bytes(item))
           /\ Comes(item, s, After(s, Bytes(item)))
  <1> DEFINE payload == item.payload
             body == Escaped(payload)
             n == SumOf(body)
             d1 == Digit(n \div 16)
             d2 == Digit(n % 16)
             bytes == <<Dollar>> \o body \o <<Hash, d1, d2>>
             x == Packet(payload, TRUE)
  <1>1. payload \in Seq(Byte)
    BY DEF WellFormed
  <1>2. Bytes(item) = bytes
    BY DEF Bytes, encodePacket
  <1> HIDE DEF payload
  <1>3. body \in Seq(Byte) /\ (\A i \in 1..Len(body) : body[i] # Hash) /\ unescapePayload(body) = payload
    BY <1>1, EscapedIs, RoundTrip
  <1> HIDE DEF body
  <1>4. n \in Byte
    <2>1. PICK F \in [0..Len(body) -> Byte] : F[Len(body)] = n
      BY <1>3, SumFolds
    <2>2. Len(body) \in 0..Len(body)
      BY <1>3
    <2> HIDE DEF n
    <2> QED BY <2>1, <2>2
  <1> HIDE DEF n
  <1>5. d1 \in Byte /\ d2 \in Byte /\ n = Value(d1) * 16 + Value(d2)
    BY <1>4, DigitsIs
  <1> HIDE DEF d1, d2
  <1>6. Frames(bytes, body, d1, d2)
    BY <1>3, <1>5, FrameIs
  <1> HIDE DEF bytes
  <1>7. bytes \in Seq(Byte)
    BY <1>6 DEF Frames
  <1>8. /\ Quiet(s, bytes) /\ After(s, bytes).parser = Idle
        /\ Taken(s, After(s, bytes), body)
    <2>1. SumTold(d1, d2, body)
      BY <1>5 DEF SumTold, n
    <2> QED BY <1>3, <1>5, <1>6, <2>1, PacketEaten
  <1>9. After(s, bytes) \in Feeds
    BY <1>7, AfterType
  <1>10. x \in ItemType /\ Same(x, item)
    <2>1. payload \in Seq(Int)
      BY <1>3, UnescapedType
    <2>2. x.kind = "packet" /\ x.payload = payload /\ x \in ItemType
      BY <2>1 DEF Packet, ItemType
    <2> QED BY <2>2 DEF Same, payload
  <1>11. After(s, bytes).items = Append(s.items, x) /\ After(s, bytes).acks = Append(s.acks, "+")
    BY <1>3, <1>8 DEF Taken
  <1> HIDE DEF x
  <1>12. Comes(item, s, After(s, bytes))
    BY <1>8, <1>9, <1>10, <1>11 DEF Comes
  <1> QED BY <1>2, <1>7, <1>8, <1>12

LEMMA DamagedComes ==
    ASSUME NEW s \in Feeds, s.parser = Idle, NEW item, WellFormed(item), item.kind = "damaged"
    PROVE  /\ Bytes(item) \in Seq(Byte) /\ Quiet(s, Bytes(item))
           /\ Comes(item, s, After(s, Bytes(item)))
  <1> DEFINE body == item.payload
             bytes == <<Dollar>> \o body \o <<Hash, 48, 48>>
  <1>1. body \in Seq(Byte) /\ Hash \notin Range(body) /\ SumOf(body) # 0
    BY DEF WellFormed
  <1>2. Bytes(item) = bytes
    BY DEF Bytes
  <1>3. \A i \in 1..Len(body) : body[i] # Hash
    <2>1. \A i \in DOMAIN body : body[i] \in Range(body)
      BY DEF Range
    <2>2. DOMAIN body = 1..Len(body)
      BY <1>1
    <2> QED BY <1>1, <2>1, <2>2
  <1>4. 48 \in Byte /\ Value(48) * 16 + Value(48) = 0
    BY DEF Byte, Value
  <1> HIDE DEF body
  <1>5. Frames(bytes, body, 48, 48)
    BY <1>1, <1>4, FrameIs
  <1> HIDE DEF bytes
  <1>6. bytes \in Seq(Byte)
    BY <1>5 DEF Frames
  <1>7. /\ Quiet(s, bytes) /\ After(s, bytes).parser = Idle
        /\ After(s, bytes).items = s.items /\ After(s, bytes).acks = Append(s.acks, "-")
    <2>1. ~SumTold(48, 48, body)
      BY <1>1, <1>4 DEF SumTold
    <2> QED BY <1>1, <1>3, <1>4, <1>5, <2>1, PacketEaten DEF Refused
  <1>8. After(s, bytes) \in Feeds
    BY <1>6, AfterType
  <1>9. Comes(item, s, After(s, bytes))
    BY <1>1, <1>7, <1>8 DEF Comes
  <1> QED BY <1>2, <1>6, <1>7, <1>9

\* One byte that is an item
LEMMA SignComes ==
    ASSUME NEW s \in Feeds, s.parser = Idle, NEW item, WellFormed(item), item.kind \in {"interrupt", "ack"}
    PROVE  /\ Bytes(item) \in Seq(Byte) /\ Quiet(s, Bytes(item))
           /\ Comes(item, s, After(s, Bytes(item)))
  <1> DEFINE b == IF item.kind = "interrupt" THEN 3 ELSE 43
             r == Parses(s, b)
  <1>1. Bytes(item) = <<b>>
    BY DEF Bytes
  <1>2. b \in Byte /\ b \in {3, 43}
    BY DEF Byte
  <1>3. s.parser.state = "idle"
    BY IdleType
  <1> HIDE DEF b
  <1>4. /\ r \in Feeds
        /\ b = 3 => /\ r.items = Append(s.items, Item("interrupt"))
                    /\ r.acks = s.acks /\ r.parser = s.parser
        /\ b = 43 => r = s
    BY <1>2, <1>3, ParsesIdle
  <1> HIDE DEF r
  <1>5. Append(<<>>, b) = <<b>> /\ <<>> \in Seq(Byte) /\ <<b>> \in Seq(Byte) /\ Len(<<b>>) = 1
    BY <1>2
  <1>6. After(s, <<b>>) = r
    <2>1. After(s, Append(<<>>, b)) = Parses(After(s, <<>>), b)
      BY <1>2, <1>5, AfterAppend
    <2> QED BY <1>5, <2>1, AfterNothing DEF r
  <1>7. Quiet(s, <<b>>)
    <2> DEFINE e == <<b>>
    <2>1. e \in Seq(Byte) /\ Len(e) = 1
      BY <1>5
    <2> HIDE DEF e
    <2>2. After(s, Upto(e, 0)) = s
      BY <2>1, AfterWhole
    <2>3. \A n \in 0..(Len(e) - 1) : n = 0
      BY <2>1
    <2>4. Quiet(s, e)
      BY <2>2, <2>3 DEF Quiet
    <2> QED BY <2>4 DEF e
  <1>8. CASE item.kind = "interrupt"
    <2>1. b = 3 /\ item.payload = <<>>
      BY <1>8 DEF b, WellFormed
    <2>2. Item("interrupt") \in ItemType /\ Same(Item("interrupt"), item)
      BY <1>8, <2>1, SignsIs DEF Same
    <2>3. Comes(item, s, r)
      BY <1>4, <1>8, <2>1, <2>2 DEF Comes
    <2> QED BY <1>1, <1>5, <1>6, <1>7, <2>3
  <1>9. CASE item.kind = "ack"
    <2>1. b = 43
      BY <1>9 DEF b
    <2>2. Comes(item, s, r)
      BY <1>4, <1>9, <2>1 DEF Comes
    <2> QED BY <1>1, <1>5, <1>6, <1>7, <2>2
  <1> QED BY <1>8, <1>9

LEMMA NoiseComes ==
    ASSUME NEW s \in Feeds, s.parser = Idle, NEW item, WellFormed(item), item.kind = "noise"
    PROVE  /\ Bytes(item) \in Seq(Byte) /\ Quiet(s, Bytes(item))
           /\ Comes(item, s, After(s, Bytes(item)))
  <1> DEFINE bytes == item.payload
             L == Len(bytes)
             G == {n \in 0..L : After(s, Upto(bytes, n)) = s}
  <1>1. Bytes(item) = bytes /\ bytes \in Seq(Byte)
    BY DEF Bytes, WellFormed
  <1>2. \A i \in 1..L : bytes[i] \notin {Dollar} \cup DOMAIN Signs
    <2>1. Range(bytes) \cap ({Dollar} \cup DOMAIN Signs) = {}
      BY DEF WellFormed
    <2>2. \A i \in DOMAIN bytes : bytes[i] \in Range(bytes)
      BY DEF Range
    <2>3. DOMAIN bytes = 1..L
      BY <1>1
    <2> QED BY <2>1, <2>2, <2>3
  <1>3. s.parser.state = "idle" /\ L \in Nat
    BY <1>1, IdleType
  <1> HIDE DEF bytes
  <1>4. 0 \in G
    BY <1>1, <1>3, AfterWhole
  <1>5. ASSUME NEW n \in G, n \in 0..(L - 1) PROVE n + 1 \in G
    <2>1. n + 1 \in 1..L /\ n + 1 \in 0..L /\ n \in 0..(Len(bytes) - 1)
      BY <1>3, <1>5
    <2>2. After(s, Upto(bytes, n)) = s
      OBVIOUS
    <2>3. After(s, Upto(bytes, n + 1)) = Parses(s, bytes[n + 1]) /\ bytes[n + 1] \in Byte
      BY <1>1, <2>1, <2>2, AfterUpto
    <2>4. bytes[n + 1] \notin {Dollar} \cup DOMAIN Signs
      BY <1>2, <2>1
    <2>5. Parses(s, bytes[n + 1]) = s
      BY <1>3, <2>3, <2>4, ParsesIdle
    <2> QED BY <2>1, <2>3, <2>5
  <1>6. \A n \in 0..L : After(s, Upto(bytes, n)) = s
    <2>1. 0..L \subseteq G
      <3> HIDE DEF G
      <3> QED BY <1>3, <1>4, <1>5, UpTo
    <2> QED BY <2>1
  <1>7. Quiet(s, bytes)
    <2>1. \A n \in 0..(Len(bytes) - 1) : n \in 0..L
      BY <1>3
    <2> QED BY <1>6, <2>1 DEF Quiet
  <1>8. After(s, bytes) = s
    <2>1. L \in 0..L
      BY <1>3
    <2> QED BY <1>1, <1>6, <2>1, AfterWhole
  <1>9. Comes(item, s, s)
    BY DEF Comes
  <1> QED BY <1>1, <1>7, <1>8, <1>9

LEMMA ItemComes ==
    ASSUME NEW s \in Feeds, s.parser = Idle, NEW item, WellFormed(item)
    PROVE  /\ Bytes(item) \in Seq(Byte) /\ Quiet(s, Bytes(item))
           /\ Comes(item, s, After(s, Bytes(item)))
  <1>1. item.kind \in {"packet", "damaged", "interrupt", "ack", "noise"}
    BY DEF WellFormed
  <1> QED BY <1>1, PacketComes, DamagedComes, SignComes, NoiseComes

-----------------------------------------------------------------------------
(* What has been heeded of a conversation *)

Begin == [parser |-> Idle, items |-> <<>>, acks |-> <<>>]
One(item, kinds) == IF item.kind \in kinds THEN <<item>> ELSE <<>>

LEMMA BeginType == Begin \in Feeds /\ Begin.parser = Idle /\ Begin.items = <<>> /\ Begin.acks = <<>>
  <1>1. <<>> \in Seq(ItemType) /\ <<>> \in Seq({"+", "-"})
    OBVIOUS
  <1> QED BY <1>1, IdleType DEF Begin, Feeds

\* r has heeded what m means, and answered the packets p.
Heeded(a, m) == Len(a) = Len(m) /\ \A i \in 1..Len(m) : Same(a[i], m[i])
Answers(a, p) == Len(a) = Len(p) /\ \A i \in 1..Len(p) : a[i] = "+" <=> p[i].kind = "packet"
Recovers(r, m, p) == Heeded(r.items, m) /\ Answers(r.acks, p)

LEMMA AppendIs ==
    ASSUME NEW S, NEW s \in Seq(S), NEW x \in S
    PROVE  /\ Append(s, x) \in Seq(S) /\ Len(Append(s, x)) = Len(s) + 1
           /\ Append(s, x)[Len(s) + 1] = x /\ \A i \in 1..Len(s) : Append(s, x)[i] = s[i]
  OBVIOUS

LEMMA JoinOne ==
    ASSUME NEW S, NEW s \in Seq(S), NEW x \in S
    PROVE  s \o <<x>> = Append(s, x) /\ s \o <<>> = s
  OBVIOUS

\* One more item is handled as it was meant.
LEMMA ItemsGrow ==
    ASSUME NEW S, NEW a \in Seq(ItemType), NEW m \in Seq(S), NEW x \in ItemType, NEW item \in S,
           Heeded(a, m), Same(x, item)
    PROVE  Heeded(Append(a, x), Append(m, item))
  <1> DEFINE b == Append(a, x)
             n == Append(m, item)
             l == Len(m)
  <1>1. /\ Len(b) = Len(a) + 1 /\ b[Len(a) + 1] = x /\ \A i \in 1..Len(a) : b[i] = a[i]
        /\ Len(n) = l + 1 /\ n[l + 1] = item /\ \A i \in 1..l : n[i] = m[i]
    BY AppendIs
  <1>2. l \in Nat /\ Len(a) = l /\ \A i \in 1..l : Same(a[i], m[i])
    BY DEF Heeded
  <1> HIDE DEF b, n, l
  <1>3. ASSUME NEW i \in 1..(l + 1) PROVE Same(b[i], n[i])
    <2>1. CASE i \in 1..l
      BY <1>1, <1>2, <2>1
    <2>2. CASE i = l + 1
      BY <1>1, <1>2, <2>2
    <2> QED BY <1>2, <2>1, <2>2
  <1>4. Heeded(b, n)
    BY <1>1, <1>2, <1>3 DEF Heeded
  <1> QED BY <1>4 DEF b, n

LEMMA AcksGrow ==
    ASSUME NEW S, NEW a \in Seq({"+", "-"}), NEW p \in Seq(S), NEW x \in {"+", "-"}, NEW item \in S,
           Answers(a, p), x = "+" <=> item.kind = "packet"
    PROVE  Answers(Append(a, x), Append(p, item))
  <1> DEFINE b == Append(a, x)
             n == Append(p, item)
             l == Len(p)
  <1>1. /\ Len(b) = Len(a) + 1 /\ b[Len(a) + 1] = x /\ \A i \in 1..Len(a) : b[i] = a[i]
        /\ Len(n) = l + 1 /\ n[l + 1] = item /\ \A i \in 1..l : n[i] = p[i]
    BY AppendIs
  <1>2. l \in Nat /\ Len(a) = l /\ \A i \in 1..l : a[i] = "+" <=> p[i].kind = "packet"
    BY DEF Answers
  <1> HIDE DEF b, n, l
  <1>3. ASSUME NEW i \in 1..(l + 1) PROVE b[i] = "+" <=> n[i].kind = "packet"
    <2>1. CASE i \in 1..l
      BY <1>1, <1>2, <2>1
    <2>2. CASE i = l + 1
      BY <1>1, <1>2, <2>2
    <2> QED BY <1>2, <2>1, <2>2
  <1>4. Answers(b, n)
    BY <1>1, <1>2, <1>3 DEF Answers
  <1> QED BY <1>4 DEF b, n

LEMMA RecoversMore ==
    ASSUME NEW S, NEW m \in Seq(S), NEW p \in Seq(S), NEW item \in S, WellFormed(item),
           NEW s \in Feeds, Recovers(s, m, p), NEW r, Comes(item, s, r)
    PROVE  Recovers(r, m \o One(item, {"packet", "interrupt"}), p \o One(item, {"packet", "damaged"}))
  <1> DEFINE kind == item.kind
             m2 == m \o One(item, {"packet", "interrupt"})
             p2 == p \o One(item, {"packet", "damaged"})
  <1>1. kind \in {"packet", "damaged", "interrupt", "ack", "noise"}
    BY DEF WellFormed
  <1>2. s.items \in Seq(ItemType) /\ s.acks \in Seq({"+", "-"})
    BY FeedsIs
  <1>3. Heeded(s.items, m) /\ Answers(s.acks, p)
    BY DEF Recovers
  <1>4. /\ kind \in {"packet", "interrupt"} => m2 = Append(m, item)
        /\ kind \notin {"packet", "interrupt"} => m2 = m
        /\ kind \in {"packet", "damaged"} => p2 = Append(p, item)
        /\ kind \notin {"packet", "damaged"} => p2 = p
    BY JoinOne DEF One
  <1> HIDE DEF m2, p2
  <1>5. Heeded(r.items, m2)
    <2>1. CASE kind \in {"packet", "interrupt"}
      <3>1. PICK x \in ItemType : Same(x, item) /\ r.items = Append(s.items, x)
        BY <2>1 DEF Comes
      <3> QED BY <1>2, <1>3, <1>4, <2>1, <3>1, ItemsGrow
    <2>2. CASE kind \notin {"packet", "interrupt"}
      <3>1. r.items = s.items
        BY <2>2 DEF Comes
      <3> QED BY <1>3, <1>4, <2>2, <3>1
    <2> QED BY <2>1, <2>2
  <1>6. Answers(r.acks, p2)
    <2>1. CASE kind \in {"packet", "damaged"}
      <3>1. PICK x \in {"+", "-"} : (x = "+" <=> kind = "packet") /\ r.acks = Append(s.acks, x)
        BY <2>1 DEF Comes
      <3> QED BY <1>2, <1>3, <1>4, <2>1, <3>1, AcksGrow
    <2>2. CASE kind \notin {"packet", "damaged"}
      <3>1. r.acks = s.acks
        BY <2>2 DEF Comes
      <3> QED BY <1>3, <1>4, <2>2, <3>1
    <2> QED BY <2>1, <2>2
  <1>7. Recovers(r, m2, p2)
    BY <1>5, <1>6 DEF Recovers
  <1> QED BY <1>7 DEF m2, p2

\* The bytes of a conversation, item by item, and its items of some kinds
Wires(s) == [i \in DOMAIN s |-> Bytes(s[i])]
Ones(s, kinds) == [i \in DOMAIN s |-> IF s[i].kind \in kinds THEN <<s[i]>> ELSE <<>>]
AllWellFormed(s) == \A i \in 1..Len(s) : WellFormed(s[i])

LEMMA WiresIs ==
    ASSUME NEW S, NEW s \in Seq(S), AllWellFormed(s)
    PROVE  /\ Wires(s) \in Seq(Seq(Byte)) /\ Len(Wires(s)) = Len(s)
           /\ \A i \in 1..Len(s) : Wires(s)[i] = Bytes(s[i])
  <1> DEFINE L == Len(s)
             X == Seq(Byte)
  <1>1. L \in Nat /\ DOMAIN s = 1..L
    OBVIOUS
  <1>2. ASSUME NEW i \in 1..L PROVE Bytes(s[i]) \in X
    <2>1. WellFormed(s[i])
      BY DEF AllWellFormed
    <2> QED BY <2>1, BeginType, ItemComes
  <1> HIDE DEF L, X
  <1>3. Wires(s) = [i \in 1..L |-> Bytes(s[i])]
    BY <1>1 DEF Wires
  <1>4. \A i \in 1..L : Wires(s)[i] = Bytes(s[i])
    BY <1>3
  <1>5. Wires(s) \in [1..L -> X]
    BY <1>2, <1>3
  <1>6. Wires(s) \in Seq(X) /\ Len(Wires(s)) = L
    BY <1>1, <1>5
  <1> QED BY <1>4, <1>6 DEF L, X

LEMMA OnesIs ==
    ASSUME NEW S, NEW s \in Seq(S), NEW kinds
    PROVE  /\ Ones(s, kinds) \in Seq(Seq(S)) /\ Len(Ones(s, kinds)) = Len(s)
           /\ \A i \in 1..Len(s) : Ones(s, kinds)[i] = One(s[i], kinds)
           /\ Those(s, kinds) = FlattenSeq(Ones(s, kinds))
  <1> DEFINE L == Len(s)
             X == Seq(S)
             o == Ones(s, kinds)
  <1>1. L \in Nat /\ DOMAIN s = 1..L
    OBVIOUS
  <1>2. ASSUME NEW i \in 1..L PROVE One(s[i], kinds) \in X
    BY DEF One
  <1> HIDE DEF L, X
  <1>3. o = [i \in 1..L |-> One(s[i], kinds)]
    BY <1>1 DEF Ones, One
  <1>4. Those(s, kinds) = FlattenSeq(o)
    BY DEF Those, Ones
  <1> HIDE DEF o
  <1>5. \A i \in 1..L : o[i] = One(s[i], kinds)
    BY <1>3
  <1>6. o \in [1..L -> X]
    BY <1>2, <1>3
  <1>7. o \in Seq(X) /\ Len(o) = L
    BY <1>1, <1>6
  <1> QED BY <1>4, <1>5, <1>7 DEF L, X, o

\* What the first items of a conversation come to, their bytes and those that matter
Way(S, s, F, M, P) ==
    /\ F \in [0..Len(s) -> Seq(Byte)] /\ M \in [0..Len(s) -> Seq(S)] /\ P \in [0..Len(s) -> Seq(S)]
    /\ Joins(F, Wires(s)) /\ Joins(M, Ones(s, {"packet", "interrupt"})) /\ Joins(P, Ones(s, {"packet", "damaged"}))
    /\ F[Len(s)] = FlattenSeq(Wires(s)) /\ M[Len(s)] = Meant(s) /\ P[Len(s)] = Packets(s)

LEMMA WayExists ==
    ASSUME NEW S, NEW s \in Seq(S), AllWellFormed(s)
    PROVE  \E F, M, P : Way(S, s, F, M, P)
  <1> DEFINE L == Len(s)
             w == Wires(s)
             m == Ones(s, {"packet", "interrupt"})
             p == Ones(s, {"packet", "damaged"})
  <1>1. /\ w \in Seq(Seq(Byte)) /\ Len(w) = L
        /\ m \in Seq(Seq(S)) /\ Len(m) = L /\ Meant(s) = FlattenSeq(m)
        /\ p \in Seq(Seq(S)) /\ Len(p) = L /\ Packets(s) = FlattenSeq(p)
    BY WiresIs, OnesIs DEF Meant, Packets
  <1> HIDE DEF w, m, p
  <1>2. PICK F \in [0..Len(w) -> Seq(Byte)] : Joins(F, w) /\ F[Len(w)] = FlattenSeq(w)
    BY <1>1, FlattenSteps
  <1>3. PICK M \in [0..Len(m) -> Seq(S)] : Joins(M, m) /\ M[Len(m)] = FlattenSeq(m)
    BY <1>1, FlattenSteps
  <1>4. PICK P \in [0..Len(p) -> Seq(S)] : Joins(P, p) /\ P[Len(p)] = FlattenSeq(p)
    BY <1>1, FlattenSteps
  <1>5. Way(S, s, F, M, P)
    BY <1>1, <1>2, <1>3, <1>4 DEF Way, w, m, p
  <1> QED BY <1>5

Adds(s, F, M, P, k) ==
    /\ F[k + 1] = F[k] \o Bytes(s[k + 1])
    /\ M[k + 1] = M[k] \o One(s[k + 1], {"packet", "interrupt"})
    /\ P[k + 1] = P[k] \o One(s[k + 1], {"packet", "damaged"})

LEMMA WayStep ==
    ASSUME NEW S, NEW s \in Seq(S), AllWellFormed(s), NEW F, NEW M, NEW P, Way(S, s, F, M, P),
           NEW k \in 0..(Len(s) - 1)
    PROVE  s[k + 1] \in S /\ WellFormed(s[k + 1]) /\ Adds(s, F, M, P, k)
  <1> DEFINE w == Wires(s)
             m == Ones(s, {"packet", "interrupt"})
             p == Ones(s, {"packet", "damaged"})
             n == k + 1
  <1>0. s \in Seq(S) /\ n \in 1..Len(s) /\ n - 1 = k
    OBVIOUS
  <1>1. Joins(F, w) /\ Joins(M, m) /\ Joins(P, p)
    BY DEF Way
  <1>2. s[n] \in S /\ WellFormed(s[n])
    BY <1>0 DEF AllWellFormed
  <1> HIDE DEF n
  <1>3. /\ Len(w) = Len(s) /\ Len(m) = Len(s) /\ Len(p) = Len(s) /\ w[n] = Bytes(s[n])
        /\ m[n] = One(s[n], {"packet", "interrupt"}) /\ p[n] = One(s[n], {"packet", "damaged"})
    BY <1>0, WiresIs, OnesIs
  <1> HIDE DEF w, m, p
  <1>4. F[n] = F[k] \o Bytes(s[n])
    BY <1>0, <1>1, <1>3 DEF Joins
  <1>5. M[n] = M[k] \o One(s[n], {"packet", "interrupt"})
    BY <1>0, <1>1, <1>3 DEF Joins
  <1>6. P[n] = P[k] \o One(s[n], {"packet", "damaged"})
    BY <1>0, <1>1, <1>3 DEF Joins
  <1> QED BY <1>2, <1>4, <1>5, <1>6 DEF n, Adds

\* When the bytes of the first k items have come, what these mean has been heeded.
LEMMA WayRecovers ==
    ASSUME NEW S, NEW s \in Seq(S), AllWellFormed(s), NEW F, NEW M, NEW P, Way(S, s, F, M, P),
           NEW k \in 0..Len(s)
    PROVE  /\ After(Begin, F[k]) \in Feeds /\ After(Begin, F[k]).parser = Idle
           /\ Recovers(After(Begin, F[k]), M[k], P[k])
  <1> DEFINE L == Len(s)
             Good(n) == /\ After(Begin, F[n]) \in Feeds /\ After(Begin, F[n]).parser = Idle
                        /\ Recovers(After(Begin, F[n]), M[n], P[n])
             G == {n \in 0..L : Good(n)}
  <1>0. L \in Nat /\ 0 \in 0..L /\ k \in 0..L
    OBVIOUS
  <1>1. /\ F \in [0..L -> Seq(Byte)] /\ M \in [0..L -> Seq(S)] /\ P \in [0..L -> Seq(S)]
        /\ F[0] = <<>> /\ M[0] = <<>> /\ P[0] = <<>>
    BY DEF Way, Joins
  <1> HIDE DEF L
  <1>2. 0 \in G
    <2>1. After(Begin, F[0]) = Begin
      BY <1>1, BeginType, AfterNothing
    <2>2. Heeded(<<>>, <<>>) /\ Answers(<<>>, <<>>)
      BY DEF Heeded, Answers
    <2>3. Recovers(Begin, <<>>, <<>>)
      BY <2>2, BeginType DEF Recovers
    <2>4. Good(0)
      BY <1>1, <2>1, <2>3, BeginType
    <2> HIDE DEF Good
    <2> QED BY <1>0, <2>4
  <1>3. ASSUME NEW n \in G, n \in 0..(L - 1) PROVE n + 1 \in G
    <2> DEFINE item == s[n + 1]
               bytes == Bytes(item)
               a == After(Begin, F[n])
               r == After(a, bytes)
    <2>0. n \in 0..L /\ n + 1 \in 0..L
      BY <1>0, <1>3
    <2>1. /\ item \in S /\ WellFormed(item) /\ F[n + 1] = F[n] \o bytes
          /\ M[n + 1] = M[n] \o One(item, {"packet", "interrupt"})
          /\ P[n + 1] = P[n] \o One(item, {"packet", "damaged"})
      <3>1. n \in 0..(Len(s) - 1)
        BY <1>3 DEF L
      <3>2. s[n + 1] \in S /\ WellFormed(s[n + 1]) /\ Adds(s, F, M, P, n)
        BY <3>1, WayStep
      <3> QED BY <3>2 DEF Adds
    <2>2. a \in Feeds /\ a.parser = Idle /\ Recovers(a, M[n], P[n])
      BY <1>3
    <2>3. F[n] \in Seq(Byte) /\ M[n] \in Seq(S) /\ P[n] \in Seq(S)
      BY <1>1, <2>0
    <2> HIDE DEF item, a
    <2>4. bytes \in Seq(Byte) /\ Comes(item, a, r)
      BY <2>1, <2>2, ItemComes
    <2> HIDE DEF bytes
    <2>5. After(Begin, F[n] \o bytes) = r
      BY <2>3, <2>4, BeginType, AfterMore DEF a
    <2> HIDE DEF r
    <2>6. r \in Feeds /\ r.parser = Idle
      BY <2>4 DEF Comes
    <2>7. Recovers(r, M[n] \o One(item, {"packet", "interrupt"}), P[n] \o One(item, {"packet", "damaged"}))
      BY <2>1, <2>2, <2>3, <2>4, RecoversMore
    <2>8. Good(n + 1)
      BY <2>1, <2>5, <2>6, <2>7
    <2> HIDE DEF Good
    <2> QED BY <2>0, <2>8
  <1>4. 0..L \subseteq G
    <2> HIDE DEF G
    <2> QED BY <1>0, <1>2, <1>3, UpTo
  <1> QED BY <1>0, <1>4

\* The stream is cut where x has come, and not all of b behind it.
CutIn(fed, more, x, b) ==
    /\ Begins(x \o b, fed \o more) /\ Len(x) <= Len(fed) /\ Len(fed) < Len(x) + Len(b)
PartOf(fed, x, b) == \E j \in 0..(Len(b) - 1) : fed = x \o Upto(b, j)

LEMMA CutIs ==
    ASSUME NEW fed \in Seq(Byte), NEW more \in Seq(Byte), NEW x \in Seq(Byte), NEW b \in Seq(Byte),
           CutIn(fed, more, x, b)
    PROVE  PartOf(fed, x, b) /\ more # <<>>
  <1> DEFINE j == Len(fed) - Len(x)
             u == Upto(b, j)
             y == x \o b
             z == fed \o more
             v == x \o u
  <1>0. /\ Len(x) \in Nat /\ Len(fed) \in Nat /\ Len(b) \in Nat /\ Len(more) \in Nat
        /\ Begins(y, z) /\ Len(x) <= Len(fed) /\ Len(fed) < Len(x) + Len(b)
    BY DEF CutIn
  <1>1. j \in 0..(Len(b) - 1) /\ j \in 0..Len(b) /\ Len(x) + j = Len(fed)
    BY <1>0
  <1> HIDE DEF j
  <1>2. u \in Seq(Byte) /\ Len(u) = j /\ \A i \in 1..j : u[i] = b[i]
    <2>1. \A i \in 1..j : i \in 1..Len(b)
      BY <1>0, <1>1
    <2> QED BY <1>1, <2>1 DEF Upto
  <1> HIDE DEF u
  <1>3. /\ Len(y) = Len(x) + Len(b) /\ \A i \in 1..Len(x) : y[i] = x[i]
        /\ \A i \in 1..Len(b) : y[Len(x) + i] = b[i]
    OBVIOUS
  <1>4. Len(z) = Len(fed) + Len(more) /\ \A i \in 1..Len(fed) : z[i] = fed[i]
    OBVIOUS
  <1>5. /\ v \in Seq(Byte) /\ Len(v) = Len(fed) /\ \A i \in 1..Len(x) : v[i] = x[i]
        /\ \A i \in 1..j : v[Len(x) + i] = u[i]
    BY <1>1, <1>2
  <1> HIDE DEF y, z, v
  <1>6. Len(y) <= Len(z) /\ \A i \in 1..Len(y) : z[i] = y[i]
    BY <1>0 DEF Begins
  <1>7. ASSUME NEW i \in 1..Len(fed) PROVE v[i] = fed[i]
    <2>1. i \in 1..Len(y) /\ z[i] = y[i] /\ z[i] = fed[i]
      BY <1>0, <1>3, <1>4, <1>6
    <2>2. CASE i \in 1..Len(x)
      BY <1>3, <1>5, <2>1, <2>2
    <2>3. CASE i \notin 1..Len(x)
      <3>1. i - Len(x) \in 1..j /\ i - Len(x) \in 1..Len(b) /\ Len(x) + (i - Len(x)) = i
        BY <1>0, <1>1, <2>3
      <3>2. v[i] = u[i - Len(x)] /\ y[i] = b[i - Len(x)] /\ u[i - Len(x)] = b[i - Len(x)]
        BY <1>2, <1>3, <1>5, <3>1
      <3> QED BY <2>1, <3>2
    <2> QED BY <2>2, <2>3
  <1>8. v = fed
    BY <1>5, <1>7
  <1>9. more # <<>>
    <2>1. Len(more) > 0
      BY <1>0, <1>3, <1>4, <1>6
    <2> QED BY <2>1
  <1> QED BY <1>1, <1>8, <1>9 DEF PartOf, v, u

\* r has heeded and answered a beginning of what s means, all of it if there is no more to come.
Matches(r, more, s) ==
    /\ Len(r.items) <= Len(Meant(s)) /\ Len(r.acks) <= Len(Packets(s))
    /\ \A i \in 1..Len(r.items) : Same(r.items[i], Meant(s)[i])
    /\ \A i \in 1..Len(r.acks) : r.acks[i] = "+" <=> Packets(s)[i].kind = "packet"
    /\ more = <<>> => Len(r.items) = Len(Meant(s)) /\ Len(r.acks) = Len(Packets(s))

\* What has been heeded before the last cut is a beginning of what is meant.
LEMMA WayMatches ==
    ASSUME NEW S, NEW s \in Seq(S), AllWellFormed(s), NEW F, NEW M, NEW P, Way(S, s, F, M, P),
           NEW k \in 0..Len(s), NEW r, NEW more, k = Len(s) \/ more # <<>>,
           r.items = After(Begin, F[k]).items, r.acks = After(Begin, F[k]).acks
    PROVE  Matches(r, more, s)
  <1> DEFINE a == After(Begin, F[k])
             L == Len(s)
             wm == Ones(s, {"packet", "interrupt"})
             wp == Ones(s, {"packet", "damaged"})
             m == Meant(s)
             p == Packets(s)
  <1>0. L \in Nat /\ k \in 0..L /\ L \in k..L
    OBVIOUS
  <1>1. Heeded(a.items, M[k]) /\ Answers(a.acks, P[k])
    BY WayRecovers DEF Recovers
  <1>2. /\ M \in [0..L -> Seq(S)] /\ Joins(M, wm) /\ M[L] = m
        /\ P \in [0..L -> Seq(S)] /\ Joins(P, wp) /\ P[L] = p
    BY DEF Way
  <1>3. wm \in Seq(Seq(S)) /\ Len(wm) = L /\ wp \in Seq(Seq(S)) /\ Len(wp) = L
    BY OnesIs
  <1> HIDE DEF a, L, wm, wp, m, p
  <1>4. Begins(M[k], M[L])
    BY <1>0, <1>2, <1>3, FlattenPrefix
  <1>5. Begins(P[k], P[L])
    BY <1>0, <1>2, <1>3, FlattenPrefix
  <1>6. /\ Len(r.items) = Len(M[k]) /\ \A i \in 1..Len(M[k]) : Same(r.items[i], M[k][i])
        /\ Len(r.acks) = Len(P[k]) /\ \A i \in 1..Len(P[k]) : r.acks[i] = "+" <=> P[k][i].kind = "packet"
    BY <1>1 DEF Heeded, Answers, a
  <1>7. /\ Len(M[k]) <= Len(m) /\ \A i \in 1..Len(M[k]) : m[i] = M[k][i]
        /\ Len(P[k]) <= Len(p) /\ \A i \in 1..Len(P[k]) : p[i] = P[k][i]
    BY <1>2, <1>4, <1>5 DEF Begins
  <1>8. more = <<>> => M[k] = m /\ P[k] = p
    BY <1>2 DEF L
  <1>9. /\ Len(r.items) <= Len(m) /\ Len(r.acks) <= Len(p)
        /\ more = <<>> => Len(r.items) = Len(m) /\ Len(r.acks) = Len(p)
    BY <1>6, <1>7, <1>8
  <1>10. \A i \in 1..Len(r.items) : Same(r.items[i], m[i])
    BY <1>6, <1>7
  <1>11. \A i \in 1..Len(r.acks) : r.acks[i] = "+" <=> p[i].kind = "packet"
    BY <1>6, <1>7
  <1> QED BY <1>9, <1>10, <1>11 DEF Matches, m, p

\* However much of a conversation has come
LEMMA FedMatches ==
    ASSUME NEW S, NEW s \in Seq(S), AllWellFormed(s), NEW fed \in Seq(Byte), NEW more \in Seq(Byte),
           fed \o more = FlattenSeq(Wires(s))
    PROVE  Matches(After(Begin, fed), more, s)
  <1> DEFINE L == Len(s)
             z == fed \o more
             w == Wires(s)
             r == After(Begin, fed)
  <1>0. L \in Nat /\ 0 \in 0..L /\ Len(fed) \in Nat /\ Len(more) \in Nat
    OBVIOUS
  <1>1. PICK F, M, P : Way(S, s, F, M, P)
    BY WayExists
  <1>2. /\ F \in [0..L -> Seq(Byte)] /\ Joins(F, w) /\ F[L] = z
        /\ w \in Seq(Seq(Byte)) /\ Len(w) = L
    BY <1>1, WiresIs DEF Way
  <1> DEFINE G == {k \in 0..L : Len(F[k]) <= Len(fed)}
  <1>3. CASE L \in G
    <2>1. Len(z) = Len(fed) + Len(more) /\ (more = <<>> => z = fed)
      OBVIOUS
    <2>2. Len(F[L]) <= Len(fed)
      BY <1>3
    <2> HIDE DEF z, L
    <2>3. Len(more) = 0
      BY <1>0, <1>2, <2>1, <2>2
    <2>4. more = <<>>
      BY <2>3
    <2>5. F[L] = fed /\ L \in 0..L
      BY <1>0, <1>2, <2>1, <2>4
    <2> QED BY <1>1, <2>5, WayMatches DEF L
  <1>4. CASE \E k \in G : k \in 0..(L - 1) /\ k + 1 \notin G
    <2>1. PICK k \in G : k \in 0..(L - 1) /\ k + 1 \notin G
      BY <1>4
    <2> DEFINE b == Bytes(s[k + 1])
               x == F[k]
               a == After(Begin, x)
    <2>2. k \in 0..L /\ k + 1 \in 0..L /\ L \in (k + 1)..L
      BY <1>0, <2>1
    <2>3. x \in Seq(Byte) /\ F[k + 1] \in Seq(Byte) /\ Len(F[k + 1]) \in Nat
      <3>1. F \in [0..L -> Seq(Byte)]
        BY <1>2
      <3> HIDE DEF z, w, L, G
      <3>2. F[k] \in Seq(Byte) /\ F[k + 1] \in Seq(Byte)
        BY <2>2, <3>1
      <3> QED BY <3>2
    <2>4. Len(x) <= Len(fed) /\ Len(fed) < Len(F[k + 1])
      BY <1>0, <2>1, <2>2, <2>3
    <2>5. F[k + 1] = x \o b /\ WellFormed(s[k + 1])
      <3>1. k \in 0..(Len(s) - 1)
        BY <2>1
      <3>2. Adds(s, F, M, P, k) /\ WellFormed(s[k + 1])
        BY <1>1, <3>1, WayStep
      <3> QED BY <3>2 DEF Adds
    <2>6. a \in Feeds /\ a.parser = Idle
      BY <1>1, <2>2, WayRecovers
    <2> HIDE DEF a
    <2>7. b \in Seq(Byte) /\ Quiet(a, b)
      BY <2>5, <2>6, ItemComes
    <2>8. Begins(F[k + 1], F[L])
      <3> HIDE DEF L, w, z
      <3> QED BY <1>2, <2>2, FlattenPrefix
    <2> HIDE DEF b, x, G
    <2>9. CutIn(fed, more, x, b)
      <3>1. Len(x \o b) = Len(x) + Len(b)
        BY <2>3, <2>7
      <3> QED BY <1>2, <2>4, <2>5, <2>8, <3>1 DEF CutIn
    <2>10. PartOf(fed, x, b) /\ more # <<>>
      BY <2>3, <2>7, <2>9, CutIs
    <2>11. PICK j \in 0..(Len(b) - 1) : fed = x \o Upto(b, j)
      BY <2>10 DEF PartOf
    <2> DEFINE u == Upto(b, j)
    <2>12. u \in Seq(Byte)
      <3>1. j \in 0..Len(b)
        BY <2>7, <2>11
      <3> QED BY <2>7, <3>1, UptoIs
    <2>13. After(a, u).items = a.items /\ After(a, u).acks = a.acks
      BY <2>7, <2>11 DEF Quiet
    <2> HIDE DEF u
    <2>14. After(Begin, x \o u) = After(After(Begin, x), u)
      BY <2>3, <2>12, BeginType, AfterMore
    <2>15. r.items = After(Begin, F[k]).items /\ r.acks = After(Begin, F[k]).acks
      BY <2>11, <2>13, <2>14 DEF u, a, x
    <2> HIDE DEF r
    <2>16. Matches(r, more, s)
      BY <1>1, <2>2, <2>10, <2>15, WayMatches
    <2> QED BY <2>16 DEF r
  <1>5. L \in G \/ \E k \in G : k \in 0..(L - 1) /\ k + 1 \notin G
    <2>1. SUFFICES ASSUME \A k \in G : k \in 0..(L - 1) => k + 1 \in G PROVE L \in G
      OBVIOUS
    <2>2. 0 \in G
      BY <1>0, <1>2 DEF Joins
    <2>3. L \in 0..L
      BY <1>0
    <2> HIDE DEF G
    <2>4. 0..L \subseteq G
      BY <1>0, <2>1, <2>2, UpTo
    <2> QED BY <2>3, <2>4
  <1> QED BY <1>3, <1>4, <1>5

\* fed has come of what GDB sends, more is to come, and the session is where fed has brought it.
Took(fed, more) ==
    /\ fed \o more = FlattenSeq(Wires(sent))
    /\ IF sent = <<>> THEN more = <<>> ELSE more = rest
    /\ parser = After(Begin, fed).parser
    /\ items = After(Begin, fed).items /\ acks = After(Begin, fed).acks
SentIs == sent \in Seq(Range(sent)) /\ AllWellFormed(sent)
FeedInv == SentIs /\ \E fed, more \in Seq(Byte) : Took(fed, more)

LEMMA ConversationIs ==
    ASSUME NEW c, c \in Conversations \/ c = <<>>
    PROVE  c \in Seq(Range(c)) /\ AllWellFormed(c)
  <1>1. CASE c = <<>>
    <2>1. <<>> \in Seq(Range(c)) /\ Len(<<>>) = 0
      OBVIOUS
    <2> QED BY <1>1, <2>1 DEF AllWellFormed
  <1>2. CASE c \in Conversations
    <2>1. /\ c \in Seq(Range(c))
          /\ \A i \in DOMAIN c :
                /\ c[i].kind \in {"packet", "damaged", "interrupt", "ack", "noise"}
                /\ c[i].payload \in Seq(0..255)
                /\ c[i].kind = "interrupt" => c[i].payload = <<>>
                /\ c[i].kind = "damaged" => Hash \notin Range(c[i].payload) /\ SumOf(c[i].payload) # 0
                /\ c[i].kind = "noise" => Range(c[i].payload) \cap ({Dollar} \cup DOMAIN Signs) = {}
      BY <1>2, ConversationsAssumption
    <2>2. DOMAIN c = 1..Len(c)
      BY <2>1
    <2>3. ASSUME NEW i \in 1..Len(c) PROVE WellFormed(c[i])
      <3>1. i \in DOMAIN c
        BY <2>2
      <3> QED BY <2>1, <3>1 DEF WellFormed, Byte
    <2> QED BY <2>1, <2>3 DEF AllWellFormed
  <1> QED BY <1>1, <1>2

LEMMA WiresType ==
    ASSUME NEW S, NEW c \in Seq(S), AllWellFormed(c)
    PROVE  FlattenSeq(Wires(c)) \in Seq(Byte) /\ (c = <<>> => FlattenSeq(Wires(c)) = <<>>)
  <1>1. PICK F, M, P : Way(S, c, F, M, P)
    BY WayExists
  <1>2. /\ F \in [0..Len(c) -> Seq(Byte)] /\ F[0] = <<>>
        /\ F[Len(c)] = FlattenSeq(Wires(c))
    BY <1>1 DEF Way, Joins
  <1>3. Len(c) \in 0..Len(c) /\ (c = <<>> => Len(c) = 0)
    OBVIOUS
  <1> QED BY <1>2, <1>3

LEMMA FeedInit == Init => FeedInv
  <1> SUFFICES ASSUME Init PROVE FeedInv
    OBVIOUS
  <1> DEFINE all == FlattenSeq(Wires(sent))
  <1>1. /\ \/ sent \in Conversations /\ rest = all
           \/ sent = <<>>
        /\ parser = Idle /\ items = <<>> /\ acks = <<>>
    BY DEF Init, Wires
  <1>2. sent \in Seq(Range(sent)) /\ AllWellFormed(sent)
    BY <1>1, ConversationIs
  <1>3. all \in Seq(Byte) /\ (sent = <<>> => all = <<>>)
    BY <1>2, WiresType
  <1>4. After(Begin, <<>>) = Begin
    BY BeginType, AfterNothing
  <1> HIDE DEF all
  <1>5. <<>> \o all = all /\ <<>> \in Seq(Byte)
    BY <1>3
  <1>6. Took(<<>>, all)
    <2>1. IF sent = <<>> THEN all = <<>> ELSE all = rest
      BY <1>1, <1>3
    <2>2. /\ parser = After(Begin, <<>>).parser
          /\ items = After(Begin, <<>>).items /\ acks = After(Begin, <<>>).acks
      BY <1>1, <1>4, BeginType
    <2> QED BY <1>5, <2>1, <2>2 DEF Took, all
  <1> QED BY <1>2, <1>3, <1>5, <1>6 DEF FeedInv, SentIs

LEMMA CutAgain ==
    ASSUME NEW S, NEW fed \in Seq(S), NEW s \in Seq(S), s # <<>>,
           NEW n \in 1..(IF Len(s) < MaxChunk THEN Len(s) ELSE MaxChunk)
    PROVE  Grouped(fed, SubSeq(s, 1, n), SubSeq(s, n + 1, Len(s)))
           /\ SubSeq(s, 1, n) \o SubSeq(s, n + 1, Len(s)) = s
  <1> DEFINE x == SubSeq(s, 1, n)
             y == SubSeq(s, n + 1, Len(s))
  <1>1. /\ x \in Seq(S) /\ Len(x) = n /\ y \in Seq(S) /\ Len(y) = Len(s) - n
        /\ n \in Nat /\ n <= Len(s) /\ Len(s) \in Nat
        /\ \A i \in 1..n : x[i] = s[i]
        /\ \A i \in 1..(Len(s) - n) : y[i] = s[n + i]
    BY ChunkType
  <1> HIDE DEF x, y
  <1>2. Grouped(fed, x, y)
    BY <1>1, Grouping
  <1> DEFINE z == x \o y
  <1>3. /\ z \in Seq(S) /\ Len(z) = Len(s) /\ \A i \in 1..n : z[i] = x[i]
        /\ \A i \in 1..(Len(s) - n) : z[n + i] = y[i]
    BY <1>1
  <1> HIDE DEF z
  <1>4. ASSUME NEW i \in 1..Len(s) PROVE z[i] = s[i]
    <2>1. CASE i \in 1..n
      BY <1>1, <1>3, <2>1
    <2>2. CASE i \notin 1..n
      <3>1. i - n \in 1..(Len(s) - n) /\ n + (i - n) = i
        BY <1>1, <2>2
      <3>2. z[n + (i - n)] = y[i - n] /\ y[i - n] = s[n + (i - n)]
        BY <1>1, <1>3, <3>1
      <3> QED BY <3>1, <3>2
    <2> QED BY <2>1, <2>2
  <1>5. z = s
    BY <1>3, <1>4
  <1> QED BY <1>2, <1>5 DEF x, y, z

LEMMA FeedChunk ==
    ASSUME FeedInv, rest # <<>>,
           NEW n \in 1..(IF Len(rest) < MaxChunk THEN Len(rest) ELSE MaxChunk),
           rest' = SubSeq(rest, n + 1, Len(rest)), FromGdb(SubSeq(rest, 1, n))
    PROVE  FeedInv'
  <1> DEFINE x == SubSeq(rest, 1, n)
             y == SubSeq(rest, n + 1, Len(rest))
             now == [parser |-> parser, items |-> items, acks |-> acks]
  <1>1. PICK fed \in Seq(Byte), more \in Seq(Byte) : Took(fed, more)
    BY DEF FeedInv
  <1>2. /\ sent # <<>> /\ sent' = sent /\ rest' = y
        /\ parser' = After(now, x).parser /\ items' = After(now, x).items /\ acks' = After(now, x).acks
    BY DEF FromGdb, Feed, After
  <1> DEFINE a == After(Begin, fed)
  <1>3. rest = more /\ fed \o rest = FlattenSeq(Wires(sent)) /\ a \in Feeds
    BY <1>1, <1>2, BeginType, AfterType DEF Took
  <1>4. now = a
    <2>1. parser = a.parser /\ items = a.items /\ acks = a.acks
      BY <1>1 DEF Took
    <2> HIDE DEF a
    <2>2. a = [parser |-> a.parser, items |-> a.items, acks |-> a.acks]
      BY <1>3 DEF Feeds
    <2> QED BY <2>1, <2>2
  <1>5. rest \in Seq(Byte) /\ x \in Seq(Byte) /\ y \in Seq(Byte)
    <2>1. rest \in Seq(Byte)
      BY <1>1, <1>3
    <2> QED BY <2>1, ChunkType
  <1>6. Grouped(fed, x, y) /\ x \o y = rest
    BY <1>5, CutAgain
  <1> DEFINE more2 == fed \o x
  <1> HIDE DEF x, y, now
  <1>7. more2 \in Seq(Byte) /\ After(Begin, fed \o x) = After(a, x)
    BY <1>5, BeginType, AfterMore
  <1>8. more2 \o y = FlattenSeq(Wires(sent))
    BY <1>3, <1>6 DEF Grouped
  <1> HIDE DEF a
  <1>9. /\ parser' = After(Begin, more2).parser
        /\ items' = After(Begin, more2).items /\ acks' = After(Begin, more2).acks
    BY <1>2, <1>4, <1>7
  <1> HIDE DEF more2
  <1>10. PICK b \in Seq(Byte), c \in Seq(Byte) : b = more2 /\ c = y
    BY <1>5, <1>7
  <1>11. Took(b, c)'
    BY <1>2, <1>8, <1>9, <1>10 DEF Took
  <1>12. SentIs'
    BY <1>2 DEF FeedInv, SentIs
  <1> QED BY <1>11, <1>12 DEF FeedInv

LEMMA FeedStep ==
    ASSUME FeedInv, [Next]_vars
    PROVE  FeedInv'
  <1>1. ASSUME UNCHANGED gdb, sent = <<>> \/ rest' = rest PROVE FeedInv'
    <2>1. PICK fed \in Seq(Byte), more \in Seq(Byte) : Took(fed, more)
      BY DEF FeedInv
    <2>2. parser' = parser /\ items' = items /\ acks' = acks /\ sent' = sent
      BY <1>1 DEF gdb
    <2>3. Took(fed, more)' /\ SentIs'
      BY <1>1, <2>1, <2>2 DEF Took, FeedInv, SentIs
    <2> QED BY <2>3 DEF FeedInv
  <1>2. CASE Chunk
    <2>1. rest # <<>>
      BY <1>2 DEF Chunk
    <2>2. PICK n \in 1..(IF Len(rest) < MaxChunk THEN Len(rest) ELSE MaxChunk) :
             /\ rest' = SubSeq(rest, n + 1, Len(rest))
             /\ FromGdb(SubSeq(rest, 1, n)) \/ onSerialChunk(SubSeq(rest, 1, n))
      BY <1>2 DEF Chunk
    <2>3. CASE FromGdb(SubSeq(rest, 1, n))
      BY <2>1, <2>2, <2>3, FeedChunk
    <2>4. CASE onSerialChunk(SubSeq(rest, 1, n))
      BY <1>1, <2>4 DEF onSerialChunk
    <2> QED BY <2>2, <2>3, <2>4
  <1>3. CASE \E p \in Patterns : waitForSerial(p) \/ TimesOut(p)
    BY <1>1, <1>3 DEF waitForSerial, TimesOut
  <1>4. CASE UNCHANGED vars
    BY <1>1, <1>4 DEF vars
  <1> QED BY <1>2, <1>3, <1>4 DEF Next

\* Wherever GDB's stream is cut, the parser is where the bytes that have come bring it.
THEOREM FeedInvariant == Spec => []FeedInv
  <1>1. Init => FeedInv
    BY FeedInit
  <1>2. FeedInv /\ [Next]_vars => FeedInv'
    BY FeedStep
  <1> QED BY <1>1, <1>2, PTL DEF Spec

LEMMA FeedMatches == FeedInv => ItemsRecovered
  <1> SUFFICES ASSUME FeedInv PROVE ItemsRecovered
    OBVIOUS
  <1>1. PICK fed \in Seq(Byte), more \in Seq(Byte) : Took(fed, more)
    BY DEF FeedInv
  <1> DEFINE r == After(Begin, fed)
             m == Meant(sent)
             p == Packets(sent)
  <1>2. /\ fed \o more = FlattenSeq(Wires(sent)) /\ items = r.items /\ acks = r.acks
        /\ rest = <<>> => more = <<>>
    BY <1>1 DEF Took
  <1>3. r \in Feeds
    BY BeginType, AfterType
  <1>4. Matches(r, more, sent)
    <2>1. sent \in Seq(Range(sent)) /\ AllWellFormed(sent)
      BY DEF FeedInv, SentIs
    <2> QED BY <1>2, <2>1, FedMatches
  <1>5. r.items \in Seq(ItemType) /\ r.acks \in Seq({"+", "-"})
    BY <1>3, FeedsIs
  <1> HIDE DEF r
  <1>6. DOMAIN items = 1..Len(items) /\ DOMAIN acks = 1..Len(acks)
    BY <1>2, <1>5
  <1>7. /\ Len(items) <= Len(m) /\ Len(acks) <= Len(p)
        /\ \A i \in 1..Len(items) : Same(items[i], m[i])
        /\ \A i \in 1..Len(acks) : acks[i] = "+" <=> p[i].kind = "packet"
        /\ more = <<>> => Len(items) = Len(m) /\ Len(acks) = Len(p)
    BY <1>2, <1>4 DEF Matches
  <1> HIDE DEF m, p
  <1> QED BY <1>2, <1>6, <1>7 DEF ItemsRecovered, m, p

\* Whatever its packets hold and however its stream is cut, GDB's packets and interrupts are
\* handled once each, in order and as it meant them, and each packet is answered once
\* (rsp/packet.ts, feed of rsp/server.ts).
THEOREM ItemsRecoveredAlways == Spec => []ItemsRecovered
  <1>1. FeedInv => ItemsRecovered
    BY FeedMatches
  <1> QED BY <1>1, FeedInvariant, PTL
=============================================================================
