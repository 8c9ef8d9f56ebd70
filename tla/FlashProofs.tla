------------------------------ MODULE FlashProofs -----------------------------
(***************************************************************************)
(* Proofs about the probe's operations, transfer by transfer.  A script is *)
(* a sequence flattened of others, so the lemmas about scripts go by what  *)
(* is closed under concatenation; the state's invariants only say what the *)
(* transfers that are left will still do.  That the flash holds what was   *)
(* asked for is an invariant of every word of the image: it is right, or   *)
(* its erase and its block are still to come - or it is still to be read   *)
(* back.                                                                   *)
(***************************************************************************)
EXTENDS Flash, TLAPS, WellFoundedInduction

-----------------------------------------------------------------------------
(* Sequences *)

LEMMA TailAt ==
    ASSUME NEW S, NEW q \in Seq(S), q # <<>>
    PROVE  /\ Len(q) \in Nat \ {0} /\ Head(q) = q[1] /\ Head(q) \in S /\ Tail(q) \in Seq(S)
           /\ DOMAIN q = 1 .. Len(q) /\ DOMAIN Tail(q) = 1 .. Len(q) - 1
           /\ \A i \in DOMAIN Tail(q) : i + 1 \in DOMAIN q /\ Tail(q)[i] = q[i + 1]
           /\ \A i \in DOMAIN q \ {1} : i - 1 \in DOMAIN Tail(q) /\ Tail(q)[i - 1] = q[i]
  OBVIOUS

LEMMA TailLen ==
    ASSUME NEW S, NEW q \in Seq(S), q # <<>>
    PROVE  Len(Tail(q)) = Len(q) - 1 /\ (Tail(q) = <<>> <=> Len(q) = 1)
  <1>1. Tail(q) \in Seq(S) /\ Len(Tail(q)) = Len(q) - 1 /\ Len(q) \in Nat \ {0}
    OBVIOUS
  <1>2. PICK t : t = Tail(q)
    OBVIOUS
  <1>3. t \in Seq(S) /\ Len(t) = Len(q) - 1
    BY <1>1, <1>2
  <1>4. t = <<>> <=> Len(t) = 0
    BY <1>3
  <1>5. QED BY <1>1, <1>2, <1>3, <1>4

LEMMA ElementAt ==
    ASSUME NEW S, NEW q \in Seq(S)
    PROVE  Len(q) \in Nat /\ DOMAIN q = 1..Len(q) /\ \A i \in DOMAIN q : i \in Nat /\ q[i] \in S
  OBVIOUS

LEMMA AsSeq ==
    ASSUME NEW S, NEW m \in Nat, NEW f \in [1..m -> S]
    PROVE  f \in Seq(S) /\ Len(f) = m /\ DOMAIN f = 1..m
  OBVIOUS

LEMMA JoinAt ==
    ASSUME NEW S, NEW a \in Seq(S), NEW b \in Seq(S)
    PROVE  /\ a \o b \in Seq(S) /\ Len(a) \in Nat
           /\ DOMAIN a = 1..Len(a) /\ DOMAIN b = 1..Len(b)
           /\ DOMAIN (a \o b) = 1 .. Len(a) + Len(b)
           /\ \A i \in DOMAIN a : i \in DOMAIN (a \o b) /\ (a \o b)[i] = a[i]
           /\ \A i \in DOMAIN b : Len(a) + i \in DOMAIN (a \o b) /\ (a \o b)[Len(a) + i] = b[i]
           /\ \A i \in DOMAIN (a \o b) : i \notin DOMAIN a =>
                  i - Len(a) \in DOMAIN b /\ (a \o b)[i] = b[i - Len(a)]
  OBVIOUS

\* Natural numbers have a smallest one among them.
LEMMA Smallest ==
    ASSUME NEW N \in SUBSET Nat, N # {}
    PROVE  \E m \in N : \A n \in N : m <= n
  <1>1. PICK m \in N : \A n \in N : ~ (<<n, m>> \in OpToRel(<, Nat))
    BY WFMin, NatLessThanWellFounded
  <1>2. \A n \in N : ~ (n < m)
    BY <1>1 DEF OpToRel
  <1>3. QED BY <1>2

\* What FlattenSeq computes, if there is such a function.
Joins(f, n, seqs) ==
    f = [i \in 1..n |-> IF i = 1 THEN seqs[i] ELSE f[i - 1] \o seqs[i]]

LEMMA JoinsExists ==
    ASSUME NEW n \in Nat, NEW seqs
    PROVE  \E f : Joins(f, n, seqs)
  <1> DEFINE N == {m \in Nat : ~\E f : Joins(f, m, seqs)}
  <1>1. SUFFICES ASSUME N # {} PROVE FALSE
    OBVIOUS
  <1>2. PICK m \in N : \A k \in N : m <= k
    BY <1>1, Smallest
  <1>3. m \in Nat /\ ~\E f : Joins(f, m, seqs)
    BY <1>2
  <1>4. m # 0
    <2>1. Joins([i \in 1..0 |-> 0], 0, seqs)
      BY DEF Joins
    <2>2. QED BY <1>3, <2>1
  <1>5. PICK f : Joins(f, m - 1, seqs)
    <2>1. m - 1 \in Nat /\ m - 1 \notin N
      BY <1>2, <1>3, <1>4
    <2>2. QED BY <2>1
  <1> DEFINE g == [i \in 1..m |-> IF i < m THEN f[i]
                                  ELSE IF m = 1 THEN seqs[m] ELSE f[m - 1] \o seqs[m]]
  <1>6. \A i \in 1..m : g[i] = IF i = 1 THEN seqs[i] ELSE g[i - 1] \o seqs[i]
    <2>1. TAKE i \in 1..m
    <2>2. CASE i = m
      BY <2>2, <1>3, <1>4
    <2>3. CASE i # m
      <3>1. i \in 1..(m - 1) /\ i < m /\ i - 1 < m
        BY <2>3, <1>3
      <3>2. f[i] = IF i = 1 THEN seqs[i] ELSE f[i - 1] \o seqs[i]
        BY <3>1, <1>5 DEF Joins
      <3>3. g[i] = f[i] /\ (i # 1 => g[i - 1] = f[i - 1])
        BY <3>1, <1>3
      <3>4. QED BY <3>2, <3>3
    <2>4. QED BY <2>2, <2>3
  <1>7. g = [i \in 1..m |-> g[i]]
    OBVIOUS
  <1> HIDE DEF g
  <1>8. Joins(g, m, seqs)
    BY <1>6, <1>7 DEF Joins
  <1>9. QED BY <1>3, <1>8

\* A set of sequences that is closed under concatenation holds whatever is
\* flattened of its sequences.
LEMMA Flattened ==
    ASSUME NEW S, <<>> \in S, \A a, b \in S : a \o b \in S,
           NEW n \in Nat, NEW seqs \in [1..n -> S]
    PROVE  FlattenSeq(seqs) \in S
  <1>1. Len(seqs) = n
    OBVIOUS
  <1>2. CASE n = 0
    <2>1. seqs = <<>>
      BY <1>2
    <2>2. QED BY <1>1, <1>2, <2>1 DEF FlattenSeq
  <1>3. CASE n # 0
    <2> DEFINE F == CHOOSE f : f = [i \in 1..n |-> IF i = 1 THEN seqs[i] ELSE f[i - 1] \o seqs[i]]
    <2>1. FlattenSeq(seqs) = F[n]
      BY <1>1, <1>3 DEF FlattenSeq
    <2>2. Joins(F, n, seqs)
      BY JoinsExists DEF Joins
    <2> HIDE DEF F
    <2> DEFINE N == {m \in Nat : m \in 1..n /\ F[m] \notin S}
    <2>3. N = {}
      <3>1. SUFFICES ASSUME N # {} PROVE FALSE
        OBVIOUS
      <3>2. PICK m \in N : \A k \in N : m <= k
        BY <3>1, Smallest
      <3>3. m \in 1..n /\ F[m] \notin S /\ F[m] = IF m = 1 THEN seqs[m] ELSE F[m - 1] \o seqs[m]
        BY <3>2, <2>2 DEF Joins
      <3>4. m # 1
        BY <3>3
      <3>5. F[m - 1] \in S
        <4>1. m - 1 \in 1..n /\ m - 1 \notin N
          BY <3>2, <3>3, <3>4
        <4>2. QED BY <4>1
      <3>6. QED BY <3>3, <3>4, <3>5
    <2>4. QED BY <2>1, <2>3, <1>3
  <1>4. QED BY <1>2, <1>3

\* Start is the sum it says.
Adds(f, n) == f = [s \in 0..n |-> IF s = 0 THEN 0 ELSE f[s - 1] + Sizes[s]]

LEMMA AddsExists ==
    ASSUME NEW n \in Nat
    PROVE  \E f : Adds(f, n)
  <1> DEFINE N == {m \in Nat : ~\E f : Adds(f, m)}
  <1>1. SUFFICES ASSUME N # {} PROVE FALSE
    OBVIOUS
  <1>2. PICK m \in N : \A k \in N : m <= k
    BY <1>1, Smallest
  <1>3. m \in Nat /\ ~\E f : Adds(f, m)
    BY <1>2
  <1>4. m # 0
    <2>1. Adds([s \in 0..0 |-> 0], 0)
      BY DEF Adds
    <2>2. QED BY <1>3, <2>1
  <1>5. PICK f : Adds(f, m - 1)
    <2>1. m - 1 \in Nat /\ m - 1 \notin N
      BY <1>2, <1>3, <1>4
    <2>2. QED BY <2>1
  <1> DEFINE g == [s \in 0..m |-> IF s < m THEN f[s] ELSE f[m - 1] + Sizes[m]]
  <1>6. \A s \in 0..m : g[s] = IF s = 0 THEN 0 ELSE g[s - 1] + Sizes[s]
    <2>1. TAKE s \in 0..m
    <2>2. CASE s = m
      BY <2>2, <1>3, <1>4
    <2>3. CASE s # m
      <3>1. s \in 0..(m - 1) /\ s < m /\ s - 1 < m
        BY <2>3, <1>3
      <3>2. f[s] = IF s = 0 THEN 0 ELSE f[s - 1] + Sizes[s]
        BY <3>1, <1>5 DEF Adds
      <3>3. g[s] = f[s] /\ (s # 0 => g[s - 1] = f[s - 1])
        BY <3>1, <1>3
      <3>4. QED BY <3>2, <3>3
    <2>4. QED BY <2>2, <2>3
  <1>7. g = [s \in 0..m |-> g[s]]
    OBVIOUS
  <1> HIDE DEF g
  <1>8. Adds(g, m)
    BY <1>6, <1>7 DEF Adds
  <1>9. QED BY <1>3, <1>8

LEMMA StartAt ==
    \A s \in 0..Len(Sizes) : Start[s] = IF s = 0 THEN 0 ELSE Start[s - 1] + Sizes[s]
  <1>1. Len(Sizes) \in Nat
    BY FlashAssumption
  <1>2. Adds(Start, Len(Sizes))
    BY <1>1, AddsExists DEF Adds, Start
  <1> HIDE DEF Start
  <1>3. QED BY <1>2 DEF Adds

\* The sectors lie side by side, from 0 to the window's end.
LEMMA Layout ==
    /\ Len(Sizes) \in Nat /\ Total \in Nat
    /\ \A s \in 0..Len(Sizes) : Start[s] \in Nat
    /\ \A s \in Sectors : /\ Sizes[s + 1] \in Nat \ {0} /\ Start[s] + Sizes[s + 1] = Start[s + 1]
                          /\ Start[s] \in Nat
    /\ Start[0] = 0 /\ Start[Len(Sizes)] = Total
  <1>1. Len(Sizes) \in Nat /\ \A s \in 1..Len(Sizes) : Sizes[s] \in Nat \ {0}
    BY FlashAssumption
  <1> DEFINE N == {m \in Nat : m \in 0..Len(Sizes) /\ Start[m] \notin Nat}
  <1>2. N = {}
    <2>1. SUFFICES ASSUME N # {} PROVE FALSE
      OBVIOUS
    <2>2. PICK m \in N : \A k \in N : m <= k
      BY <2>1, Smallest
    <2>3. m \in 0..Len(Sizes) /\ Start[m] \notin Nat /\ m # 0
      BY <2>2, StartAt
    <2>4. m - 1 \in 0..Len(Sizes) /\ m - 1 \notin N
      BY <2>2, <2>3, <1>1
    <2>5. Start[m - 1] \in Nat /\ Sizes[m] \in Nat /\ Start[m] = Start[m - 1] + Sizes[m]
      BY <2>3, <2>4, <1>1, StartAt
    <2>6. QED BY <2>3, <2>5
  <1>3. \A s \in 0..Len(Sizes) : Start[s] \in Nat
    BY <1>2, <1>1
  <1>4. ASSUME NEW s \in Sectors
        PROVE  /\ Sizes[s + 1] \in Nat \ {0} /\ Start[s] + Sizes[s + 1] = Start[s + 1]
               /\ Start[s] \in Nat
    <2>1. s \in 0..Len(Sizes) /\ s + 1 \in 0..Len(Sizes) /\ s + 1 \in 1..Len(Sizes) /\ s + 1 # 0
          /\ (s + 1) - 1 = s
      BY <1>1 DEF Sectors
    <2>2. QED BY <2>1, <1>1, <1>3, StartAt
  <1>5. Start[0] = 0 /\ Total = Start[Len(Sizes)] /\ Total \in Nat
    BY <1>1, <1>3, StartAt DEF Total
  <1>6. QED BY <1>1, <1>3, <1>4, <1>5

\* Every word of the window is in a sector.
LEMMA InSector ==
    ASSUME NEW w \in Window
    PROVE  \E s \in Sectors : w \in Sector(s)
  <1> DEFINE N == {m \in Nat : m \in 0..Len(Sizes) /\ w < Start[m]}
  <1>1. Len(Sizes) \in Nat /\ w \in Nat /\ w < Start[Len(Sizes)]
    BY Layout DEF Window
  <1>2. Len(Sizes) \in N
    BY <1>1
  <1>3. PICK m \in N : \A k \in N : m <= k
    BY <1>2, Smallest
  <1>4. m \in 0..Len(Sizes) /\ w < Start[m] /\ m # 0
    BY <1>1, <1>3, Layout
  <1>5. m - 1 \in Sectors /\ m - 1 \notin N /\ m - 1 \in Nat
    BY <1>1, <1>3, <1>4 DEF Sectors
  <1>6. Start[m - 1] <= w /\ Start[m - 1] \in Nat /\ Sizes[(m - 1) + 1] \in Nat
        /\ Start[m - 1] + Sizes[(m - 1) + 1] = Start[(m - 1) + 1] /\ (m - 1) + 1 = m
    BY <1>1, <1>4, <1>5, Layout
  <1>7. w \in Sector(m - 1)
    BY <1>1, <1>4, <1>6 DEF Sector
  <1>8. QED BY <1>5, <1>7

-----------------------------------------------------------------------------
(* What is left to do: transfers of some kind, and those that make up for   *)
(* others.                                                                  *)

Has(q, D) == \E i \in DOMAIN q : q[i].do \in D
Followed(q, C, D) == \A i \in DOMAIN q : q[i].do \in C => \E j \in DOMAIN q : j > i /\ q[j].do \in D
Settles(q, C, D) == Followed(q, C, D) /\ Has(q, D)

LEMMA HasTail ==
    ASSUME NEW S, NEW q \in Seq(S), q # <<>>, NEW D
    PROVE  /\ Has(q, D) => Head(q).do \in D \/ Has(Tail(q), D)
           /\ Has(Tail(q), D) => Has(q, D)
  <1>1. ASSUME NEW i \in DOMAIN q, q[i].do \in D
        PROVE  Head(q).do \in D \/ Has(Tail(q), D)
    BY <1>1, TailAt DEF Has
  <1>2. ASSUME NEW i \in DOMAIN Tail(q), Tail(q)[i].do \in D
        PROVE  Has(q, D)
    BY <1>2, TailAt DEF Has
  <1>3. QED BY <1>1, <1>2 DEF Has

LEMMA FollowedTail ==
    ASSUME NEW S, NEW q \in Seq(S), q # <<>>, NEW C, NEW D, Followed(q, C, D)
    PROVE  Followed(Tail(q), C, D) /\ (Head(q).do \in C => Has(Tail(q), D))
  <1>1. ASSUME NEW i \in DOMAIN Tail(q), Tail(q)[i].do \in C
        PROVE  \E j \in DOMAIN Tail(q) : j > i /\ Tail(q)[j].do \in D
    <2>1. i + 1 \in DOMAIN q /\ q[i + 1] = Tail(q)[i] /\ i \in Nat
      BY TailAt
    <2>2. PICK j \in DOMAIN q : j > i + 1 /\ q[j].do \in D
      BY <1>1, <2>1 DEF Followed
    <2>3. j - 1 \in DOMAIN Tail(q) /\ Tail(q)[j - 1] = q[j] /\ j - 1 > i
      BY <2>1, <2>2, TailAt
    <2>4. QED BY <2>2, <2>3
  <1>2. ASSUME Head(q).do \in C PROVE Has(Tail(q), D)
    <2>1. 1 \in DOMAIN q /\ q[1] = Head(q)
      BY TailAt
    <2>2. PICK j \in DOMAIN q : j > 1 /\ q[j].do \in D
      BY <1>2, <2>1 DEF Followed
    <2>3. j - 1 \in DOMAIN Tail(q) /\ Tail(q)[j - 1] = q[j]
      BY <2>2, TailAt
    <2>4. QED BY <2>2, <2>3 DEF Has
  <1>3. QED BY <1>1, <1>2 DEF Followed

\* A transfer passes: what is owed is still to come, or is so.
LEMMA Settling ==
    ASSUME NEW S, NEW q \in Seq(S), q # <<>>, NEW C, NEW D, NEW good, NEW then,
           Followed(q, C, D), Has(q, D) \/ good,
           good /\ Head(q).do \notin C => then, Head(q).do \in D => then
    PROVE  Followed(Tail(q), C, D) /\ (Has(Tail(q), D) \/ then)
  BY HasTail, FollowedTail

LEMMA HasJoin ==
    ASSUME NEW S, NEW a \in Seq(S), NEW b \in Seq(S), NEW D, Has(a, D) \/ Has(b, D)
    PROVE  Has(a \o b, D)
  <1>1. ASSUME NEW i \in DOMAIN a, a[i].do \in D PROVE Has(a \o b, D)
    BY <1>1, JoinAt DEF Has
  <1>2. ASSUME NEW i \in DOMAIN b, b[i].do \in D PROVE Has(a \o b, D)
    <2>1. Len(a) + i \in DOMAIN (a \o b) /\ (a \o b)[Len(a) + i] = b[i]
      BY JoinAt
    <2>2. QED BY <1>2, <2>1 DEF Has
  <1>3. QED BY <1>1, <1>2 DEF Has

LEMMA FollowedJoin ==
    ASSUME NEW S, NEW a \in Seq(S), NEW b \in Seq(S), NEW C, NEW D,
           Followed(a, C, D) \/ Has(b, D), Followed(b, C, D)
    PROVE  Followed(a \o b, C, D)
  <1> DEFINE q == a \o b
  <1>1. SUFFICES ASSUME NEW i \in DOMAIN q, q[i].do \in C
                 PROVE  \E j \in DOMAIN q : j > i /\ q[j].do \in D
    BY DEF Followed
  <1>2. CASE i \in DOMAIN a
    <2>1. CASE Followed(a, C, D)
      <3>1. PICK j \in DOMAIN a : j > i /\ a[j].do \in D
        BY <1>1, <1>2, <2>1, JoinAt DEF Followed
      <3>2. QED BY <3>1, JoinAt
    <2>2. CASE Has(b, D)
      <3>1. PICK j \in DOMAIN b : b[j].do \in D
        BY <2>2 DEF Has
      <3>2. Len(a) + j \in DOMAIN q /\ q[Len(a) + j] = b[j] /\ Len(a) + j > i
        BY <3>1, <1>2, JoinAt
      <3>3. QED BY <3>1, <3>2
    <2>3. QED BY <2>1, <2>2
  <1>3. CASE i \notin DOMAIN a
    <2>1. i - Len(a) \in DOMAIN b /\ q[i] = b[i - Len(a)]
      BY <1>3, JoinAt
    <2>2. PICK j \in DOMAIN b : j > i - Len(a) /\ b[j].do \in D
      BY <1>1, <2>1 DEF Followed
    <2>3. Len(a) + j \in DOMAIN q /\ q[Len(a) + j] = b[j] /\ Len(a) + j > i
      BY <2>1, <2>2, JoinAt
    <2>4. QED BY <2>2, <2>3
  <1>4. QED BY <1>2, <1>3

LEMMA SettlesJoin ==
    ASSUME NEW S, NEW a \in Seq(S), NEW b \in Seq(S), NEW C, NEW D,
           Settles(b, C, D) \/ (Settles(a, C, D) /\ Followed(b, C, D))
    PROVE  Settles(a \o b, C, D)
  BY HasJoin, FollowedJoin DEF Settles

LEMMA NoneFollowed ==
    ASSUME NEW q, NEW C, NEW D, ~Has(q, C)
    PROVE  Followed(q, C, D)
  BY DEF Has, Followed

-----------------------------------------------------------------------------
(* Transfers *)

Made(D, G) == [do : D, at : Int, n : Int, guard : G]

LEMMA MadeGrows ==
    ASSUME NEW D, NEW G, NEW E, NEW H, D \subseteq E, G \subseteq H, NEW q \in Seq(Made(D, G))
    PROVE  q \in Seq(Made(E, H))
  <1>1. Made(D, G) \subseteq Made(E, H)
    BY DEF Made
  <1>2. QED BY <1>1

LEMMA OnAt ==
    ASSUME NEW d, NEW at \in Int, NEW n \in Int
    PROVE  /\ On(d, at, n) = [do |-> d, at |-> at, n |-> n, guard |-> "none"]
           /\ On(d, at, n) \in Made({d}, {"none"})
           /\ X(d) = [do |-> d, at |-> 0, n |-> 0, guard |-> "none"]
           /\ X(d) \in Made({d}, {"none"})
  <1>1. X(d) = [do |-> d, at |-> 0, n |-> 0, guard |-> "none"]
    BY DEF X
  <1>2. PICK x : x = X(d)
    OBVIOUS
  <1>3. x \in Made({d}, {"none"})
    BY <1>1, <1>2 DEF Made
  <1> DEFINE y == [x EXCEPT !.at = at, !.n = n]
  <1>4. y \in Made({d}, {"none"}) /\ y.at = at /\ y.n = n
    BY <1>3 DEF Made
  <1>5. y = On(d, at, n)
    BY <1>2 DEF On
  <1> HIDE DEF y
  <1>6. y = [do |-> d, at |-> at, n |-> n, guard |-> "none"]
    BY <1>4 DEF Made
  <1>7. QED BY <1>1, <1>2, <1>3, <1>4, <1>5, <1>6

LEMMA Plain ==
    ASSUME NEW D, NEW d \in D
    PROVE  X(d) \in Made(D, {"none"}) /\ X(d).do = d
  <1>1. X(d) = [do |-> d, at |-> 0, n |-> 0, guard |-> "none"]
    BY DEF X
  <1>2. QED BY <1>1 DEF Made

LEMMA OneTransfer ==
    ASSUME NEW D, NEW d \in D
    PROVE  /\ <<X(d)>> \in Seq(Made(D, {"none"})) /\ Len(<<X(d)>>) = 1
           /\ DOMAIN <<X(d)>> = {1} /\ <<X(d)>>[1] = X(d) /\ X(d).do = d
           /\ \A E : Has(<<X(d)>>, E) <=> d \in E
           /\ \A C, E : d \notin C => Followed(<<X(d)>>, C, E)
  <1>1. X(d).do = d /\ X(d) \in Made(D, {"none"})
    BY Plain
  <1>2. <<X(d)>> \in Seq(Made(D, {"none"})) /\ DOMAIN <<X(d)>> = {1} /\ <<X(d)>>[1] = X(d)
        /\ Len(<<X(d)>>) = 1
    BY <1>1
  <1>3. \A E : Has(<<X(d)>>, E) <=> d \in E
    BY <1>1, <1>2 DEF Has
  <1>4. \A C, E : d \notin C => Followed(<<X(d)>>, C, E)
    BY <1>1, <1>2 DEF Followed
  <1>5. QED BY <1>1, <1>2, <1>3, <1>4

Same(u, q) ==
    /\ DOMAIN u = DOMAIN q
    /\ \A i \in DOMAIN q : u[i].do = q[i].do /\ u[i].at = q[i].at /\ u[i].n = q[i].n

\* The `finally` around a transfer does not change what it does.
LEMMA UnderAt ==
    ASSUME NEW D, NEW G, NEW q \in Seq(Made(D, G)), NEW g
    PROVE  /\ Under(g, q) \in Seq(Made(D, {g})) /\ Same(Under(g, q), q)
           /\ \A E : Has(Under(g, q), E) <=> Has(q, E)
           /\ \A C, E : Followed(Under(g, q), C, E) <=> Followed(q, C, E)
  <1>1. \A t \in Made(D, G) : [t EXCEPT !.guard = g] \in Made(D, {g})
    BY DEF Made
  <1>2. \A t \in Made(D, G) : /\ [t EXCEPT !.guard = g].do = t.do
                              /\ [t EXCEPT !.guard = g].at = t.at
                              /\ [t EXCEPT !.guard = g].n = t.n
    BY DEF Made
  <1>3. DOMAIN q = 1..Len(q) /\ Len(q) \in Nat /\ \A i \in DOMAIN q : q[i] \in Made(D, G)
    OBVIOUS
  <1>4. PICK u : u = Under(g, q)
    OBVIOUS
  <1>5. u \in [1..Len(q) -> Made(D, {g})]
    BY <1>1, <1>3, <1>4 DEF Under
  <1>6. \A i \in DOMAIN q : u[i] = [q[i] EXCEPT !.guard = g]
    BY <1>4 DEF Under
  <1>7. u \in Seq(Made(D, {g})) /\ DOMAIN u = DOMAIN q
    BY <1>3, <1>5, AsSeq
  <1>8. \A i \in DOMAIN q : u[i].do = q[i].do /\ u[i].at = q[i].at /\ u[i].n = q[i].n
    BY <1>2, <1>3, <1>6
  <1>9. \A E : Has(u, E) <=> Has(q, E)
    BY <1>7, <1>8 DEF Has
  <1>10. \A C, E : Followed(u, C, E) <=> Followed(q, C, E)
    BY <1>7, <1>8 DEF Followed
  <1>11. Same(u, q)
    BY <1>7, <1>8 DEF Same
  <1>12. QED BY <1>4, <1>7, <1>9, <1>10, <1>11

\* A join of two of these is one.
LEMMA MadeJoin ==
    ASSUME NEW D, NEW G, NEW a \in Seq(Made(D, G)), NEW b \in Seq(Made(D, G))
    PROVE  a \o b \in Seq(Made(D, G))
  BY JoinAt

-----------------------------------------------------------------------------
(* Blocks *)

LEMMA Quotient ==
    ASSUME NEW a \in Nat, NEW b \in Nat \ {0}
    PROVE  /\ a \div b \in Nat /\ (a \div b) * b <= a /\ a < (a \div b) * b + b
  OBVIOUS

LEMMA Grows ==
    ASSUME NEW a \in Int, NEW b \in Int, NEW c \in Nat, a <= b
    PROVE  a * c \in Int /\ b * c \in Int /\ a * c <= b * c
  OBVIOUS

LEMMA Next1 ==
    ASSUME NEW a \in Int, NEW c \in Nat
    PROVE  (a - 1) * c \in Int /\ a * c = (a - 1) * c + c
  OBVIOUS

Count(n, max) == (n + max - 1) \div max

\* The number of blocks is right: the last one begins before the end, and ends
\* at it.
LEMMA CountRight ==
    ASSUME NEW n \in Nat, NEW max \in Nat \ {0}
    PROVE  /\ Count(n, max) \in Nat /\ (n > 0 => Count(n, max) > 0) /\ (n = 0 => Count(n, max) = 0)
           /\ \A i \in 1..Count(n, max) : (i - 1) * max \in Nat /\ (i - 1) * max < n /\ i * max \in Nat
           /\ \A i \in 1..Count(n, max) - 1 : i * max < n
           /\ Count(n, max) * max \in Nat /\ Count(n, max) * max >= n
  <1> DEFINE m == Count(n, max)
  <1>1. n + max - 1 \in Nat
    OBVIOUS
  <1>2. m \in Nat /\ m * max <= n + max - 1 /\ n + max - 1 < m * max + max /\ m * max \in Nat
    BY <1>1, Quotient DEF Count
  <1> HIDE DEF m
  <1>3. ASSUME NEW i \in 1..m
        PROVE  (i - 1) * max \in Nat /\ (i - 1) * max < n /\ i * max \in Nat
    <2>1. i * max <= m * max /\ i * max \in Int
      BY <1>2, Grows
    <2>2. i * max = (i - 1) * max + max /\ (i - 1) * max \in Int
      BY Next1
    <2>3. 0 * max <= (i - 1) * max /\ 0 * max = 0
      BY <1>2, Grows
    <2>4. QED BY <1>2, <2>1, <2>2, <2>3
  <1>4. ASSUME NEW i \in 1..m - 1 PROVE i * max < n
    <2>1. i + 1 \in 1..m /\ (i + 1) - 1 = i
      BY <1>2
    <2>2. QED BY <1>3, <2>1
  <1>5. n > 0 => m > 0
    <2>1. SUFFICES ASSUME n > 0, m = 0 PROVE FALSE
      BY <1>2
    <2>2. QED BY <1>2, <2>1
  <1>6. n = 0 => m = 0
    <2>1. SUFFICES ASSUME n = 0, m > 0 PROVE FALSE
      BY <1>2
    <2>2. m \in 1..m
      BY <1>2, <2>1
    <2>3. QED BY <1>3, <2>1, <2>2
  <1>7. m * max >= n
    BY <1>2
  <1>8. QED BY <1>2, <1>3, <1>4, <1>5, <1>6, <1>7 DEF m

\* Transfers that lie side by side, from the start to the end.
Tiles(b, d, at, n, max) ==
    /\ b \in Seq(Made({d}, {"none"})) /\ DOMAIN b = 1..Len(b) /\ Len(b) \in Nat
    /\ b # <<>> => b[1].at = at /\ b[Len(b)].at + b[Len(b)].n = at + n
    /\ b = <<>> => n = 0
    /\ \A i \in 1..Len(b) - 1 : b[i].n = max /\ b[i].at + b[i].n = b[i + 1].at
    /\ \A i \in 1..Len(b) : /\ b[i].do = d /\ b[i].at \in Nat /\ b[i].at >= at
                            /\ b[i].n \in Nat \ {0} /\ b[i].at + b[i].n <= at + n

LEMMA BlocksAt ==
    ASSUME NEW d, NEW at \in Nat, NEW n \in Nat, NEW max \in Nat \ {0}
    PROVE  Tiles(Blocks(d, at, n, max), d, at, n, max)
  <1>0. PICK m : m = Count(n, max)
    OBVIOUS
  <1> DEFINE b == Blocks(d, at, n, max)
             Place(i) == at + (i - 1) * max
             Size(i) == IF i * max <= n THEN max ELSE n - (i - 1) * max
  <1>1. /\ m \in Nat /\ (n > 0 => m > 0) /\ (n = 0 => m = 0)
        /\ \A i \in 1..m : (i - 1) * max \in Nat /\ (i - 1) * max < n /\ i * max \in Nat
        /\ \A i \in 1..m - 1 : i * max < n
        /\ m * max \in Nat /\ m * max >= n
    BY <1>0, CountRight
  <1>2. b = [i \in 1..m |-> On(d, Place(i), Size(i))]
    BY <1>0 DEF Blocks, Count
  <1>3. ASSUME NEW i \in 1..m
        PROVE  /\ Place(i) \in Nat /\ Place(i) >= at
               /\ Size(i) \in Nat \ {0} /\ Place(i) + Size(i) <= at + n
    <2>1. i * max = (i - 1) * max + max
      BY <1>1, Next1
    <2>2. QED BY <1>1, <2>1
  <1>4. ASSUME NEW i \in 1..m - 1
        PROVE  Place(i) + Size(i) = Place(i + 1) /\ Size(i) = max
    <2>1. i * max = (i - 1) * max + max /\ (i + 1) - 1 = i /\ i * max < n /\ (i - 1) * max \in Nat
      BY <1>1, Next1
    <2>2. QED BY <1>1, <2>1
  <1>5. n > 0 => Place(1) = at /\ Place(m) + Size(m) = at + n
    <2>1. SUFFICES ASSUME n > 0 PROVE Place(1) = at /\ Place(m) + Size(m) = at + n
      OBVIOUS
    <2>2. m \in 1..m
      BY <2>1, <1>1
    <2>3. m * max = (m - 1) * max + max /\ (m - 1) * max \in Nat /\ (m - 1) * max < n
      BY <2>2, <1>1, Next1
    <2>4. Place(m) + Size(m) = at + n
      BY <2>3, <1>1
    <2>5. (1 - 1) * max = 0
      OBVIOUS
    <2>6. QED BY <2>4, <2>5
  <1> HIDE DEF Place, Size, b
  <1>6. ASSUME NEW i \in 1..m
        PROVE  b[i] \in Made({d}, {"none"}) /\ b[i].do = d /\ b[i].at = Place(i) /\ b[i].n = Size(i)
    <2>1. b[i] = On(d, Place(i), Size(i))
      BY <1>2
    <2>2. Place(i) \in Int /\ Size(i) \in Int
      BY <1>3
    <2>3. b[i] = [do |-> d, at |-> Place(i), n |-> Size(i), guard |-> "none"]
          /\ b[i] \in Made({d}, {"none"})
      BY <2>1, <2>2, OnAt
    <2>4. QED BY <2>3
  <1>7. b \in Seq(Made({d}, {"none"})) /\ Len(b) = m /\ DOMAIN b = 1..m
    <2>1. b \in [1..m -> Made({d}, {"none"})]
      BY <1>2, <1>6
    <2>2. QED BY <1>1, <2>1, AsSeq
  <1>8. ASSUME NEW i \in 1..m
        PROVE  /\ b[i].do = d /\ b[i].at \in Nat /\ b[i].at >= at
               /\ b[i].n \in Nat \ {0} /\ b[i].at + b[i].n <= at + n
    BY <1>3, <1>6, <1>7
  <1>9. Tiles(b, d, at, n, max)
    <2>1. (b = <<>>) <=> m = 0
      BY <1>7
    <2>2. n = 0 <=> m = 0
      BY <1>1
    <2>3. \A i \in 1..m - 1 : i \in 1..m /\ i + 1 \in 1..m
      BY <1>1
    <2>4. \A i \in 1..m - 1 : b[i].n = max /\ b[i].at + b[i].n = b[i + 1].at
      BY <2>3, <1>4, <1>6
    <2>5. m # 0 => b[1].at = at /\ b[m].at + b[m].n = at + n
      <3>1. m # 0 => 1 \in 1..m /\ m \in 1..m /\ n > 0
        BY <1>1, <2>2
      <3>2. QED BY <3>1, <1>5, <1>6
    <2>6. QED BY <2>1, <2>2, <2>4, <2>5, <1>1, <1>7, <1>8 DEF Tiles
  <1>10. QED BY <1>9 DEF b

-----------------------------------------------------------------------------
(* Scripts *)

\* Nothing of D is behind anything of C.
Ahead(q, D, C) == \A i, j \in DOMAIN q : q[i].do \in C /\ q[j].do \in D => j < i

LEMMA AheadTail ==
    ASSUME NEW S, NEW q \in Seq(S), q # <<>>, NEW C, NEW D, Ahead(q, D, C)
    PROVE  Ahead(Tail(q), D, C) /\ (Head(q).do \in C => ~Has(q, D))
  <1>1. ASSUME NEW i \in DOMAIN Tail(q), NEW j \in DOMAIN Tail(q),
               Tail(q)[i].do \in C, Tail(q)[j].do \in D
        PROVE  j < i
    <2>1. i + 1 \in DOMAIN q /\ q[i + 1] = Tail(q)[i] /\ j + 1 \in DOMAIN q /\ q[j + 1] = Tail(q)[j]
          /\ i \in Nat /\ j \in Nat
      BY TailAt
    <2>2. j + 1 < i + 1
      BY <1>1, <2>1 DEF Ahead
    <2>3. QED BY <2>1, <2>2
  <1>2. ASSUME Head(q).do \in C PROVE ~Has(q, D)
    <2>1. 1 \in DOMAIN q /\ q[1] = Head(q) /\ \A j \in DOMAIN q : ~(j < 1)
      BY TailAt
    <2>2. QED BY <1>2, <2>1 DEF Ahead, Has
  <1>3. QED BY <1>1, <1>2 DEF Ahead

LEMMA AheadJoin ==
    ASSUME NEW S, NEW a \in Seq(S), NEW b \in Seq(S), NEW C, NEW D, Ahead(a, D, C), Ahead(b, D, C),
           ~Has(a, C) \/ ~Has(b, D)
    PROVE  Ahead(a \o b, D, C)
  <1> DEFINE q == a \o b
  <1>1. SUFFICES ASSUME NEW i \in DOMAIN q, NEW j \in DOMAIN q, q[i].do \in C, q[j].do \in D
                 PROVE  j < i
    BY DEF Ahead
  <1>2. i \in Nat /\ j \in Nat /\ Len(a) \in Nat
    BY JoinAt
  <1>3. CASE i \in DOMAIN a /\ j \in DOMAIN a
    <2>1. a[i].do \in C /\ a[j].do \in D
      BY <1>1, <1>3, JoinAt
    <2>2. QED BY <2>1, <1>3 DEF Ahead
  <1>4. CASE i \notin DOMAIN a /\ j \notin DOMAIN a
    <2>1. /\ i - Len(a) \in DOMAIN b /\ q[i] = b[i - Len(a)]
          /\ j - Len(a) \in DOMAIN b /\ q[j] = b[j - Len(a)]
      BY <1>4, JoinAt
    <2>2. j - Len(a) < i - Len(a)
      BY <2>1, <1>1 DEF Ahead
    <2>3. QED BY <2>2, <1>2
  <1>5. CASE i \notin DOMAIN a /\ j \in DOMAIN a
    <2>1. DOMAIN a = 1..Len(a) /\ DOMAIN q = 1..Len(a) + Len(b) /\ Len(b) \in Nat
      BY JoinAt
    <2>2. QED BY <2>1, <1>5, <1>2
  <1>6. CASE i \in DOMAIN a /\ j \notin DOMAIN a
    <2>1. Has(a, C)
      BY <1>1, <1>6, JoinAt DEF Has
    <2>2. j - Len(a) \in DOMAIN b /\ q[j] = b[j - Len(a)]
      BY <1>6, JoinAt
    <2>3. Has(b, D)
      BY <1>1, <2>2 DEF Has
    <2>4. QED BY <2>1, <2>3
  <1>7. QED BY <1>3, <1>4, <1>5, <1>6

LEMMA Two ==
    ASSUME NEW a, NEW b, NEW D, {a, b} \subseteq D
    PROVE  LET q == <<X(a), X(b)>>
           IN  /\ q \in Seq(Made(D, {"none"})) /\ DOMAIN q = 1..2
               /\ q[1].do = a /\ q[2].do = b
  <1>1. \A d \in {a, b} : X(d) \in Made(D, {"none"}) /\ X(d).do = d
    BY Plain
  <1>2. QED BY <1>1

LEMMA Three ==
    ASSUME NEW a, NEW b, NEW c, NEW D, {a, b, c} \subseteq D
    PROVE  LET q == <<X(a), X(b), X(c)>>
           IN  /\ q \in Seq(Made(D, {"none"})) /\ DOMAIN q = 1..3
               /\ q[1].do = a /\ q[2].do = b /\ q[3].do = c
  <1>1. \A d \in {a, b, c} : X(d) \in Made(D, {"none"}) /\ X(d).do = d
    BY Plain
  <1>2. QED BY <1>1

LEMMA Four ==
    ASSUME NEW a, NEW b, NEW c, NEW d, NEW D, {a, b, c, d} \subseteq D
    PROVE  LET q == <<X(a), X(b), X(c), X(d)>>
           IN  /\ q \in Seq(Made(D, {"none"})) /\ DOMAIN q = 1..4
               /\ q[1].do = a /\ q[2].do = b /\ q[3].do = c /\ q[4].do = d
  <1>1. \A e \in {a, b, c, d} : X(e) \in Made(D, {"none"}) /\ X(e).do = e
    BY Plain
  <1>2. QED BY <1>1

LEMMA Five ==
    ASSUME NEW a, NEW b, NEW c, NEW d, NEW e, NEW D, {a, b, c, d, e} \subseteq D
    PROVE  LET q == <<X(a), X(b), X(c), X(d), X(e)>>
           IN  /\ q \in Seq(Made(D, {"none"})) /\ DOMAIN q = 1..5
               /\ q[1].do = a /\ q[2].do = b /\ q[3].do = c /\ q[4].do = d /\ q[5].do = e
  <1>1. \A x \in {a, b, c, d, e} : X(x) \in Made(D, {"none"}) /\ X(x).do = x
    BY Plain
  <1>2. QED BY <1>1

DosOf(o) ==
    CASE o = "halt"      -> {"halt", "halted", "access"}
      [] o = "step"      -> {"mask", "step", "halted", "halt", "access"}
      [] o = "resetHalt" -> {"halt", "halted", "access", "catch", "reset", "uncatch"}
      [] o = "run"       -> {"run"}
      [] o = "resetRun"  -> {"access", "uncatch", "run", "reset"}
      [] o = "attach"    -> {"access", "low", "halt", "high"}
      [] o = "flash"     -> {"halt", "halted", "access", "catch", "reset", "uncatch",
                             "readCr", "key1", "key2", "unlocked", "clearSr", "select", "start",
                             "busy", "psize", "pg", "program", "unpg", "verify", "lock"}
      [] o \in {"read", "write"} -> {"mem8", "mem32", "status"}
      [] OTHER -> {}

GuardsOf(o) ==
    CASE o = "resetHalt" -> {"none", "catch"}
      [] o = "attach"    -> {"none", "nrst"}
      [] o = "flash"     -> {"none", "catch", "lock"}
      [] OTHER           -> {"none"}

Work(o) == Made(DosOf(o), GuardsOf(o))

\* What an operation owes: halts, vector catches to be cleared, interrupts to be
\* enabled, the lock.
Fixes == {"halt", "halted"}
Unmasks == {"halt", "run", "reset"}

Owes(o, q) ==
    /\ o \in {"step", "resetHalt", "flash"} => Settles(q, {"step", "reset"}, Fixes)
    /\ o \in {"resetHalt", "resetRun", "flash"} => Settles(q, {"catch"}, {"uncatch"})
    /\ o \in Operations \ {"halt"} => Settles(q, {"mask"}, Unmasks)
    /\ o = "flash" => Settles(q, {"key2"}, {"lock"})
    /\ o \in {"run", "resetRun"} => Has(q, {"run"})
    /\ o = "resetRun" => Ahead(q, {"uncatch"}, {"reset"})

LEMMA NeverDone ==
    ASSUME NEW D, NEW G, NEW q \in Seq(Made(D, G)), NEW C, C \cap D = {}
    PROVE  ~Has(q, C) /\ \A E : Followed(q, C, E)
  <1>1. \A i \in DOMAIN q : q[i] \in Made(D, G)
    OBVIOUS
  <1>2. \A t \in Made(D, G) : t.do \in D
    BY DEF Made
  <1>3. QED BY <1>1, <1>2 DEF Has, Followed

LEMMA UncatchRight ==
    /\ Uncatch \in Seq(Made({"access", "uncatch"}, {"none"}))
    /\ Settles(Uncatch, {"catch"}, {"uncatch"}) /\ ~Has(Uncatch, {"reset"})
  <1>1. PICK q : q = Uncatch
    OBVIOUS
  <1>2. /\ q \in Seq(Made({"access", "uncatch"}, {"none"})) /\ DOMAIN q = 1..2
        /\ q[1].do = "access" /\ q[2].do = "uncatch"
    BY <1>1, Two DEF Uncatch
  <1>3. Has(q, {"uncatch"}) /\ ~Has(q, {"reset"})
    BY <1>2 DEF Has
  <1>4. Followed(q, {"catch"}, {"uncatch"})
    BY <1>2 DEF Followed
  <1>5. QED BY <1>1, <1>2, <1>3, <1>4 DEF Settles

LEMMA ResetHaltRight ==
    /\ ResetHalt \in Seq(Work("resetHalt"))
    /\ Settles(ResetHalt, {"step", "reset"}, Fixes)
    /\ Settles(ResetHalt, {"catch"}, {"uncatch"})
    /\ Has(ResetHalt, {"reset"})
  <1> DEFINE D == DosOf("resetHalt")
             W == Made(D, {"none", "catch"})
             u == Under("catch", <<X("halted")>>)
             y == <<X("access")>>
  <1>1. PICK a : a = <<X("halt"), X("access"), X("catch"), X("reset")>>
    OBVIOUS
  <1>2. PICK c : c = Uncatch
    OBVIOUS
  <1>3. Work("resetHalt") = W /\ ResetHalt = ((a \o u) \o c) \o y
    BY <1>1, <1>2 DEF Work, GuardsOf, ResetHalt
  <1>4. a \in Seq(Made(D, {"none"})) /\ DOMAIN a = 1..4 /\ a[1].do = "halt" /\ a[2].do = "access"
        /\ a[3].do = "catch" /\ a[4].do = "reset"
    BY <1>1, Four DEF DosOf
  <1>5. <<X("halted")>> \in Seq(Made(D, {"none"})) /\ Has(<<X("halted")>>, Fixes)
    BY OneTransfer DEF DosOf, Fixes
  <1>6. /\ u \in Seq(Made(D, {"catch"})) /\ Has(u, Fixes)
        /\ Followed(<<X("halted")>>, {"step", "reset"}, Fixes)
        /\ (Followed(u, {"step", "reset"}, Fixes) <=> Followed(<<X("halted")>>, {"step", "reset"}, Fixes))
    <2>1. PICK h : h = <<X("halted")>>
      OBVIOUS
    <2>2. "halted" \in D /\ "halted" \notin {"step", "reset"}
      BY DEF DosOf
    <2>3. h \in Seq(Made(D, {"none"})) /\ Has(h, Fixes) /\ Followed(h, {"step", "reset"}, Fixes)
      BY <1>5, <2>1, <2>2, OneTransfer
    <2>4. /\ Under("catch", h) \in Seq(Made(D, {"catch"})) /\ Has(Under("catch", h), Fixes)
          /\ Followed(Under("catch", h), {"step", "reset"}, Fixes)
      BY <2>3, UnderAt
    <2>5. QED BY <2>1, <2>3, <2>4
  <1>7. c \in Seq(Made({"access", "uncatch"}, {"none"})) /\ Settles(c, {"catch"}, {"uncatch"})
    BY <1>2, UncatchRight
  <1>8. y \in Seq(Made({"access"}, {"none"}))
    BY OneTransfer
  <1> HIDE DEF u, y
  <1>9. Followed(c, {"step", "reset"}, Fixes) /\ Followed(y, {"step", "reset"}, Fixes)
        /\ Followed(y, {"catch"}, {"uncatch"})
    <2>1. {"step", "reset"} \cap {"access", "uncatch"} = {} /\ {"step", "reset"} \cap {"access"} = {}
          /\ {"catch"} \cap {"access"} = {}
      OBVIOUS
    <2>2. QED BY <1>7, <1>8, <2>1, NeverDone
  <1>10. D = {"halt", "halted", "access", "catch", "reset", "uncatch"}
    BY DEF DosOf
  <1>11. a \in Seq(W) /\ u \in Seq(W) /\ c \in Seq(W) /\ y \in Seq(W)
    BY <1>4, <1>6, <1>7, <1>8, <1>10, MadeGrows
  <1> HIDE DEF W, D
  <1>12. a \o u \in Seq(W) /\ (a \o u) \o c \in Seq(W) /\ ((a \o u) \o c) \o y \in Seq(W)
    BY <1>11, JoinAt
  <1>13. Settles(a \o u, {"step", "reset"}, Fixes)
    BY <1>6, <1>11, SettlesJoin DEF Settles
  <1>14. Settles((a \o u) \o c, {"step", "reset"}, Fixes)
    BY <1>9, <1>11, <1>12, <1>13, SettlesJoin
  <1>15. Settles(((a \o u) \o c) \o y, {"step", "reset"}, Fixes)
    BY <1>9, <1>11, <1>12, <1>14, SettlesJoin
  <1>16. Settles((a \o u) \o c, {"catch"}, {"uncatch"})
    BY <1>7, <1>11, <1>12, SettlesJoin
  <1>17. Settles(((a \o u) \o c) \o y, {"catch"}, {"uncatch"})
    BY <1>9, <1>11, <1>12, <1>16, SettlesJoin
  <1>18. Has(a, {"reset"})
    BY <1>4 DEF Has
  <1>19. Has(((a \o u) \o c) \o y, {"reset"})
    BY <1>11, <1>12, <1>18, HasJoin
  <1>20. QED BY <1>3, <1>12, <1>15, <1>17, <1>19

\* Where an operation's script begins.
Begun(o, q) ==
    /\ q \in Seq(Work(o)) /\ Owes(o, q)
    /\ o = "halt" => Has(q, {"halt"}) \/ core = "halt"

LEMMA HaltBegins ==
    ASSUME NEW s \in Scripts("halt")
    PROVE  Begun("halt", s)
  <1> DEFINE D == {"halt", "halted", "access"}
             W == Made(D, {"none"})
  <1>1. Work("halt") = W
    BY DEF Work, DosOf, GuardsOf
  <1>2. s = HaltCore \o <<X("access"), X("access")>>
        \/ (s = <<X("access"), X("access"), X("access")>> /\ core = "halt")
    BY DEF Scripts
  <1>3. ASSUME s = HaltCore \o <<X("access"), X("access")>>
        PROVE  s \in Seq(W) /\ Has(s, {"halt"})
    <2>1. PICK a : a = HaltCore
      OBVIOUS
    <2>2. PICK b : b = <<X("access"), X("access")>>
      OBVIOUS
    <2>3. a \in Seq(W) /\ DOMAIN a = 1..2 /\ a[1].do = "halt"
      BY <2>1, Two DEF HaltCore
    <2>4. b \in Seq(W)
      BY <2>2, Two
    <2>5. Has(a, {"halt"})
      BY <2>3 DEF Has
    <2> HIDE DEF W
    <2>6. QED BY <1>3, <2>1, <2>2, <2>3, <2>4, <2>5, HasJoin, JoinAt
  <1>4. ASSUME s = <<X("access"), X("access"), X("access")>>
        PROVE  s \in Seq(W)
    BY <1>4, Three
  <1>5. QED BY <1>1, <1>2, <1>3, <1>4 DEF Begun, Owes, Operations

LEMMA StepBegins ==
    ASSUME NEW s \in Scripts("step")
    PROVE  Begun("step", s)
  <1> DEFINE D == {"mask", "step", "halted", "halt", "access"}
             W == Made(D, {"none"})
  <1>1. Work("step") = W
    BY DEF Work, DosOf, GuardsOf
  <1>2. PICK a : a = StepCore
    OBVIOUS
  <1>3. PICK b : b = <<X("access"), X("access")>>
    OBVIOUS
  <1>4. s = a \o b
    BY <1>2, <1>3 DEF Scripts
  <1>5. a \in Seq(W) /\ DOMAIN a = 1..4 /\ a[1].do = "mask" /\ a[2].do = "step"
        /\ a[3].do = "halted" /\ a[4].do = "halt"
    BY <1>2, Four DEF StepCore
  <1>6. b \in Seq(W) /\ b \in Seq(Made({"access"}, {"none"}))
    BY <1>3, Two
  <1>7. Settles(a, {"step", "reset"}, Fixes) /\ Settles(a, {"mask"}, Unmasks)
    BY <1>5 DEF Settles, Followed, Has, Fixes, Unmasks
  <1>8. Followed(b, {"step", "reset"}, Fixes) /\ Followed(b, {"mask"}, Unmasks)
    <2>1. {"step", "reset"} \cap {"access"} = {} /\ {"mask"} \cap {"access"} = {}
      OBVIOUS
    <2>2. QED BY <1>6, <2>1, NeverDone
  <1> HIDE DEF W
  <1>9. s \in Seq(W)
    BY <1>4, <1>5, <1>6, JoinAt
  <1>10. Settles(s, {"step", "reset"}, Fixes)
    BY <1>4, <1>5, <1>6, <1>7, <1>8, SettlesJoin
  <1>11. Settles(s, {"mask"}, Unmasks)
    BY <1>4, <1>5, <1>6, <1>7, <1>8, SettlesJoin
  <1>12. QED BY <1>1, <1>9, <1>10, <1>11 DEF Begun, Owes, Operations

LEMMA ResetHaltBegins ==
    ASSUME NEW s \in Scripts("resetHalt")
    PROVE  Begun("resetHalt", s)
  <1> DEFINE W == Work("resetHalt")
  <1>1. PICK b : b = <<X("access"), X("access")>>
    OBVIOUS
  <1>2. s = ResetHalt \o b
    BY <1>1 DEF Scripts
  <1>3. b \in Seq(Made({"access"}, {"none"}))
    BY <1>1, Two
  <1>4. b \in Seq(W) /\ ResetHalt \in Seq(W)
    <2>1. {"access"} \subseteq DosOf("resetHalt") /\ {"none"} \subseteq GuardsOf("resetHalt")
      BY DEF DosOf, GuardsOf
    <2>2. QED BY <1>3, <2>1, MadeGrows, ResetHaltRight DEF Work
  <1> HIDE DEF W
  <1>5. /\ Followed(b, {"step", "reset"}, Fixes) /\ Followed(b, {"catch"}, {"uncatch"})
    <2>1. {"step", "reset"} \cap {"access"} = {} /\ {"catch"} \cap {"access"} = {}
      OBVIOUS
    <2>2. QED BY <1>3, <2>1, NeverDone
  <1>6. s \in Seq(W)
    BY <1>2, <1>4, JoinAt
  <1>7. Settles(s, {"step", "reset"}, Fixes)
    BY <1>2, <1>4, <1>5, ResetHaltRight, SettlesJoin
  <1>8. Settles(s, {"catch"}, {"uncatch"})
    BY <1>2, <1>4, <1>5, ResetHaltRight, SettlesJoin
  <1>9. Settles(s, {"mask"}, Unmasks)
    <2>1. Has(s, {"reset"})
      BY <1>2, <1>4, ResetHaltRight, HasJoin
    <2>2. Has(s, Unmasks)
      BY <2>1 DEF Has, Unmasks
    <2>3. {"mask"} \cap DosOf("resetHalt") = {}
      BY DEF DosOf
    <2>4. Followed(s, {"mask"}, Unmasks)
      BY <1>6, <2>3, NeverDone DEF W, Work
    <2>5. QED BY <2>2, <2>4 DEF Settles
  <1>10. QED BY <1>6, <1>7, <1>8, <1>9 DEF Begun, Owes, W

LEMMA RunBegins ==
    ASSUME NEW s \in Scripts("run")
    PROVE  Begun("run", s)
  <1>1. s = <<X("run")>>
    BY DEF Scripts
  <1>2. s \in Seq(Made({"run"}, {"none"})) /\ Has(s, {"run"}) /\ Has(s, Unmasks)
    BY <1>1, OneTransfer DEF Unmasks
  <1>3. Followed(s, {"mask"}, Unmasks)
    <2>1. {"mask"} \cap {"run"} = {}
      OBVIOUS
    <2>2. QED BY <1>2, <2>1, NeverDone
  <1>4. QED BY <1>2, <1>3 DEF Begun, Owes, Settles, Work, DosOf, GuardsOf

LEMMA ResetRunBegins ==
    ASSUME NEW s \in Scripts("resetRun")
    PROVE  Begun("resetRun", s)
  <1> DEFINE W == Made({"access", "uncatch", "run", "reset"}, {"none"})
  <1>1. Work("resetRun") = W
    BY DEF Work, DosOf, GuardsOf
  <1>2. PICK a : a = Uncatch
    OBVIOUS
  <1>3. PICK b : b = <<X("run"), X("reset")>>
    OBVIOUS
  <1>4. PICK c : c = <<X("access")>>
    OBVIOUS
  <1>5. s = (a \o b) \o c
    BY <1>2, <1>3, <1>4 DEF Scripts, ResetRun
  <1>6. /\ a \in Seq(Made({"access", "uncatch"}, {"none"}))
        /\ Settles(a, {"catch"}, {"uncatch"}) /\ ~Has(a, {"reset"})
    BY <1>2, UncatchRight
  <1>7. a \in Seq(W)
    BY <1>6, MadeGrows
  <1>8. b \in Seq(W) /\ b \in Seq(Made({"run", "reset"}, {"none"}))
        /\ DOMAIN b = 1..2 /\ b[1].do = "run" /\ b[2].do = "reset"
    BY <1>3, Two
  <1>9. c \in Seq(W) /\ c \in Seq(Made({"access"}, {"none"}))
    BY <1>4, OneTransfer
  <1> HIDE DEF W
  <1>10. a \o b \in Seq(W) /\ s \in Seq(W)
    BY <1>5, <1>7, <1>8, <1>9, JoinAt
  <1>11. Has(b, {"run"})
    BY <1>8 DEF Has
  <1>12. Has(s, {"run"})
    BY <1>5, <1>7, <1>8, <1>9, <1>10, <1>11, HasJoin
  <1>13. /\ ~Has(b, {"uncatch"}) /\ ~Has(c, {"uncatch"}) /\ ~Has(c, {"reset"})
         /\ Followed(b, {"catch"}, {"uncatch"}) /\ Followed(c, {"catch"}, {"uncatch"})
    <2>1. /\ {"uncatch"} \cap {"run", "reset"} = {} /\ {"catch"} \cap {"run", "reset"} = {}
          /\ {"uncatch"} \cap {"access"} = {} /\ {"catch"} \cap {"access"} = {}
          /\ {"reset"} \cap {"access"} = {}
      OBVIOUS
    <2>2. QED BY <1>8, <1>9, <2>1, NeverDone
  <1>14. Settles(s, {"catch"}, {"uncatch"})
    <2>1. Settles(a \o b, {"catch"}, {"uncatch"})
      BY <1>6, <1>7, <1>8, <1>13, SettlesJoin
    <2>2. QED BY <2>1, <1>5, <1>9, <1>10, <1>13, SettlesJoin
  <1>15. Ahead(s, {"uncatch"}, {"reset"})
    <2>1. /\ Ahead(a, {"uncatch"}, {"reset"}) /\ Ahead(b, {"uncatch"}, {"reset"})
          /\ Ahead(c, {"uncatch"}, {"reset"})
      BY <1>6, <1>13 DEF Ahead, Has
    <2>2. Ahead(a \o b, {"uncatch"}, {"reset"})
      BY <2>1, <1>7, <1>8, <1>13, AheadJoin
    <2>3. QED BY <2>1, <2>2, <1>5, <1>9, <1>10, <1>13, AheadJoin
  <1>16. Settles(s, {"mask"}, Unmasks)
    <2>1. Has(s, Unmasks)
      BY <1>12 DEF Has, Unmasks
    <2>2. {"mask"} \cap {"access", "uncatch", "run", "reset"} = {}
      OBVIOUS
    <2>3. Followed(s, {"mask"}, Unmasks)
      BY <1>10, <2>2, NeverDone DEF W
    <2>4. QED BY <2>1, <2>3 DEF Settles
  <1>17. QED BY <1>1, <1>10, <1>12, <1>14, <1>15, <1>16 DEF Begun, Owes

LEMMA OperationsBegin ==
    ASSUME NEW o \in Operations, NEW s \in Scripts(o)
    PROVE  Begun(o, s)
  BY HaltBegins, StepBegins, ResetHaltBegins, RunBegins, ResetRunBegins DEF Operations

LEMMA AttachBegins ==
    ASSUME NEW answers
    PROVE  AttachScript(answers) \in Seq(Work("attach"))
  <1> DEFINE W == Work("attach")
             u == Under("nrst", <<X("access"), X("halt")>>)
  <1>1. W = Made({"access", "low", "halt", "high"}, {"none", "nrst"})
    BY DEF Work, DosOf, GuardsOf
  <1>2. \A d \in {"access", "low", "high"} : <<X(d)>> \in Seq(W)
    <2>1. ASSUME NEW d \in {"access", "low", "high"} PROVE <<X(d)>> \in Seq(W)
      <3>1. d \in {"access", "low", "halt", "high"}
        OBVIOUS
      <3>2. X(d) \in Made({"access", "low", "halt", "high"}, {"none"})
        BY <3>1, Plain
      <3>3. X(d) \in W
        BY <3>2, <1>1 DEF Made
      <3>4. QED BY <3>3
    <2>2. QED BY <2>1
  <1>3. u \in Seq(W)
    <2>1. PICK b : b = <<X("access"), X("halt")>>
      OBVIOUS
    <2>2. b \in Seq(Made({"access", "halt"}, {"none"}))
      BY <2>1, Two
    <2>3. Under("nrst", b) \in Seq(Made({"access", "halt"}, {"nrst"}))
      BY <2>2, UnderAt
    <2>4. QED BY <1>1, <2>1, <2>3, MadeGrows
  <1> HIDE DEF W, u
  <1>4. <<X("low")>> \o u \o <<X("high")>> \in Seq(W)
    BY <1>2, <1>3, JoinAt
  <1>5. PICK m : m = IF answers THEN <<>> ELSE <<X("low")>> \o u \o <<X("high")>>
    OBVIOUS
  <1>6. m \in Seq(W)
    BY <1>4, <1>5
  <1>7. <<X("access")>> \o m \o <<X("access")>> \in Seq(W)
    BY <1>2, <1>6, JoinAt
  <1>8. QED BY <1>5, <1>7 DEF AttachScript, u, W

-----------------------------------------------------------------------------
(* The script of a flash operation *)

Writes == {"select", "start", "psize", "pg", "unpg"}
BodyDos == Writes \cup {"readCr", "busy", "program", "verify"}

\* FLASH_CR is read right before it is written, or unlocked.
Prompted(q) ==
    \A i \in DOMAIN q :
        /\ q[i].do \in Writes \cup {"key1"} => i # 1 /\ q[i - 1].do = "readCr"
        /\ q[i].do = "key2" => i # 1 /\ q[i - 1].do = "key1"

LEMMA PromptedJoin ==
    ASSUME NEW S, NEW a \in Seq(S), NEW b \in Seq(S), Prompted(a), Prompted(b)
    PROVE  Prompted(a \o b)
  <1> DEFINE q == a \o b
  <1>1. SUFFICES ASSUME NEW i \in DOMAIN q
                 PROVE  /\ q[i].do \in Writes \cup {"key1"} => i # 1 /\ q[i - 1].do = "readCr"
                        /\ q[i].do = "key2" => i # 1 /\ q[i - 1].do = "key1"
    BY DEF Prompted
  <1>2. i \in Nat /\ Len(a) \in Nat /\ DOMAIN a = 1..Len(a) /\ DOMAIN b = 1..Len(b) /\ Len(b) \in Nat
        /\ i >= 1
    BY JoinAt
  <1>3. CASE i \in DOMAIN a
    <2>1. q[i] = a[i] /\ (i # 1 => i - 1 \in DOMAIN a)
      BY <1>2, <1>3, JoinAt
    <2>2. i # 1 => q[i - 1] = a[i - 1]
      BY <2>1, JoinAt
    <2>3. QED BY <1>3, <2>1, <2>2 DEF Prompted
  <1>4. CASE i \notin DOMAIN a
    <2>1. i - Len(a) \in DOMAIN b /\ q[i] = b[i - Len(a)]
      BY <1>4, JoinAt
    <2>2. i - Len(a) # 1 => (i - Len(a)) - 1 \in DOMAIN b /\ i # 1
      BY <1>2, <2>1
    <2>3. i - Len(a) # 1 => q[Len(a) + ((i - Len(a)) - 1)] = b[(i - Len(a)) - 1]
      BY <2>2, JoinAt
    <2>4. Len(a) + ((i - Len(a)) - 1) = i - 1
      BY <1>2
    <2>5. i - Len(a) # 1 => q[i - 1] = b[(i - Len(a)) - 1]
      BY <2>3, <2>4
    <2>6. QED BY <2>1, <2>2, <2>5 DEF Prompted
  <1>5. QED BY <1>3, <1>4

\* What is asked to be flashed.
IsImage(r) ==
    /\ r.at \in Nat /\ Len(r.img) \in Nat \ {0} /\ DOMAIN r.img = 1..Len(r.img)
    /\ r.verify \in BOOLEAN

\* A transfer that belongs to the image.
Fits(r, t) ==
    /\ t.do = "select" => t.at \in Sectors /\ Overlaps(t.at, r.at, Len(r.img))
    /\ t.do \in {"program", "verify"} =>
          t.at \in Nat /\ t.n \in Nat \ {0} /\ t.at >= r.at /\ t.at + t.n <= r.at + Len(r.img)

Parts(M, r) == {q \in Seq(M) : Prompted(q) /\ \A i \in DOMAIN q : Fits(r, q[i])}
Bodies(r) == Parts(Made(BodyDos, {"none"}), r)

LEMMA PartsClosed ==
    ASSUME NEW M, NEW r
    PROVE  <<>> \in Parts(M, r) /\ \A a, b \in Parts(M, r) : a \o b \in Parts(M, r)
  <1>1. <<>> \in Parts(M, r)
    BY DEF Parts, Prompted
  <1>2. ASSUME NEW a \in Parts(M, r), NEW b \in Parts(M, r) PROVE a \o b \in Parts(M, r)
    <2>1. a \in Seq(M) /\ b \in Seq(M) /\ Prompted(a) /\ Prompted(b)
          /\ (\A i \in DOMAIN a : Fits(r, a[i])) /\ \A i \in DOMAIN b : Fits(r, b[i])
      BY DEF Parts
    <2>2. a \o b \in Seq(M) /\ Prompted(a \o b)
      BY <2>1, JoinAt, PromptedJoin
    <2>3. \A i \in DOMAIN (a \o b) : Fits(r, (a \o b)[i])
      BY <2>1, JoinAt
    <2>4. QED BY <2>2, <2>3 DEF Parts
  <1>3. QED BY <1>1, <1>2

LEMMA BodiesClosed ==
    ASSUME NEW r
    PROVE  <<>> \in Bodies(r) /\ \A a, b \in Bodies(r) : a \o b \in Bodies(r)
  BY PartsClosed DEF Bodies

LEMMA EraseSectorBody ==
    ASSUME NEW r, NEW s \in Sectors, Overlaps(s, r.at, Len(r.img))
    PROVE  EraseSector(s) \in Bodies(r)
  <1> DEFINE M == Made(BodyDos, {"none"})
  <1>1. PICK q : q = EraseSector(s)
    OBVIOUS
  <1>2. s \in Int
    BY Layout DEF Sectors
  <1>3. On("select", s, 1) = [do |-> "select", at |-> s, n |-> 1, guard |-> "none"]
    <2>1. 1 \in Int
      OBVIOUS
    <2>2. QED BY <2>1, <1>2, OnAt, Zenon
  <1>4. On("select", s, 1) \in M
    BY <1>2, <1>3 DEF Made, BodyDos, Writes
  <1>5. X("readCr") \in M /\ X("start") \in M /\ X("busy") \in M
        /\ X("readCr").do = "readCr" /\ X("start").do = "start" /\ X("busy").do = "busy"
    BY Plain DEF BodyDos, Writes
  <1>6. DOMAIN q = 1..5 /\ q[1] = X("readCr") /\ q[2] = On("select", s, 1) /\ q[3] = X("readCr")
        /\ q[4] = X("start") /\ q[5] = X("busy")
    BY <1>1 DEF EraseSector
  <1>7. q \in Seq(M)
    BY <1>1, <1>4, <1>5 DEF EraseSector
  <1>8. Prompted(q)
    <2>1. q[1].do = "readCr" /\ q[2].do = "select" /\ q[3].do = "readCr" /\ q[4].do = "start"
          /\ q[5].do = "busy"
      BY <1>3, <1>5, <1>6
    <2>2. QED BY <1>6, <2>1 DEF Prompted, Writes
  <1>9. \A i \in DOMAIN q : Fits(r, q[i])
    BY <1>3, <1>5, <1>6 DEF Fits
  <1>10. QED BY <1>1, <1>7, <1>8, <1>9 DEF Bodies, Parts

LEMMA EraseBody ==
    ASSUME NEW r
    PROVE  Erase(r) \in Bodies(r)
  <1> DEFINE parts == [s \in 1..Len(Sizes) |->
                 IF Overlaps(s - 1, r.at, Len(r.img)) THEN EraseSector(s - 1) ELSE <<>>]
  <1>1. Len(Sizes) \in Nat
    BY Layout
  <1>2. \A s \in 1..Len(Sizes) : s - 1 \in Sectors
    BY <1>1 DEF Sectors
  <1>3. parts \in [1..Len(Sizes) -> Bodies(r)]
    BY <1>2, EraseSectorBody, BodiesClosed
  <1> HIDE DEF parts
  <1>4. FlattenSeq(parts) \in Bodies(r)
    BY <1>1, <1>3, BodiesClosed, Flattened
  <1>5. QED BY <1>4 DEF Erase, parts

LEMMA InitWriteBody ==
    ASSUME NEW r
    PROVE  InitWrite \in Bodies(r)
  <1>1. PICK q : q = InitWrite
    OBVIOUS
  <1>2. q \in Seq(Made(BodyDos, {"none"})) /\ DOMAIN q = 1..4
        /\ q[1].do = "readCr" /\ q[2].do = "psize" /\ q[3].do = "readCr" /\ q[4].do = "pg"
    BY <1>1, Four DEF InitWrite, BodyDos, Writes
  <1>3. Prompted(q) /\ \A i \in DOMAIN q : Fits(r, q[i])
    BY <1>2 DEF Prompted, Fits, Writes
  <1>4. QED BY <1>1, <1>2, <1>3 DEF Bodies, Parts

LEMMA BlockRight == Block \in Nat \ {0}
  BY FlashAssumption DEF Block

LEMMA BlocksFit ==
    ASSUME NEW r, IsImage(r), NEW d \in {"program", "verify"}
    PROVE  LET b == Blocks(d, r.at, Len(r.img), Block)
           IN  /\ b \in Bodies(r) /\ DOMAIN b = 1..Len(b) /\ Len(b) \in Nat
               /\ \A i \in DOMAIN b : /\ b[i].do = d /\ Fits(r, b[i])
                                      /\ b[i] \in Made(BodyDos, {"none"})
  <1>0. PICK n : n = Len(r.img)
    OBVIOUS
  <1>1. PICK b : b = Blocks(d, r.at, n, Block)
    OBVIOUS
  <1>2. r.at \in Nat /\ n \in Nat /\ Block \in Nat \ {0}
    BY <1>0, BlockRight DEF IsImage
  <1>3. Tiles(b, d, r.at, n, Block)
    BY <1>1, <1>2, BlocksAt
  <1>4. b \in Seq(Made(BodyDos, {"none"}))
    <2>1. {d} \subseteq BodyDos
      BY DEF BodyDos
    <2>2. QED BY <1>3, <2>1, MadeGrows DEF Tiles
  <1>5. \A i \in DOMAIN b : Fits(r, b[i])
    BY <1>0, <1>3 DEF Fits, Tiles
  <1>6. Prompted(b)
    BY <1>3 DEF Prompted, Writes, Tiles
  <1>7. b \in Bodies(r)
    BY <1>4, <1>5, <1>6 DEF Bodies, Parts
  <1>8. \A i \in DOMAIN b : b[i] \in Made(BodyDos, {"none"})
    BY <1>4
  <1>9. QED BY <1>0, <1>1, <1>3, <1>5, <1>7, <1>8 DEF Tiles

LEMMA VerifyBody ==
    ASSUME NEW r, IsImage(r)
    PROVE  Verify(r) \in Bodies(r)
  BY BlocksFit, BodiesClosed DEF Verify

LEMMA ProgramBody ==
    ASSUME NEW r, IsImage(r)
    PROVE  Program(r) \in Bodies(r)
  <1>1. PICK b : b = Blocks("program", r.at, Len(r.img), Block)
    OBVIOUS
  <1>2. PICK m : m = Len(b)
    OBVIOUS
  <1>3. /\ DOMAIN b = 1..m /\ m \in Nat
        /\ \A i \in DOMAIN b : b[i].do = "program" /\ Fits(r, b[i]) /\ b[i] \in Made(BodyDos, {"none"})
    BY <1>1, <1>2, BlocksFit
  <1>4. ASSUME NEW i \in DOMAIN b PROVE <<b[i], X("busy")>> \in Bodies(r)
    <2>1. X("busy") \in Made(BodyDos, {"none"}) /\ X("busy").do = "busy"
      BY Plain DEF BodyDos
    <2>2. PICK q : q = <<b[i], X("busy")>>
      OBVIOUS
    <2>3. q \in Seq(Made(BodyDos, {"none"})) /\ DOMAIN q = 1..2 /\ q[1] = b[i] /\ q[2] = X("busy")
      BY <1>3, <2>1, <2>2
    <2>4. Prompted(q)
      BY <1>3, <2>1, <2>3 DEF Prompted, Writes
    <2>5. \A j \in DOMAIN q : Fits(r, q[j])
      BY <1>3, <2>1, <2>3 DEF Fits
    <2>6. QED BY <2>2, <2>3, <2>4, <2>5 DEF Bodies, Parts
  <1> DEFINE parts == [i \in DOMAIN b |-> IF Empty(Cut(r, b[i])) THEN <<>> ELSE <<b[i], X("busy")>>]
  <1>5. parts \in [1..m -> Bodies(r)]
    BY <1>3, <1>4, BodiesClosed
  <1> HIDE DEF parts
  <1>6. FlattenSeq(parts) \in Bodies(r)
    BY <1>3, <1>5, BodiesClosed, Flattened
  <1>7. <<X("readCr"), X("unpg")>> \in Bodies(r)
    <2>1. PICK q : q = <<X("readCr"), X("unpg")>>
      OBVIOUS
    <2>2. q \in Seq(Made(BodyDos, {"none"})) /\ DOMAIN q = 1..2
          /\ q[1].do = "readCr" /\ q[2].do = "unpg"
      BY <2>1, Two DEF BodyDos, Writes
    <2>3. Prompted(q) /\ \A i \in DOMAIN q : Fits(r, q[i])
      BY <2>2 DEF Prompted, Fits, Writes
    <2>4. QED BY <2>1, <2>2, <2>3 DEF Bodies, Parts
  <1>8. FlattenSeq(parts) \o <<X("readCr"), X("unpg")>> \in Bodies(r)
    BY <1>6, <1>7, BodiesClosed
  <1>9. Program(r) = FlattenSeq(parts) \o <<X("readCr"), X("unpg")>>
    BY <1>1 DEF Program, parts
  <1>10. QED BY <1>8, <1>9

\* Without writes and keys there is nothing to prompt, and nothing to fit.
LEMMA PlainPart ==
    ASSUME NEW r, NEW q \in Seq(Work("flash")),
           ~Has(q, Writes \cup {"key1", "key2", "program", "verify"})
    PROVE  q \in Parts(Work("flash"), r)
  BY DEF Has, Parts, Prompted, Fits, Writes

LEMMA PlainIn ==
    ASSUME NEW D, NEW q \in Seq(Made(D, {"none"})), D \subseteq DosOf("flash"), NEW r,
           (Writes \cup {"key1", "key2", "program", "verify"}) \cap D = {}
    PROVE  q \in Seq(Work("flash")) /\ q \in Parts(Work("flash"), r)
  <1>1. q \in Seq(Work("flash"))
    <2>1. {"none"} \subseteq GuardsOf("flash")
      BY DEF GuardsOf
    <2>2. QED BY <2>1, MadeGrows DEF Work
  <1>2. ~Has(q, Writes \cup {"key1", "key2", "program", "verify"})
    BY NeverDone
  <1>3. QED BY <1>1, <1>2, PlainPart

LEMMA UnlockPart ==
    ASSUME NEW r
    PROVE  Unlock \in Parts(Work("flash"), r)
  <1> DEFINE M == Work("flash")
  <1>1. PICK a : a = HaltCore
    OBVIOUS
  <1>2. PICK b : b = <<X("readCr"), X("key1"), X("key2"), X("unlocked"), X("clearSr")>>
    OBVIOUS
  <1>3. a \in Parts(M, r)
    <2>1. a \in Seq(Made({"halt", "halted"}, {"none"}))
      BY <1>1, Two DEF HaltCore
    <2>2. {"halt", "halted"} \subseteq DosOf("flash")
          /\ (Writes \cup {"key1", "key2", "program", "verify"}) \cap {"halt", "halted"} = {}
      BY DEF DosOf, Writes
    <2>3. QED BY <2>1, <2>2, PlainIn
  <1>4. b \in Seq(Made(DosOf("flash"), {"none"})) /\ DOMAIN b = 1..5
        /\ b[1].do = "readCr" /\ b[2].do = "key1" /\ b[3].do = "key2" /\ b[4].do = "unlocked"
        /\ b[5].do = "clearSr"
    <2>1. {"readCr", "key1", "key2", "unlocked", "clearSr"} \subseteq DosOf("flash")
      BY DEF DosOf
    <2>2. PICK D : D = {"readCr", "key1", "key2", "unlocked", "clearSr"}
      OBVIOUS
    <2>3. {"readCr", "key1", "key2", "unlocked", "clearSr"} \subseteq D /\ D \subseteq DosOf("flash")
      BY <2>1, <2>2
    <2>4. b \in Seq(Made(D, {"none"})) /\ DOMAIN b = 1..5
          /\ b[1].do = "readCr" /\ b[2].do = "key1" /\ b[3].do = "key2" /\ b[4].do = "unlocked"
          /\ b[5].do = "clearSr"
      BY <1>2, <2>3, Five
    <2>5. b \in Seq(Made(DosOf("flash"), {"none"}))
      <3>1. {"none"} \subseteq {"none"}
        OBVIOUS
      <3>2. QED BY <2>3, <2>4, <3>1, MadeGrows
    <2>6. QED BY <2>4, <2>5
  <1>5. b \in Seq(M)
    <2>1. {"none"} \subseteq GuardsOf("flash") /\ DosOf("flash") \subseteq DosOf("flash")
      BY DEF GuardsOf
    <2>2. QED BY <1>4, <2>1, MadeGrows DEF Work
  <1>6. Prompted(b) /\ \A i \in DOMAIN b : Fits(r, b[i])
    BY <1>4 DEF Prompted, Fits, Writes
  <1>7. b \in Parts(M, r)
    BY <1>5, <1>6 DEF Parts
  <1> HIDE DEF M
  <1>8. a \o b \in Parts(M, r)
    BY <1>3, <1>7, PartsClosed
  <1>9. QED BY <1>1, <1>2, <1>8 DEF Unlock, M

LEMMA UnderPart ==
    ASSUME NEW r, NEW q \in Bodies(r)
    PROVE  Under("lock", q) \in Parts(Work("flash"), r)
           /\ Under("lock", q) \in Seq(Made(BodyDos, {"lock"}))
  <1>1. q \in Seq(Made(BodyDos, {"none"})) /\ Prompted(q) /\ \A i \in DOMAIN q : Fits(r, q[i])
    BY DEF Bodies, Parts
  <1>2. PICK u : u = Under("lock", q)
    OBVIOUS
  <1>3. /\ u \in Seq(Made(BodyDos, {"lock"})) /\ DOMAIN u = DOMAIN q
        /\ \A i \in DOMAIN q : u[i].do = q[i].do /\ u[i].at = q[i].at /\ u[i].n = q[i].n
    <2>1. Under("lock", q) \in Seq(Made(BodyDos, {"lock"})) /\ Same(Under("lock", q), q)
      BY <1>1, UnderAt
    <2>2. QED BY <2>1, <1>2 DEF Same
  <1>4. u \in Seq(Work("flash"))
    <2>1. BodyDos \subseteq DosOf("flash") /\ {"lock"} \subseteq GuardsOf("flash")
      BY DEF BodyDos, Writes, DosOf, GuardsOf
    <2>2. QED BY <1>3, <2>1, MadeGrows DEF Work
  <1>5. \A i \in DOMAIN u : Fits(r, u[i])
    BY <1>1, <1>3 DEF Fits
  <1>6. Prompted(u)
    <2>1. \A i \in DOMAIN q : i # 1 => i - 1 \in DOMAIN q
      BY <1>1
    <2>2. QED BY <1>1, <1>3, <2>1 DEF Prompted
  <1>7. QED BY <1>2, <1>3, <1>4, <1>5, <1>6 DEF Parts

LEMMA FlashBegins ==
    ASSUME NEW r, IsImage(r)
    PROVE  Begun("flash", FlashScript(r)) /\ FlashScript(r) \in Parts(Work("flash"), r)
  <1> DEFINE M == Work("flash")
             P == Parts(M, r)
  <1>1. PICK a0 : a0 = <<X("access"), X("access")>>
    OBVIOUS
  <1>2. PICK a1 : a1 = Unlock
    OBVIOUS
  <1>3. PICK a2 : a2 = Under("lock", Erase(r) \o InitWrite \o Program(r) \o Verify(r))
    OBVIOUS
  <1>4. PICK a3 : a3 = <<X("lock")>>
    OBVIOUS
  <1>5. PICK a4 : a4 = ResetHalt
    OBVIOUS
  <1>6. PICK a5 : a5 = <<X("access")>>
    OBVIOUS
  <1>7. FlashScript(r) = a0 \o a1 \o a2 \o a3 \o a4 \o a5
    BY <1>1, <1>2, <1>3, <1>4, <1>5, <1>6 DEF FlashScript
  <1>8. a0 \in P /\ a0 \in Seq(Made({"access"}, {"none"}))
    <2>1. a0 \in Seq(Made({"access"}, {"none"}))
      BY <1>1, Two
    <2>2. {"access"} \subseteq DosOf("flash")
          /\ (Writes \cup {"key1", "key2", "program", "verify"}) \cap {"access"} = {}
      BY DEF DosOf, Writes
    <2>3. QED BY <2>1, <2>2, PlainIn
  <1>9. a1 \in P
    BY <1>2, UnlockPart
  <1>10. a2 \in P /\ a2 \in Seq(Made(BodyDos, {"lock"}))
    <2>1. Erase(r) \o InitWrite \o Program(r) \o Verify(r) \in Bodies(r)
      BY EraseBody, InitWriteBody, ProgramBody, VerifyBody, BodiesClosed
    <2>2. QED BY <1>3, <2>1, UnderPart
  <1>11. a3 \in P /\ a3 \in Seq(Made({"lock"}, {"none"})) /\ Has(a3, {"lock"})
    <2>1. a3 \in Seq(Made({"lock"}, {"none"})) /\ Has(a3, {"lock"})
      BY <1>4, OneTransfer
    <2>2. {"lock"} \subseteq DosOf("flash")
          /\ (Writes \cup {"key1", "key2", "program", "verify"}) \cap {"lock"} = {}
      BY DEF DosOf, Writes
    <2>3. QED BY <2>1, <2>2, PlainIn
  <1>12. a4 \in P /\ a4 \in Seq(Work("resetHalt"))
    <2>1. a4 \in Seq(Work("resetHalt"))
      BY <1>5, ResetHaltRight
    <2>2. DosOf("resetHalt") \subseteq DosOf("flash") /\ GuardsOf("resetHalt") \subseteq GuardsOf("flash")
          /\ (Writes \cup {"key1", "key2", "program", "verify"}) \cap DosOf("resetHalt") = {}
      BY DEF DosOf, GuardsOf, Writes
    <2>3. a4 \in Seq(M)
      BY <2>1, <2>2, MadeGrows DEF Work
    <2>4. ~Has(a4, Writes \cup {"key1", "key2", "program", "verify"})
      BY <2>1, <2>2, NeverDone DEF Work
    <2>5. QED BY <2>1, <2>3, <2>4, PlainPart
  <1>13. a5 \in P /\ a5 \in Seq(Made({"access"}, {"none"}))
    <2>1. a5 \in Seq(Made({"access"}, {"none"}))
      BY <1>6, OneTransfer
    <2>2. {"access"} \subseteq DosOf("flash")
          /\ (Writes \cup {"key1", "key2", "program", "verify"}) \cap {"access"} = {}
      BY DEF DosOf, Writes
    <2>3. QED BY <2>1, <2>2, PlainIn
  <1>14. \A q \in P : q \in Seq(M)
    BY DEF Parts
  <1> HIDE DEF M, P
  <1>15. \A a, b \in P : a \o b \in P
    BY PartsClosed DEF P
  <1>16. PICK b2 : b2 = a0 \o a1 \o a2
    OBVIOUS
  <1>17. PICK b3 : b3 = b2 \o a3
    OBVIOUS
  <1>18. PICK b4 : b4 = b3 \o a4
    OBVIOUS
  <1>19. PICK b5 : b5 = b4 \o a5
    OBVIOUS
  <1>20. b2 \in P /\ b3 \in P /\ b4 \in P /\ b5 \in P /\ FlashScript(r) = b5
    <2>1. a0 \o a1 \in P
      BY <1>8, <1>9, <1>15
    <2>2. b2 \in P
      BY <2>1, <1>10, <1>15, <1>16
    <2>3. b3 \in P
      BY <2>2, <1>11, <1>15, <1>17
    <2>4. b4 \in P
      BY <2>3, <1>12, <1>15, <1>18
    <2>5. QED BY <2>2, <2>3, <2>4, <1>7, <1>13, <1>15, <1>16, <1>17, <1>18, <1>19
  <1>21. /\ a3 \in Seq(M) /\ a4 \in Seq(M) /\ a5 \in Seq(M)
         /\ b2 \in Seq(M) /\ b3 \in Seq(M) /\ b4 \in Seq(M) /\ b5 \in Seq(M)
    BY <1>11, <1>12, <1>13, <1>14, <1>20
  <1>22. /\ Followed(a5, {"step", "reset"}, Fixes) /\ Followed(a5, {"catch"}, {"uncatch"})
         /\ Followed(a5, {"key2"}, {"lock"})
    <2>1. {"step", "reset"} \cap {"access"} = {} /\ {"catch"} \cap {"access"} = {}
          /\ {"key2"} \cap {"access"} = {}
      OBVIOUS
    <2>2. QED BY <1>13, <2>1, NeverDone
  <1>23. Settles(b5, {"step", "reset"}, Fixes)
    <2>1. Settles(b4, {"step", "reset"}, Fixes)
      BY <1>5, <1>18, <1>21, ResetHaltRight, SettlesJoin
    <2>2. QED BY <2>1, <1>19, <1>21, <1>22, SettlesJoin
  <1>24. Settles(b5, {"catch"}, {"uncatch"})
    <2>1. Settles(b4, {"catch"}, {"uncatch"})
      BY <1>5, <1>18, <1>21, ResetHaltRight, SettlesJoin
    <2>2. QED BY <2>1, <1>19, <1>21, <1>22, SettlesJoin
  <1>25. Settles(b5, {"key2"}, {"lock"})
    <2>1. Followed(a3, {"key2"}, {"lock"})
      <3>1. {"key2"} \cap {"lock"} = {}
        OBVIOUS
      <3>2. QED BY <3>1, <1>11, NeverDone
    <2>2. Settles(b3, {"key2"}, {"lock"})
      BY <2>1, <1>11, <1>17, <1>21, SettlesJoin DEF Settles
    <2>3. Followed(a4, {"key2"}, {"lock"})
      <3>1. {"key2"} \cap DosOf("resetHalt") = {}
        BY DEF DosOf
      <3>2. QED BY <3>1, <1>12, NeverDone DEF Work
    <2>4. Settles(b4, {"key2"}, {"lock"})
      BY <2>2, <2>3, <1>18, <1>21, SettlesJoin
    <2>5. QED BY <2>4, <1>19, <1>21, <1>22, SettlesJoin
  <1>26. QED BY <1>20, <1>21, <1>23, <1>24, <1>25 DEF Begun, Owes, Operations, M, P

-----------------------------------------------------------------------------
(* The image of an ELF file *)

\* Finitely many numbers have a largest one among them.
LEMMA Bounded ==
    ASSUME NEW n \in Nat
    PROVE  \A f : (\A i \in 1..n : f[i] \in Nat) => \E b \in Nat : \A i \in 1..n : f[i] <= b
  <1> DEFINE Good(m) == \A f : (\A i \in 1..m : f[i] \in Nat)
                              => \E b \in Nat : \A i \in 1..m : f[i] <= b
  <1> DEFINE N == {m \in Nat : ~Good(m)}
  <1>1. SUFFICES ASSUME N # {} PROVE FALSE
    OBVIOUS
  <1>2. PICK m \in N : \A k \in N : m <= k
    BY <1>1, Smallest
  <1>3. m \in Nat /\ ~Good(m)
    BY <1>2
  <1>4. m # 0
    <2>1. \A i \in 1..0 : FALSE
      OBVIOUS
    <2>2. Good(0)
      BY <2>1
    <2>3. QED BY <1>3, <2>2
  <1>5. Good(m - 1)
    <2> HIDE DEF Good
    <2>1. m - 1 \in Nat /\ m - 1 \notin N
      BY <1>2, <1>3, <1>4
    <2>2. QED BY <2>1
  <1>6. PICK f : (\A i \in 1..m : f[i] \in Nat) /\ ~\E b \in Nat : \A i \in 1..m : f[i] <= b
    BY <1>3
  <1>7. PICK b \in Nat : \A i \in 1..m - 1 : f[i] <= b
    <2>1. \A i \in 1..m - 1 : f[i] \in Nat
      BY <1>3, <1>6
    <2>2. QED BY <2>1, <1>5
  <1>8. f[m] \in Nat
    BY <1>3, <1>4, <1>6
  <1>9. \A i \in 1..m : f[i] <= b + f[m]
    <2>1. TAKE i \in 1..m
    <2>2. CASE i = m
      BY <2>2, <1>8
    <2>3. CASE i # m
      <3>1. i \in 1..m - 1 /\ f[i] \in Nat
        BY <2>3, <1>3, <1>6
      <3>2. QED BY <3>1, <1>7, <1>8
    <2>4. QED BY <2>2, <2>3
  <1>10. b + f[m] \in Nat
    BY <1>8
  <1>11. QED BY <1>6, <1>9, <1>10

LEMMA Largest ==
    ASSUME NEW N \in SUBSET Nat, N # {}, NEW b \in Nat, \A n \in N : n <= b
    PROVE  \E m \in N : \A n \in N : n <= m
  <1> DEFINE U == {u \in Nat : \A n \in N : n <= u}
  <1>1. b \in U
    OBVIOUS
  <1>2. PICK m \in U : \A u \in U : m <= u
    BY <1>1, Smallest
  <1>3. m \in N
    <2>1. SUFFICES ASSUME m \notin N PROVE FALSE
      OBVIOUS
    <2>2. \A n \in N : n < m
      BY <2>1, <1>2
    <2>3. m > 0 /\ m - 1 \in Nat
      <3>1. PICK n \in N : n \in Nat
        OBVIOUS
      <3>2. n < m /\ m \in Nat
        BY <2>2, <1>2
      <3>3. QED BY <3>1, <3>2
    <2>4. m - 1 \in U
      BY <2>2, <2>3
    <2>5. QED BY <2>3, <2>4, <1>2
  <1>4. QED BY <1>2, <1>3

Headers == Seq([load : BOOLEAN, at : Nat, data : Seq(STRING)])

LEMMA HeaderAt ==
    ASSUME NEW headers \in Headers, NEW i \in Loaded(headers)
    PROVE  /\ i \in DOMAIN headers /\ headers[i].at \in Nat /\ headers[i].data \in Seq(STRING)
           /\ Len(headers[i].data) \in Nat \ {0}
           /\ DOMAIN headers[i].data = 1..Len(headers[i].data)
           /\ Behind(headers[i]) = headers[i].at + Len(headers[i].data)
  <1>1. i \in DOMAIN headers /\ headers[i].data # <<>>
    BY DEF Loaded
  <1>2. headers[i] \in [load : BOOLEAN, at : Nat, data : Seq(STRING)]
    BY <1>1, ElementAt DEF Headers
  <1>3. headers[i].at \in Nat /\ headers[i].data \in Seq(STRING)
    BY <1>2
  <1>4. Len(headers[i].data) \in Nat \ {0} /\ DOMAIN headers[i].data = 1..Len(headers[i].data)
    BY <1>1, <1>3
  <1>5. QED BY <1>1, <1>3, <1>4 DEF Behind

LEMMA ImageSpan ==
    ASSUME NEW headers \in Headers, Loaded(headers) # {}
    PROVE  LET start == Min({headers[i].at : i \in Loaded(headers)})
               end == Max({Behind(headers[i]) : i \in Loaded(headers)})
           IN  /\ start \in Nat /\ end \in Nat /\ start < end
               /\ \A i \in Loaded(headers) : start <= headers[i].at /\ Behind(headers[i]) <= end
  <1> DEFINE A == {headers[i].at : i \in Loaded(headers)}
             B == {Behind(headers[i]) : i \in Loaded(headers)}
  <1>1. A \in SUBSET Nat /\ A # {} /\ B \in SUBSET Nat /\ B # {}
    BY HeaderAt
  <1>2. \E x \in A : \A y \in A : x <= y
    BY <1>1, Smallest
  <1>3. Min(A) \in A /\ \A y \in A : Min(A) <= y
    BY <1>2 DEF Min
  <1>4. Len(headers) \in Nat /\ DOMAIN headers = 1..Len(headers)
    BY DEF Headers
  <1>5. \E b \in Nat : \A n \in B : n <= b
    <2> DEFINE f == [i \in 1..Len(headers) |-> IF i \in Loaded(headers) THEN Behind(headers[i]) ELSE 0]
    <2>1. \A i \in 1..Len(headers) : f[i] \in Nat
      BY HeaderAt
    <2>2. \A i \in Loaded(headers) : i \in 1..Len(headers) /\ f[i] = Behind(headers[i])
      BY HeaderAt, <1>4
    <2> HIDE DEF f
    <2>3. PICK b \in Nat : \A i \in 1..Len(headers) : f[i] <= b
      BY <2>1, <1>4, Bounded
    <2>4. QED BY <2>2, <2>3
  <1>6. \E x \in B : \A y \in B : y <= x
    BY <1>1, <1>5, Largest
  <1>7. Max(B) \in B /\ \A y \in B : Max(B) >= y
    <2>1. \E x \in B : \A y \in B : x >= y
      BY <1>1, <1>6
    <2>2. QED BY <2>1 DEF Max
  <1>8. \A i \in Loaded(headers) : Min(A) <= headers[i].at /\ Behind(headers[i]) <= Max(B)
    BY <1>1, <1>3, <1>7
  <1>9. Min(A) < Max(B)
    <2>1. PICK i \in Loaded(headers) : TRUE
      OBVIOUS
    <2>2. headers[i].at < Behind(headers[i]) /\ headers[i].at \in Nat /\ Behind(headers[i]) \in Nat
      BY HeaderAt
    <2>3. Min(A) \in Nat /\ Max(B) \in Nat
      BY <1>1, <1>3, <1>7
    <2>4. Min(A) <= headers[i].at /\ Behind(headers[i]) <= Max(B)
      BY <1>8
    <2> HIDE DEF A, B
    <2>5. QED BY <2>2, <2>3, <2>4
  <1>10. QED BY <1>1, <1>3, <1>7, <1>8, <1>9

\* The image begins with the lowest segment, holds all of them, and where
\* several want a word it has the one that is copied last.
LEMMA ImageRight ==
    ASSUME NEW headers \in Headers, Loaded(headers) # {}
    PROVE  LET image == ElfToImage(headers)
           IN  /\ image.at \in Nat /\ Len(image.img) \in Nat \ {0}
               /\ DOMAIN image.img = 1..Len(image.img)
               /\ \A i \in Loaded(headers), w \in Nat :
                     Covers(headers[i], w) =>
                         /\ w - image.at + 1 \in DOMAIN image.img
                         /\ (\A k \in Loaded(headers) :
                                Covers(headers[k], w) => NotAfter(headers, k, i))
                            => image.img[w - image.at + 1] = headers[i].data[w - headers[i].at + 1]
  <1>1. PICK start : start = Min({headers[i].at : i \in Loaded(headers)})
    OBVIOUS
  <1>2. PICK end : end = Max({Behind(headers[i]) : i \in Loaded(headers)})
    OBVIOUS
  <1>3. /\ start \in Nat /\ end \in Nat /\ start < end
        /\ \A i \in Loaded(headers) : start <= headers[i].at /\ Behind(headers[i]) <= end
    BY <1>1, <1>2, ImageSpan
  <1> DEFINE Over(w) == {i \in Loaded(headers) : Covers(headers[i], w)}
             Byte(w) == IF Over(w) = {} THEN "ff"
                        ELSE headers[CopiedLast(headers, Over(w))]
                             .data[w - headers[CopiedLast(headers, Over(w))].at + 1]
             img == [i \in 1..(end - start) |-> Byte(start + i - 1)]
  <1>4. ElfToImage(headers) = [at |-> start, img |-> img]
    BY <1>1, <1>2 DEF ElfToImage
  <1>5. DOMAIN img = 1..(end - start) /\ Len(img) = end - start /\ Len(img) \in Nat \ {0}
    <2>1. end - start \in Nat \ {0}
      BY <1>3
    <2>2. img \in [1..(end - start) -> {Byte(start + i - 1) : i \in 1..(end - start)}]
      OBVIOUS
    <2> HIDE DEF img, Byte
    <2>3. QED BY <2>1, <2>2, AsSeq
  <1>6. ASSUME NEW i \in Loaded(headers), NEW w \in Nat, Covers(headers[i], w)
        PROVE  /\ w - start + 1 \in DOMAIN img
               /\ (\A k \in Loaded(headers) : Covers(headers[k], w) => NotAfter(headers, k, i))
                  => img[w - start + 1] = headers[i].data[w - headers[i].at + 1]
    <2>1. headers[i].at <= w /\ w < Behind(headers[i]) /\ headers[i].at \in Nat /\ Behind(headers[i]) \in Nat
      BY <1>6, HeaderAt DEF Covers
    <2>2. w - start + 1 \in 1..(end - start) /\ start + (w - start + 1) - 1 = w
      BY <2>1, <1>3
    <2>3. img[w - start + 1] = Byte(w)
      BY <2>2
    <2>4. ASSUME \A k \in Loaded(headers) : Covers(headers[k], w) => NotAfter(headers, k, i)
          PROVE  CopiedLast(headers, Over(w)) = i
      <3>1. i \in Over(w) /\ \A k \in Over(w) : NotAfter(headers, k, i)
        BY <1>6, <2>4
      <3>2. \A k \in Over(w) : k \in Nat /\ headers[k].at \in Nat
        <4>1. \A k \in DOMAIN headers : k \in Nat
          BY DEF Headers
        <4>2. QED BY <4>1, HeaderAt
      <3>3. \A k \in Over(w) : (\A j \in Over(w) : NotAfter(headers, j, k)) => k = i
        BY <3>1, <3>2 DEF NotAfter
      <3> HIDE DEF Over
      <3>4. QED BY <3>1, <3>3 DEF CopiedLast
    <2>5. QED BY <1>5, <1>6, <2>2, <2>3, <2>4
  <1>7. ElfToImage(headers).at = start /\ ElfToImage(headers).img = img
    BY <1>4
  <1> HIDE DEF img, Over, Byte
  <1>8. QED BY <1>3, <1>5, <1>6, <1>7

-----------------------------------------------------------------------------
(* The scripts of memory accesses *)

Mem == Made({"mem8", "mem32"}, {"none"})

\* Accesses that the ST-Link takes, side by side from the start to the end.
Lies(q, at, n) ==
    /\ q \in Seq(Mem)
    /\ q = <<>> => n = 0
    /\ q # <<>> => q[1].at = at /\ q[Len(q)].at + q[Len(q)].n = at + n
    /\ \A i \in 1..Len(q) - 1 : q[i].at + q[i].n = q[i + 1].at
    /\ \A i \in DOMAIN q : q[i].at \in Nat /\ q[i].n \in Nat \ {0} /\ ~Unaligned(q[i])

LEMMA LiesJoin ==
    ASSUME NEW a, NEW b, NEW at \in Nat, NEW m \in Nat, NEW n \in Nat,
           Lies(a, at, m), Lies(b, at + m, n)
    PROVE  Lies(a \o b, at, m + n)
  <1>1. a \in Seq(Mem) /\ b \in Seq(Mem)
    BY DEF Lies
  <1>2. PICK q : q = a \o b
    OBVIOUS
  <1>3. /\ q \in Seq(Mem) /\ Len(a) \in Nat /\ Len(b) \in Nat /\ Len(q) = Len(a) + Len(b)
        /\ DOMAIN a = 1..Len(a) /\ DOMAIN b = 1..Len(b) /\ DOMAIN q = 1 .. Len(a) + Len(b)
    BY <1>1, <1>2
  <1>4. \A i \in 1..Len(a) : q[i] = a[i]
    BY <1>1, <1>2
  <1>5. \A i \in 1..Len(b) : q[Len(a) + i] = b[i]
    BY <1>1, <1>2
  <1>6. (a = <<>> <=> Len(a) = 0) /\ (b = <<>> <=> Len(b) = 0) /\ (q = <<>> <=> Len(q) = 0)
    BY <1>1, <1>3
  <1>7. \A i \in DOMAIN q : i \in 1..Len(a) \/ (i - Len(a) \in 1..Len(b) /\ q[i] = b[i - Len(a)])
    <2>1. TAKE i \in DOMAIN q
    <2>2. CASE i > Len(a)
      <3>1. i - Len(a) \in 1..Len(b) /\ Len(a) + (i - Len(a)) = i
        BY <2>2, <1>3
      <3>2. QED BY <3>1, <1>5
    <2>3. QED BY <2>2, <1>3
  <1>8. \A i \in DOMAIN q : q[i].at \in Nat /\ q[i].n \in Nat \ {0} /\ ~Unaligned(q[i])
    BY <1>3, <1>4, <1>7 DEF Lies
  <1>9. q = <<>> => m + n = 0
    BY <1>3, <1>6 DEF Lies
  <1>10. q # <<>> => q[1].at = at /\ q[Len(q)].at + q[Len(q)].n = at + (m + n)
    <2>1. CASE a # <<>> /\ b # <<>>
      <3>1. 1 \in 1..Len(a) /\ Len(b) \in 1..Len(b)
        BY <2>1, <1>3, <1>6
      <3>2. q[1] = a[1] /\ q[Len(q)] = b[Len(b)]
        BY <3>1, <1>3, <1>4, <1>5
      <3>3. a[1].at = at /\ b[Len(b)].at + b[Len(b)].n = (at + m) + n
        BY <2>1 DEF Lies
      <3>4. QED BY <3>2, <3>3
    <2>2. CASE a = <<>>
      <3>1. q = b /\ m = 0
        BY <2>2, <1>1, <1>2 DEF Lies
      <3>2. QED BY <3>1 DEF Lies
    <2>3. CASE b = <<>>
      <3>1. q = a /\ n = 0
        BY <2>3, <1>1, <1>2 DEF Lies
      <3>2. QED BY <3>1 DEF Lies
    <2>4. QED BY <2>1, <2>2, <2>3
  <1>11. ASSUME NEW i \in 1..Len(q) - 1
         PROVE  q[i].at + q[i].n = q[i + 1].at
    <2>1. i \in Nat /\ i >= 1 /\ i + 1 <= Len(a) + Len(b)
      BY <1>3
    <2>2. CASE i < Len(a)
      <3>1. i \in 1..Len(a) - 1 /\ i \in 1..Len(a) /\ i + 1 \in 1..Len(a)
        BY <2>1, <2>2, <1>3
      <3>2. QED BY <3>1, <1>4 DEF Lies
    <2>3. CASE i = Len(a)
      <3>1. a # <<>> /\ b # <<>> /\ i \in 1..Len(a) /\ 1 \in 1..Len(b)
        BY <2>1, <2>3, <1>3, <1>6
      <3>2. q[i] = a[Len(a)] /\ q[i + 1] = b[1]
        BY <3>1, <2>3, <1>4, <1>5
      <3>3. a[Len(a)].at + a[Len(a)].n = at + m /\ b[1].at = at + m
        BY <3>1 DEF Lies
      <3>4. QED BY <3>2, <3>3
    <2>4. CASE i > Len(a)
      <3>1. i - Len(a) \in 1..Len(b) - 1 /\ i - Len(a) \in 1..Len(b) /\ (i - Len(a)) + 1 \in 1..Len(b)
            /\ Len(a) + (i - Len(a)) = i /\ Len(a) + ((i - Len(a)) + 1) = i + 1
        BY <2>1, <2>4, <1>3
      <3>2. q[i] = b[i - Len(a)] /\ q[i + 1] = b[(i - Len(a)) + 1]
        BY <3>1, <1>5
      <3>3. QED BY <3>1, <3>2 DEF Lies
    <2>5. QED BY <2>1, <2>2, <2>3, <2>4, <1>3
  <1>12. QED BY <1>2, <1>3, <1>8, <1>9, <1>10, <1>11 DEF Lies

LEMMA LiesTail ==
    ASSUME NEW q, NEW at \in Nat, NEW n \in Nat, Lies(q, at, n), q # <<>>
    PROVE  /\ Head(q).at = at /\ Head(q).n \in Nat \ {0} /\ Head(q).n <= n
           /\ ~Unaligned(Head(q)) /\ Head(q) \in Mem
           /\ Lies(Tail(q), at + Head(q).n, n - Head(q).n)
  <1>1. q \in Seq(Mem)
    BY DEF Lies
  <1>2. /\ Len(q) \in Nat \ {0} /\ Head(q) = q[1] /\ Head(q) \in Mem /\ Tail(q) \in Seq(Mem)
        /\ DOMAIN q = 1..Len(q) /\ DOMAIN Tail(q) = 1..Len(q) - 1 /\ Len(Tail(q)) = Len(q) - 1
        /\ (Tail(q) = <<>> <=> Len(q) = 1)
    BY <1>1, TailAt, TailLen
  <1>3. \A i \in 1..Len(q) - 1 : i + 1 \in DOMAIN q /\ Tail(q)[i] = q[i + 1]
    BY <1>1, <1>2, TailAt
  <1>4. PICK k : k = Head(q).n
    OBVIOUS
  <1>5. Head(q).at = at /\ k \in Nat \ {0} /\ ~Unaligned(Head(q))
    BY <1>2, <1>4 DEF Lies
  <1>6. CASE Len(q) = 1
    <2>1. at + k = at + n
      BY <1>2, <1>4, <1>5, <1>6 DEF Lies
    <2>2. Tail(q) = <<>> /\ n - k = 0 /\ k <= n
      BY <2>1, <1>2, <1>5, <1>6
    <2>3. Lies(<<>>, at + k, 0)
      BY DEF Lies
    <2>4. QED BY <2>2, <2>3, <1>2, <1>4, <1>5
  <1>7. CASE Len(q) # 1
    <2>1. 1 \in 1..Len(q) - 1 /\ Len(q) - 1 \in 1..Len(q) - 1 /\ (Len(q) - 1) + 1 = Len(q)
      BY <1>2, <1>7
    <2>2. Tail(q)[1] = q[2] /\ Tail(q)[Len(q) - 1] = q[Len(q)]
      BY <2>1, <1>3
    <2>3. q[1].at + q[1].n = q[1 + 1].at /\ q[Len(q)].at + q[Len(q)].n = at + n
      BY <2>1 DEF Lies
    <2>4. Tail(q)[1].at = at + k
      <3>1. q[1].at = at /\ q[1].n = k /\ 1 + 1 = 2
        BY <1>2, <1>4, <1>5
      <3>2. QED BY <3>1, <2>2, <2>3
    <2>5. \A i \in DOMAIN Tail(q) :
              Tail(q)[i].at \in Nat /\ Tail(q)[i].n \in Nat \ {0} /\ ~Unaligned(Tail(q)[i])
      BY <1>2, <1>3 DEF Lies
    <2>6. \A i \in 1..(Len(q) - 1) - 1 : Tail(q)[i].at + Tail(q)[i].n = Tail(q)[i + 1].at
      <3>1. TAKE i \in 1..(Len(q) - 1) - 1
      <3>2. i \in 1..Len(q) - 1 /\ i + 1 \in 1..Len(q) - 1
        BY <1>2
      <3>3. QED BY <3>2, <1>3 DEF Lies
    <2>7. at + n \in Nat /\ at + k \in Nat /\ (at + k) + (n - k) = at + n
      BY <1>5
    <2>8. Lies(Tail(q), at + k, n - k)
      BY <2>2, <2>3, <2>4, <2>5, <2>6, <2>7, <1>2, <1>7 DEF Lies
    <2>9. k <= n
      <3> DEFINE N == {j \in Nat : j \in DOMAIN q /\ q[j].at < at}
      <3>1. N = {}
        <4>1. SUFFICES ASSUME N # {} PROVE FALSE
          OBVIOUS
        <4>2. PICK j \in N : \A i \in N : j <= i
          BY <4>1, Smallest
        <4>3. j # 1 /\ j \in 1..Len(q) /\ q[j].at < at
          BY <4>2, <1>2, <1>5
        <4>4. j - 1 \in 1..Len(q) - 1 /\ j - 1 \in DOMAIN q /\ (j - 1) + 1 = j
          BY <4>3, <1>2
        <4>5. q[j - 1].at + q[j - 1].n = q[j].at /\ q[j - 1].at \in Nat /\ q[j - 1].n \in Nat
          BY <4>4 DEF Lies
        <4>6. j - 1 \in N
          BY <4>3, <4>4, <4>5
        <4>7. QED BY <4>2, <4>3, <4>4, <4>6
      <3> DEFINE M == {j \in Nat : j \in DOMAIN q /\ j # 1 /\ q[j].at < at + k}
      <3>2. M = {}
        <4>1. SUFFICES ASSUME M # {} PROVE FALSE
          OBVIOUS
        <4>2. PICK j \in M : \A i \in M : j <= i
          BY <4>1, Smallest
        <4>3. j # 1 /\ j \in 1..Len(q) /\ q[j].at < at + k
          BY <4>2, <1>2
        <4>4. j - 1 \in 1..Len(q) - 1 /\ j - 1 \in DOMAIN q /\ (j - 1) + 1 = j
          BY <4>3, <1>2
        <4>5. q[j - 1].at + q[j - 1].n = q[j].at /\ q[j - 1].at \in Nat /\ q[j - 1].n \in Nat
          BY <4>4 DEF Lies
        <4>6. j - 1 # 1
          BY <4>3, <4>5, <1>2, <1>4, <1>5
        <4>7. j - 1 \in M
          BY <4>3, <4>4, <4>5, <4>6, <1>5
        <4>8. QED BY <4>2, <4>3, <4>4, <4>7
      <3>3. Len(q) \notin M /\ Len(q) \in DOMAIN q
        BY <3>2, <1>2
      <3>4. q[Len(q)].at >= at + k /\ q[Len(q)].n \in Nat /\ q[Len(q)].at \in Nat
        BY <3>3, <1>2, <1>5, <1>7 DEF Lies
      <3>5. QED BY <3>4, <2>3, <1>5
    <2>10. QED BY <2>8, <2>9, <1>2, <1>4, <1>5
  <1>8. QED BY <1>6, <1>7

LEMMA Fours ==
    ASSUME NEW a \in Nat, NEW b \in Nat
    PROVE  a % 4 = 0 => (b % 4 = 0 <=> (a + b) % 4 = 0)
  OBVIOUS

LEMMA TilesLie ==
    ASSUME NEW b, NEW d \in {"mem8", "mem32"}, NEW at \in Nat, NEW n \in Nat, NEW max \in Nat \ {0},
           Tiles(b, d, at, n, max),
           d = "mem32" => n = 0 \/ (at % 4 = 0 /\ n % 4 = 0 /\ max % 4 = 0)
    PROVE  Lies(b, at, n)
  <1>1. /\ b \in Seq(Made({d}, {"none"})) /\ DOMAIN b = 1..Len(b) /\ Len(b) \in Nat
        /\ \A i \in 1..Len(b) : /\ b[i].do = d /\ b[i].at \in Nat /\ b[i].at >= at
                                /\ b[i].n \in Nat \ {0} /\ b[i].at + b[i].n <= at + n
    BY DEF Tiles
  <1>2. b \in Seq(Mem)
    <2>1. {d} \subseteq {"mem8", "mem32"} /\ {"none"} \subseteq {"none"}
      OBVIOUS
    <2>2. QED BY <1>1, <2>1, MadeGrows DEF Mem
  <1>3. ASSUME d = "mem32"
        PROVE  \A i \in 1..Len(b) : b[i].at % 4 = 0 /\ b[i].n % 4 = 0
    <2>1. CASE n = 0
      <3>1. \A i \in 1..Len(b) : FALSE
        BY <2>1, <1>1
      <3>2. QED BY <3>1
    <2>2. CASE n # 0
      <3>1. at % 4 = 0 /\ n % 4 = 0 /\ max % 4 = 0
        BY <1>3, <2>2
      <3> DEFINE N == {j \in Nat : j \in 1..Len(b) /\ b[j].at % 4 # 0}
      <3>2. N = {}
        <4>1. SUFFICES ASSUME N # {} PROVE FALSE
          OBVIOUS
        <4>2. PICK j \in N : \A i \in N : j <= i
          BY <4>1, Smallest
        <4>3. j \in 1..Len(b) /\ b[j].at % 4 # 0 /\ b # <<>>
          BY <4>2, <1>1
        <4>4. j # 1
          BY <4>3, <3>1 DEF Tiles
        <4>5. j - 1 \in 1..Len(b) - 1 /\ j - 1 \in 1..Len(b) /\ (j - 1) + 1 = j /\ j - 1 \notin N
          BY <4>2, <4>3, <4>4, <1>1
        <4>6. b[j - 1].n = max /\ b[j - 1].at + b[j - 1].n = b[j].at
          BY <4>5 DEF Tiles
        <4>7. b[j - 1].at \in Nat
          BY <4>5, <1>1
        <4>8. j - 1 \in Nat
          BY <4>5, <1>1
        <4>9. b[j - 1].at % 4 = 0
          BY <4>5, <4>8
        <4>10. (b[j - 1].at + max) % 4 = 0
          BY <4>7, <4>9, <3>1, Fours
        <4>11. QED BY <4>3, <4>6, <4>10
      <3>3. ASSUME NEW i \in 1..Len(b) PROVE b[i].at % 4 = 0
        <4>1. i \in Nat
          BY <1>1
        <4>2. i \notin N
          BY <3>2
        <4>3. QED BY <4>1, <4>2
      <3>4. ASSUME NEW i \in 1..Len(b) PROVE b[i].n % 4 = 0
        <4>1. CASE i = Len(b)
          <5>1. b[i].at + b[i].n = at + n /\ b[i].at \in Nat /\ b[i].n \in Nat
            BY <4>1, <1>1 DEF Tiles
          <5>2. (at + n) % 4 = 0
            BY <3>1, Fours
          <5>3. b[i].at % 4 = 0
            BY <3>3
          <5>4. (b[i].at + b[i].n) % 4 = 0
            BY <5>1, <5>2
          <5>5. QED BY <5>1, <5>3, <5>4, Fours
        <4>2. CASE i # Len(b)
          <5>1. i \in 1..Len(b) - 1
            <6>1. Len(b) \in Nat
              BY <1>1
            <6>2. QED BY <6>1, <4>2
          <5>2. QED BY <5>1, <3>1 DEF Tiles
        <4>3. QED BY <4>1, <4>2
      <3>5. QED BY <3>3, <3>4
    <2>3. QED BY <2>1, <2>2
  <1>4. \A i \in DOMAIN b : ~Unaligned(b[i])
    BY <1>1, <1>3 DEF Unaligned
  <1>5. QED BY <1>1, <1>2, <1>4 DEF Tiles, Lies

\* The chunks of a range cover it, and are aligned.
LEMMA ChunksLie ==
    ASSUME NEW at \in Nat, NEW n \in Nat
    PROVE  Lies(Chunks(at, n), at, n)
  <1>1. PICK head : head = Head8(at, n)
    OBVIOUS
  <1>2. PICK body : body = Body32(at, n)
    OBVIOUS
  <1>3. head \in Nat /\ head <= n /\ (head = n \/ (at + head) % 4 = 0)
    BY <1>1 DEF Head8
  <1>4. body \in Nat /\ body % 4 = 0 /\ head + body <= n /\ (head = n => body = 0)
    <2>1. body = ((n - head) \div 4) * 4 /\ n - head \in Nat
      BY <1>1, <1>2, <1>3 DEF Body32
    <2>2. QED BY <2>1, <1>3
  <1>5. PICK a, b, c : /\ a = Blocks("mem8", at, head, 4)
                       /\ b = Blocks("mem32", at + head, body, MaxTransfer)
                       /\ c = Blocks("mem8", at + head + body, n - head - body, 64)
    OBVIOUS
  <1>6. Chunks(at, n) = (a \o b) \o c
    BY <1>1, <1>2, <1>5 DEF Chunks
  <1>7. MaxTransfer \in Nat \ {0} /\ MaxTransfer % 4 = 0 /\ 4 \in Nat \ {0} /\ 64 \in Nat \ {0}
    BY FlashAssumption
  <1>8. at + head \in Nat /\ at + head + body \in Nat /\ n - head - body \in Nat
    BY <1>3, <1>4
  <1>9. Lies(a, at, head)
    BY <1>3, <1>5, <1>7, BlocksAt, TilesLie
  <1>10. Lies(b, at + head, body)
    BY <1>3, <1>4, <1>5, <1>7, <1>8, BlocksAt, TilesLie
  <1>11. Lies(c, at + head + body, n - head - body)
    <2>1. Tiles(c, "mem8", at + head + body, n - head - body, 64)
      BY <1>5, <1>7, <1>8, BlocksAt
    <2>2. QED BY <2>1, <1>7, <1>8, TilesLie
  <1>12. Lies(a \o b, at, head + body)
    BY <1>3, <1>4, <1>9, <1>10, LiesJoin
  <1>13. at + head + body = at + (head + body) /\ head + body \in Nat
         /\ (head + body) + (n - head - body) = n
    BY <1>3, <1>4
  <1>14. Lies((a \o b) \o c, at, n)
    BY <1>8, <1>11, <1>12, <1>13, LiesJoin
  <1>15. QED BY <1>6, <1>14

\* What is left of an access: the rest of the range, and how it went.
Reading(q, at, n) == \E c : Lies(c, at, n) /\ q = c \o <<X("status")>>

LEMMA ReadingTail ==
    ASSUME NEW q, NEW at \in Nat, NEW n \in Nat, Reading(q, at, n)
    PROVE  /\ q # <<>> /\ q \in Seq(Work("read")) /\ Work("write") = Work("read")
           /\ Head(q).do = "status" => n = 0 /\ Tail(q) = <<>>
           /\ Head(q).do # "status" =>
                 /\ Head(q).at = at /\ Head(q).n \in Nat \ {0} /\ Head(q).n <= n
                 /\ ~Unaligned(Head(q)) /\ Head(q).do \in {"mem8", "mem32"}
                 /\ Reading(Tail(q), at + Head(q).n, n - Head(q).n)
           /\ n > 0 => Head(q).do # "status"
  <1>1. PICK c : Lies(c, at, n) /\ q = c \o <<X("status")>>
    BY DEF Reading
  <1> DEFINE M == Work("read")
  <1>2. M = Made({"mem8", "mem32", "status"}, {"none"}) /\ Work("write") = M
    BY DEF Work, DosOf, GuardsOf
  <1>3. c \in Seq(Mem) /\ c \in Seq(M)
    <2>1. {"mem8", "mem32"} \subseteq {"mem8", "mem32", "status"} /\ {"none"} \subseteq {"none"}
      OBVIOUS
    <2>2. c \in Seq(Mem)
      BY <1>1 DEF Lies
    <2>3. QED BY <1>2, <2>1, <2>2, MadeGrows DEF Mem
  <1>4. PICK e : e = <<X("status")>>
    OBVIOUS
  <1>5. e \in Seq(M) /\ Len(e) = 1 /\ e[1] = X("status") /\ X("status").do = "status"
    BY <1>2, <1>4, OneTransfer
  <1> HIDE DEF M
  <1>6. q = c \o e /\ q \in Seq(M) /\ q # <<>>
    BY <1>1, <1>3, <1>4, <1>5
  <1>7. CASE c = <<>>
    <2>1. q = e /\ n = 0
      BY <1>1, <1>3, <1>5, <1>6, <1>7 DEF Lies
    <2>2. Head(q).do = "status" /\ Tail(q) = <<>>
      BY <2>1, <1>4, <1>5
    <2>3. QED BY <2>1, <2>2, <1>2, <1>6 DEF M
  <1>8. CASE c # <<>>
    <2>1. Head(q) = Head(c) /\ Tail(q) = Tail(c) \o e
      BY <1>3, <1>5, <1>6, <1>8
    <2>2. /\ Head(c).at = at /\ Head(c).n \in Nat \ {0} /\ Head(c).n <= n
          /\ ~Unaligned(Head(c)) /\ Head(c) \in Mem
          /\ Lies(Tail(c), at + Head(c).n, n - Head(c).n)
      BY <1>1, <1>8, LiesTail
    <2>3. Head(c).do \in {"mem8", "mem32"}
      BY <2>2 DEF Mem, Made
    <2>4. Reading(Tail(q), at + Head(c).n, n - Head(c).n)
      BY <2>1, <2>2, <1>4 DEF Reading
    <2>5. QED BY <2>1, <2>2, <2>3, <2>4, <1>2, <1>6 DEF M
  <1>9. QED BY <1>7, <1>8

LEMMA AccessBegins ==
    ASSUME NEW r \in Ranges
    PROVE  /\ r.at \in Nat /\ r.n \in Nat /\ AccessScript(r) \in Seq(Work("read"))
           /\ Work("write") = Work("read")
           /\ r.n = 0 => AccessScript(r) = <<>>
           /\ r.n # 0 => Reading(AccessScript(r), r.at, r.n)
  <1>1. r.at \in Nat /\ r.n \in Nat
    BY FlashAssumption
  <1>2. Work("write") = Work("read")
    BY DEF Work, DosOf, GuardsOf
  <1>3. CASE r.n = 0
    BY <1>1, <1>2, <1>3 DEF AccessScript
  <1>4. CASE r.n # 0
    <2>1. Reading(AccessScript(r), r.at, r.n)
      BY <1>1, <1>4, ChunksLie DEF AccessScript, Reading
    <2>2. QED BY <1>1, <1>2, <1>4, <2>1, ReadingTail
  <1>5. QED BY <1>3, <1>4

-----------------------------------------------------------------------------
(* Steps: what an operation's transfers do to the processor and to the lock *)

Kinds == Operations \cup {"attach", "flash", "read", "write", "none"}

\* What is left to do after an exception.
Mends == {"access", "uncatch", "high", "lock"}

Registers == [lock : BOOLEAN, pg : BOOLEAN, ser : BOOLEAN, snb : Int]

Typed ==
    /\ core \in {"run", "halt"} /\ before \in {"run", "halt"}
    /\ op \in Kinds /\ todo \in Seq(Work(op))
    /\ ~ok => todo \in Seq(Made(Mends, {"none"}))
    /\ cr \in Registers /\ seen \in Registers
    /\ op = "flash" => IsImage(req) /\ \A i \in DOMAIN todo : Fits(req, todo[i])
    /\ op \in {"read", "write"} => req \in Ranges

\* What a transfer does that is done.
Effect(d) ==
    /\ core' \in {"run", "halt"}
    /\ d \in {"halt", "mask"} => core' = "halt"
    /\ d = "run" => core' = "run"
    /\ d = "reset" => core' = IF catching THEN "halt" ELSE "run"
    /\ d \notin {"halt", "mask", "run", "reset", "low", "step"} => core' = core
    /\ d = "halted" => core = "halt"
    /\ d \in Unmasks => ~masked'
    /\ d # "mask" => (masked' => masked)
    /\ d = "uncatch" => ~catching'
    /\ d # "catch" => (catching' => catching)
    /\ d = "lock" => cr'.lock
    /\ d # "key2" /\ cr.lock => cr'.lock
    /\ d = "readCr" => seen' = cr'
    /\ d = "key1" => (seen'.lock => cr'.lock)

Stays == UNCHANGED <<op, before, undisturbed, req>>

\* One transfer passes; or it throws, with or without its effect.
Passes ==
    /\ todo # <<>> /\ link = "ok" /\ todo' = Tail(todo) /\ ok' = ok /\ Stays
    /\ failed' = failed \/ (failed'.under = "none" /\ failed'.by = "fault")
    /\ Effect(Head(todo).do)

Gives ==
    /\ todo # <<>> /\ link = "ok" /\ ok' = FALSE /\ Stays
    /\ \/ /\ todo' = Cleanup(Head(todo).guard)
          /\ failed'.under = IF ok THEN Head(todo).guard ELSE "cleanup"
       \/ todo' = <<>> /\ failed'.under = "link"
    /\ Effect(Head(todo).do) \/ UNCHANGED <<cpu, cr>>

\* A read begins again.
Repeats ==
    /\ todo # <<>> /\ op = "read" /\ ok /\ todo' = AccessScript(req) /\ UNCHANGED <<ok, failed, cpu, cr>>
    /\ Stays

Begins ==
    /\ todo = <<>> /\ ok' = TRUE /\ before' = core /\ failed'.by = "none" /\ failed'.under = "none"
    /\ undisturbed' = TRUE /\ UNCHANGED <<cpu, cr>>
    /\ op' \in Kinds /\ todo' \in Seq(Work(op'))
    /\ op' \in Operations \cup {"flash"} => Begun(op', todo')
    /\ op' = "flash" => IsImage(req') /\ todo' \in Parts(Work("flash"), req')
    /\ op' \in {"read", "write"} => req' \in Ranges

\* The erase ends, the board is reset, or nothing happens.
Aside ==
    /\ UNCHANGED <<op, todo, ok, before, failed, req>>
    /\ \/ UNCHANGED <<cpu, undisturbed, cr>>
       \/ /\ undisturbed' = FALSE /\ core' \in {"run", "halt"} /\ masked' = FALSE
          /\ catching' = catching /\ cr' = Locked

LEMMA DoneMoves ==
    ASSUME todo # <<>>, link = "ok", Done, Effect(Head(todo).do), req' = req
    PROVE  Passes \/ Gives
  <1>1. CASE Goes
    <2>1. Passes
      BY <1>1 DEF Done, Goes, Passes, Rest, Stays
    <2>2. QED BY <2>1
  <1>2. CASE Fails
    <2>1. Gives
      BY <1>2 DEF Done, Fails, Gives, Rest, Stays, Throws, Failure
    <2>2. QED BY <2>1
  <1>3. QED BY <1>1, <1>2 DEF Done

LEMMA ThrowMoves ==
    ASSUME todo # <<>>, link = "ok", GivesUp \/ (Fails /\ Rest /\ UNCHANGED cpu),
           UNCHANGED <<req, cr>>
    PROVE  Gives
  BY DEF GivesUp, Fails, Gives, Rest, Stays, Throws, Failure

\* The processor's own transfers.
LEMMA CoreMoves ==
    ASSUME Typed, CoreTransfer \/ Lost, UNCHANGED <<controller, req>>
    PROVE  Passes \/ Gives
  <1>1. cr' = cr /\ req' = req /\ core \in {"run", "halt"}
    BY DEF controller, Typed
  <1>2. CASE Access
    <2>1. todo # <<>> /\ link = "ok" /\ Done /\ Effect(Head(todo).do)
      BY <1>1, <1>2 DEF Access, At, Effect, Unmasks, cpu
    <2>2. QED BY <2>1, <1>1, DoneMoves
  <1>3. CASE WriteHalt
    <2>1. todo # <<>> /\ link = "ok" /\ Done /\ Effect(Head(todo).do)
      BY <1>1, <1>3 DEF WriteHalt, At, Effect, Unmasks
    <2>2. QED BY <2>1, <1>1, DoneMoves
  <1>4. CASE Mask
    <2>1. todo # <<>> /\ link = "ok" /\ Done /\ Effect(Head(todo).do)
      BY <1>1, <1>4 DEF Mask, At, Effect, Unmasks
    <2>2. QED BY <2>1, <1>1, DoneMoves
  <1>5. CASE Step
    <2>1. todo # <<>> /\ link = "ok" /\ Done /\ Effect(Head(todo).do)
      BY <1>1, <1>5 DEF Step, At, Effect, Unmasks
    <2>2. QED BY <2>1, <1>1, DoneMoves
  <1>6. CASE Run
    <2>1. todo # <<>> /\ link = "ok" /\ Done /\ Effect(Head(todo).do)
      BY <1>1, <1>6 DEF Run, At, Effect, Unmasks
    <2>2. QED BY <2>1, <1>1, DoneMoves
  <1>7. CASE SeesHalted
    <2>1. CASE core = "halt" /\ Done /\ UNCHANGED cpu
      <3>1. todo # <<>> /\ link = "ok" /\ Done /\ Effect(Head(todo).do)
        BY <1>1, <1>7, <2>1 DEF SeesHalted, At, Effect, Unmasks, cpu
      <3>2. QED BY <3>1, <1>1, DoneMoves
    <2>2. CASE GivesUp
      BY <1>1, <1>7, <2>2, ThrowMoves DEF SeesHalted, At
    <2>3. QED BY <1>7, <2>1, <2>2 DEF SeesHalted
  <1>8. CASE WriteCatch
    <2>1. todo # <<>> /\ link = "ok" /\ Done /\ Head(todo).do \in {"catch", "uncatch"}
          /\ (catching' <=> Head(todo).do = "catch") /\ core' = core /\ masked' = masked
      BY <1>8 DEF WriteCatch, At
    <2>2. Effect(Head(todo).do)
      BY <2>1, <1>1 DEF Effect, Unmasks
    <2>3. QED BY <2>1, <2>2, <1>1, DoneMoves
  <1>9. CASE ReleaseReset
    <2>1. todo # <<>> /\ link = "ok" /\ Done /\ Effect(Head(todo).do)
      BY <1>1, <1>9 DEF ReleaseReset, At, Effect, Unmasks
    <2>2. QED BY <2>1, <1>1, DoneMoves
  <1>10. CASE Lost
    BY <1>1, <1>10, ThrowMoves DEF Lost
  <1>11. QED BY <1>2, <1>3, <1>4, <1>5, <1>6, <1>7, <1>8, <1>9, <1>10 DEF CoreTransfer

LEMMA UnheardMoves ==
    ASSUME todo # <<>>, link = "ok", Unheard, req' = req, Effect(Head(todo).do)
    PROVE  Passes
  <1>1. failed'.by = "fault" /\ failed'.under = "none"
    BY DEF Unheard, Failure
  <1>2. QED BY <1>1 DEF Unheard, Passes, Stays, Rest

\* The flash controller's.
LEMMA FlashMoves ==
    ASSUME Typed,
           \/ WriteReset \/ ReadCr \/ (\E k \in {"key1", "key2"} : WriteKey(k)) \/ NoKeyNeeded
           \/ Unlocked \/ ClearSr \/ Select \/ StartErase \/ WriteBits
           \/ WaitBusy \/ ProgramBlock \/ VerifyBlock
    PROVE  Passes \/ Gives
  <1>1. core \in {"run", "halt"} /\ cr \in Registers /\ Locked \in Registers /\ Locked.lock = TRUE
    BY DEF Typed, Locked, Registers
  <1>2. CASE WriteReset
    <2>1. todo # <<>> /\ link = "ok" /\ Done /\ Head(todo).do \in {"reset", "low"} /\ req' = req
          /\ core' = (IF catching THEN "halt" ELSE "run") /\ masked' = FALSE /\ catching' = catching
          /\ cr' = Locked
      BY <1>2 DEF WriteReset, At, ResetCore, ResetFlash
    <2>2. Effect(Head(todo).do)
      BY <2>1, <1>1 DEF Effect, Unmasks
    <2>3. QED BY <2>1, <2>2, DoneMoves
  <1>3. CASE ReadCr
    <2>1. todo # <<>> /\ link = "ok" /\ Done /\ Head(todo).do = "readCr" /\ UNCHANGED <<req, cpu, cr>>
          /\ seen' = cr'
      BY <1>3 DEF ReadCr, At, controller
    <2>2. Effect(Head(todo).do)
      BY <2>1, <1>1 DEF Effect, Unmasks, cpu
    <2>3. QED BY <2>1, <2>2, DoneMoves
  <1>4. ASSUME NEW k \in {"key1", "key2"}, WriteKey(k) PROVE Passes \/ Gives
    <2>1. todo # <<>> /\ link = "ok" /\ Done /\ Head(todo).do = k /\ UNCHANGED <<req, cpu>>
          /\ (k = "key1" => cr' = Locked)
      BY <1>4 DEF WriteKey, At
    <2>2. Effect(Head(todo).do)
      BY <2>1, <1>1 DEF Effect, Unmasks, cpu
    <2>3. QED BY <2>1, <2>2, DoneMoves
  <1>5. CASE NoKeyNeeded
    <2>1. todo # <<>> /\ link = "ok" /\ Done /\ Head(todo).do \in {"key1", "key2"}
          /\ UNCHANGED <<req, cpu, cr, seen>> /\ ~seen.lock
      BY <1>5 DEF NoKeyNeeded, At, controller, Done
    <2>2. Effect(Head(todo).do)
      BY <2>1, <1>1 DEF Effect, Unmasks, cpu
    <2>3. QED BY <2>1, <2>2, DoneMoves
  <1>6. CASE Unlocked
    <2>1. todo # <<>> /\ link = "ok" /\ Head(todo).do = "unlocked" /\ UNCHANGED <<req, cr>>
      BY <1>6 DEF Unlocked, At, controller
    <2>2. CASE Done /\ UNCHANGED cpu
      <3>1. Effect(Head(todo).do)
        BY <2>1, <2>2, <1>1 DEF Effect, Unmasks, cpu
      <3>2. QED BY <2>1, <2>2, <3>1, DoneMoves
    <2>3. CASE GivesUp
      BY <2>1, <2>3, ThrowMoves
    <2>4. QED BY <1>6, <2>2, <2>3 DEF Unlocked
  <1>7. CASE ClearSr
    <2>1. todo # <<>> /\ link = "ok" /\ Done /\ Head(todo).do = "clearSr" /\ UNCHANGED <<req, cpu, cr>>
      BY <1>7 DEF ClearSr, At
    <2>2. Effect(Head(todo).do)
      BY <2>1, <1>1 DEF Effect, Unmasks, cpu
    <2>3. QED BY <2>1, <2>2, DoneMoves
  <1>8. ASSUME NEW value, WriteCr(value), NEW d, At(d),
               d \in {"select", "start", "psize", "pg", "unpg", "lock"},
               d = "lock" => value = Locked
        PROVE  Passes \/ Gives
    <2>1. todo # <<>> /\ link = "ok" /\ Done /\ Head(todo).do = d /\ UNCHANGED <<req, cpu>>
          /\ cr' = IF cr.lock THEN cr ELSE value
      BY <1>8 DEF WriteCr, At
    <2>2. Effect(Head(todo).do)
      BY <2>1, <1>1, <1>8 DEF Effect, Unmasks, cpu
    <2>3. QED BY <2>1, <2>2, DoneMoves
  <1>9. CASE Select
    BY <1>8, <1>9 DEF Select
  <1>10. CASE StartErase
    BY <1>8, <1>10 DEF StartErase
  <1>11. CASE WriteBits
    BY <1>8, <1>11 DEF WriteBits
  <1>12. CASE WaitBusy
    <2>1. todo # <<>> /\ link = "ok" /\ Head(todo).do = "busy" /\ UNCHANGED <<req, cr>>
      BY <1>12 DEF WaitBusy, At, controller
    <2>2. CASE Done /\ UNCHANGED cpu
      <3>1. Effect(Head(todo).do)
        BY <2>1, <2>2, <1>1 DEF Effect, Unmasks, cpu
      <3>2. QED BY <2>1, <2>2, <3>1, DoneMoves
    <2>3. CASE GivesUp \/ (Fails /\ Rest /\ UNCHANGED cpu)
      BY <2>1, <2>3, ThrowMoves
    <2>4. QED BY <1>12, <2>2, <2>3 DEF WaitBusy
  <1>13. CASE ProgramBlock
    <2>1. /\ todo # <<>> /\ link = "ok" /\ (Done \/ Unheard) /\ Head(todo).do = "program"
          /\ UNCHANGED <<req, cpu, cr>>
      BY <1>13 DEF ProgramBlock, At
    <2>2. Effect(Head(todo).do)
      BY <2>1, <1>1 DEF Effect, Unmasks, cpu
    <2>3. QED BY <2>1, <2>2, DoneMoves, UnheardMoves
  <1>14. CASE VerifyBlock
    <2>1. todo # <<>> /\ link = "ok" /\ Head(todo).do = "verify" /\ UNCHANGED <<req, cr>>
      BY <1>14 DEF VerifyBlock, At, controller
    <2>2. CASE Done /\ UNCHANGED cpu
      <3>1. Effect(Head(todo).do)
        BY <2>1, <2>2, <1>1 DEF Effect, Unmasks, cpu
      <3>2. QED BY <2>1, <2>2, <3>1, DoneMoves
    <2>3. CASE GivesUp
      BY <2>1, <2>3, ThrowMoves
    <2>4. QED BY <1>14, <2>2, <2>3 DEF VerifyBlock
  <1>15. QED BY <1>2, <1>3, <1>4, <1>5, <1>6, <1>7, <1>9, <1>10, <1>11, <1>12, <1>13, <1>14

LEMMA HeadDo ==
    ASSUME Typed, todo # <<>>
    PROVE  /\ Head(todo) \in Work(op) /\ Head(todo).do \in DosOf(op) /\ Head(todo).guard \in GuardsOf(op)
           /\ Tail(todo) \in Seq(Work(op))
           /\ ~ok => Head(todo).do \in Mends /\ Head(todo).guard = "none"
                     /\ Tail(todo) \in Seq(Made(Mends, {"none"}))
  <1>1. Head(todo) \in Work(op) /\ Tail(todo) \in Seq(Work(op))
    BY TailAt DEF Typed
  <1>2. Head(todo).do \in DosOf(op) /\ Head(todo).guard \in GuardsOf(op)
    BY <1>1 DEF Work, Made
  <1>3. ASSUME ~ok
        PROVE  /\ Head(todo).do \in Mends /\ Head(todo).guard = "none"
               /\ Tail(todo) \in Seq(Made(Mends, {"none"}))
    <2>1. Head(todo) \in Made(Mends, {"none"}) /\ Tail(todo) \in Seq(Made(Mends, {"none"}))
      BY <1>3, TailAt DEF Typed
    <2>2. QED BY <2>1 DEF Made
  <1>4. QED BY <1>1, <1>2, <1>3

LEMMA MemoryMoves ==
    ASSUME Typed, AccessMemory \/ CheckStatus
    PROVE  Passes \/ Gives \/ Repeats
  <1>1. core \in {"run", "halt"} /\ cr \in Registers /\ op \in Kinds
    BY DEF Typed
  <1>2. CASE AccessMemory
    <2>1. /\ todo # <<>> /\ link = "ok" /\ Head(todo).do \in {"mem8", "mem32"}
          /\ UNCHANGED <<req, cpu, cr>>
      BY <1>2 DEF AccessMemory, At, controller, GivesUp
    <2>2. Effect(Head(todo).do)
      BY <2>1, <1>1 DEF Effect, Unmasks, cpu
    <2>3. CASE GivesUp
      BY <2>1, <2>3, ThrowMoves
    <2>4. CASE Done
      BY <2>1, <2>2, <2>4, DoneMoves
    <2>5. CASE Unheard
      BY <2>1, <2>2, <2>5, UnheardMoves
    <2>6. QED BY <1>2, <2>3, <2>4, <2>5 DEF AccessMemory
  <1>3. CASE CheckStatus
    <2>1. todo # <<>> /\ link = "ok" /\ Head(todo).do = "status" /\ UNCHANGED <<req, cr>>
      BY <1>3 DEF CheckStatus, At, controller
    <2>2. CASE Done /\ UNCHANGED cpu
      <3>1. Effect(Head(todo).do)
        BY <2>1, <2>2, <1>1 DEF Effect, Unmasks, cpu
      <3>2. QED BY <2>1, <2>2, <3>1, DoneMoves
    <2>3. CASE GivesUp
      BY <2>1, <2>3, ThrowMoves
    <2>4. CASE Again /\ todo' = AccessScript(req) /\ UNCHANGED <<cpu, ok, failed>> /\ Rest
      <3>1. ok
        BY <2>1, HeadDo DEF Mends
      <3>2. Repeats
        BY <2>1, <2>4, <3>1 DEF Repeats, Again, Stays, Rest
      <3>3. QED BY <3>2
    <2>5. QED BY <1>3, <2>2, <2>3, <2>4 DEF CheckStatus
  <1>4. QED BY <1>2, <1>3

\* What is flashed is in the window, and has an image.
LEMMA FileRight ==
    ASSUME NEW file \in Files, Loaded(file.headers) # {}
    PROVE  LET image == ElfToImage(file.headers)
               r == [at |-> image.at, img |-> image.img, headers |-> file.headers, verify |-> file.verify]
           IN  IsImage(r) /\ r.headers \in Headers
  <1>1. file.headers \in Headers /\ file.verify \in BOOLEAN
    BY FlashAssumption DEF Headers
  <1>2. PICK image : image = ElfToImage(file.headers)
    OBVIOUS
  <1>3. image.at \in Nat /\ Len(image.img) \in Nat \ {0} /\ DOMAIN image.img = 1..Len(image.img)
    BY <1>1, <1>2, ImageRight
  <1>4. QED BY <1>1, <1>2, <1>3 DEF IsImage

LEMMA BeginMoves ==
    ASSUME Typed,
           \/ ((\E o \in Operations : Operate(o)) \/ Attach)
              /\ UNCHANGED <<controller, seen, req, allowed, memory>>
           \/ \E file \in Files : Flash(file)
           \/ \E r \in Ranges, o \in {"read", "write"} : AccessesMemory(o, r)
    PROVE  Begins
  <1>1. ASSUME NEW o, NEW q, Starts(o, q), cr' = cr, o \in Kinds, q \in Seq(Work(o)),
               o \in Operations \cup {"flash"} => Begun(o, q),
               o = "flash" => IsImage(req') /\ q \in Parts(Work("flash"), req'),
               o \in {"read", "write"} => req' \in Ranges
        PROVE  Begins
    <2>1. /\ todo = <<>> /\ ok' = TRUE /\ before' = core /\ undisturbed' = TRUE
          /\ UNCHANGED cpu /\ op' = o /\ todo' = q
      BY <1>1 DEF Starts, Ended
    <2>2. failed'.by = "none" /\ failed'.under = "none"
      BY <1>1 DEF Starts, Failure
    <2>3. QED BY <2>1, <2>2, <1>1 DEF Begins
  <1>2. ASSUME NEW o \in Operations, Operate(o), UNCHANGED <<controller, seen, req, allowed, memory>>
        PROVE  Begins
    <2>1. PICK q \in Scripts(o) : Starts(o, q)
      BY <1>2 DEF Operate, Begin
    <2>2. Begun(o, q)
      BY OperationsBegin
    <2>3. q \in Seq(Work(o)) /\ o \in Kinds /\ o \notin {"flash", "read", "write"} /\ cr' = cr
      BY <2>2, <1>2 DEF Begun, Kinds, Operations, controller
    <2>4. QED BY <2>1, <2>2, <2>3, <1>1
  <1>3. ASSUME Attach, UNCHANGED <<controller, seen, req, allowed, memory>>
        PROVE  Begins
    <2>1. PICK answers \in {~nrst, FALSE} : Starts("attach", AttachScript(answers))
      BY <1>3 DEF Attach
    <2>2. AttachScript(answers) \in Seq(Work("attach"))
      BY AttachBegins
    <2>3. "attach" \in Kinds /\ "attach" \notin Operations /\ cr' = cr
      BY <1>3 DEF Kinds, Operations, controller
    <2>4. QED BY <2>1, <2>2, <2>3, <1>1
  <1>4. ASSUME NEW file \in Files, Flash(file) PROVE Begins
    <2>1. PICK r : r = [at |-> ElfToImage(file.headers).at, img |-> ElfToImage(file.headers).img,
                        headers |-> file.headers, verify |-> file.verify]
      OBVIOUS
    <2>2. IsImage(r) /\ Flashes(r)
      BY <1>4, <2>1, FileRight DEF Flash
    <2>3. Begun("flash", FlashScript(r)) /\ FlashScript(r) \in Parts(Work("flash"), r)
      BY <2>2, FlashBegins
    <2>4. Starts("flash", FlashScript(r)) /\ req' = r /\ cr' = cr
      BY <2>2 DEF Flashes, Begin, controller
    <2>5. "flash" \in Kinds /\ FlashScript(r) \in Seq(Work("flash"))
      BY <2>3 DEF Kinds, Begun
    <2>6. QED BY <2>2, <2>3, <2>4, <2>5, <1>1
  <1>5. ASSUME NEW r \in Ranges, NEW o \in {"read", "write"}, AccessesMemory(o, r) PROVE Begins
    <2>1. Starts(o, AccessScript(r)) /\ req' = r /\ cr' = cr
      BY <1>5 DEF AccessesMemory, Begin, controller
    <2>2. AccessScript(r) \in Seq(Work(o))
      BY AccessBegins
    <2>3. o \in Kinds /\ o \notin Operations \cup {"flash"}
      BY DEF Kinds, Operations
    <2>4. QED BY <2>1, <2>2, <2>3, <1>1
  <1>6. QED BY <1>2, <1>3, <1>4, <1>5

LEMMA AsideMoves ==
    ASSUME Typed, EraseEnds \/ BoardResets \/ UNCHANGED vars
    PROVE  Aside
  <1>1. CASE EraseEnds
    BY <1>1 DEF EraseEnds, Aside, cortexVars, host, cpu
  <1>2. CASE BoardResets
    <2>1. /\ UNCHANGED <<op, todo, ok, before, failed, req>>
          /\ undisturbed' = FALSE /\ core' = (IF catching THEN "halt" ELSE "run") /\ masked' = FALSE
          /\ catching' = catching /\ cr' = Locked
      BY <1>2 DEF BoardResets, ResetCore, ResetFlash
    <2>2. QED BY <2>1 DEF Aside
  <1>3. CASE UNCHANGED vars
    BY <1>3 DEF vars, cortexVars, host, cpu, controller, Aside
  <1>4. QED BY <1>1, <1>2, <1>3

LEMMA ActiveMoves ==
    ASSUME Typed, [Next]_vars
    PROVE  \/ Begins \/ Passes \/ Gives \/ Repeats
           \/ EraseEnds \/ BoardResets \/ UNCHANGED vars
  <1>1. CASE ((\E o \in Operations : Operate(o)) \/ Attach \/ CoreTransfer \/ Lost)
             /\ UNCHANGED <<controller, seen, req, allowed, memory>>
    BY <1>1, BeginMoves, CoreMoves
  <1>2. CASE (\E file \in Files : Flash(file))
             \/ \E r \in Ranges, o \in {"read", "write"} : AccessesMemory(o, r)
    BY <1>2, BeginMoves
  <1>3. CASE \/ WriteReset \/ ReadCr \/ (\E k \in {"key1", "key2"} : WriteKey(k)) \/ NoKeyNeeded
             \/ Unlocked \/ ClearSr \/ Select \/ StartErase \/ WriteBits
             \/ WaitBusy \/ ProgramBlock \/ VerifyBlock
    BY <1>3, FlashMoves
  <1>4. CASE AccessMemory \/ CheckStatus
    BY <1>4, MemoryMoves
  <1>5. QED BY <1>1, <1>2, <1>3, <1>4 DEF Next

LEMMA Moves ==
    ASSUME Typed, [Next]_vars
    PROVE  Begins \/ Passes \/ Gives \/ Repeats \/ Aside
  BY ActiveMoves, AsideMoves

LEMMA CleanupRight ==
    ASSUME NEW o \in Kinds, NEW g \in GuardsOf(o)
    PROVE  Cleanup(g) \in Seq(Made(Mends, {"none"})) /\ Cleanup(g) \in Seq(Work(o))
  <1>1. g \in {"none", "catch", "nrst", "lock"}
    BY DEF GuardsOf
  <1>2. CASE g = "none"
    <2>1. Cleanup(g) = <<>>
      BY <1>2 DEF Cleanup
    <2>2. QED BY <2>1
  <1>3. CASE g = "catch"
    <2>1. Cleanup(g) = Uncatch
      BY <1>3 DEF Cleanup
    <2>2. o \in {"resetHalt", "flash"}
      BY <1>3 DEF GuardsOf, Kinds, Operations
    <2>3. {"access", "uncatch"} \subseteq Mends /\ {"access", "uncatch"} \subseteq DosOf(o)
          /\ {"none"} \subseteq {"none"} /\ {"none"} \subseteq GuardsOf(o)
      BY <2>2 DEF Mends, DosOf, GuardsOf
    <2>4. Uncatch \in Seq(Made({"access", "uncatch"}, {"none"}))
      BY UncatchRight
    <2>5. Uncatch \in Seq(Made(Mends, {"none"})) /\ Uncatch \in Seq(Made(DosOf(o), GuardsOf(o)))
      BY <2>3, <2>4, MadeGrows
    <2>6. QED BY <2>1, <2>5 DEF Work
  <1>4. CASE g = "nrst"
    <2>1. Cleanup(g) = <<X("high")>>
      BY <1>4 DEF Cleanup
    <2>2. o = "attach"
      BY <1>4 DEF GuardsOf, Kinds, Operations
    <2>3. X("high") \in Made(Mends, {"none"}) /\ X("high") \in Made({"high"}, {"none"})
      BY Plain DEF Mends
    <2>4. X("high") \in Work(o)
      BY <2>2, <2>3 DEF Made, Work, DosOf, GuardsOf
    <2>5. QED BY <2>1, <2>3, <2>4
  <1>5. CASE g = "lock"
    <2>1. Cleanup(g) = <<X("lock")>>
      BY <1>5 DEF Cleanup
    <2>2. o = "flash"
      BY <1>5 DEF GuardsOf, Kinds, Operations
    <2>3. X("lock") \in Made(Mends, {"none"}) /\ X("lock") \in Made({"lock"}, {"none"})
      BY Plain DEF Mends
    <2>4. X("lock") \in Work(o)
      BY <2>2, <2>3 DEF Made, Work, DosOf, GuardsOf
    <2>5. QED BY <2>1, <2>3, <2>4
  <1>6. QED BY <1>1, <1>2, <1>3, <1>4, <1>5

\* What makes up is neither written nor programmed.
LEMMA MendsFit ==
    ASSUME NEW q \in Seq(Made(Mends, {"none"})), NEW r
    PROVE  \A i \in DOMAIN q : Fits(r, q[i])
  <1>1. \A i \in DOMAIN q : q[i] \in Made(Mends, {"none"})
    BY ElementAt
  <1>2. \A i \in DOMAIN q : q[i].do \in Mends
    BY <1>1 DEF Made
  <1>3. QED BY <1>2 DEF Fits, Mends

LEMMA RegistersKept ==
    ASSUME Typed, [Next]_vars
    PROVE  cr' \in Registers /\ seen' \in Registers
  <1>1. cr \in Registers /\ seen \in Registers /\ Locked \in Registers
    BY DEF Typed, Locked, Registers
  <1>2. CASE UNCHANGED <<cr, seen>>
    BY <1>1, <1>2
  <1>3. CASE cr' = Locked /\ seen' = seen
    BY <1>1, <1>3
  <1>4. CASE WriteReset \/ BoardResets
    BY <1>3, <1>4 DEF WriteReset, BoardResets, ResetFlash
  <1>5. CASE ReadCr
    BY <1>1, <1>5 DEF ReadCr, controller
  <1>6. ASSUME NEW k \in {"key1", "key2"}, WriteKey(k)
        PROVE  cr' \in Registers /\ seen' \in Registers
    <2>1. seen' = seen /\ cr' \in {[cr EXCEPT !.lock = FALSE], Locked}
      BY <1>6 DEF WriteKey
    <2>2. [cr EXCEPT !.lock = FALSE] \in Registers
      BY <1>1 DEF Registers
    <2>3. QED BY <2>1, <2>2, <1>1
  <1>7. CASE Select
    <2>1. seen' = seen /\ cr' \in {cr, [seen EXCEPT !.ser = TRUE, !.snb = Head(todo).at]}
          /\ todo # <<>>
      BY <1>7 DEF Select, WriteCr, At
    <2>2. Head(todo).at \in Int
      BY <2>1, HeadDo DEF Work, Made
    <2>3. PICK n \in Int : n = Head(todo).at
      BY <2>2
    <2>4. [seen EXCEPT !.ser = TRUE, !.snb = n] \in Registers
      BY <1>1 DEF Registers
    <2>5. QED BY <2>1, <2>3, <2>4, <1>1
  <1>8. CASE StartErase
    BY <1>1, <1>8 DEF StartErase, WriteCr
  <1>9. CASE WriteBits
    <2>1. seen' = seen /\ cr' \in {cr, seen, [seen EXCEPT !.pg = TRUE], [seen EXCEPT !.pg = FALSE], Locked}
      BY <1>9 DEF WriteBits, WriteCr
    <2>2. [seen EXCEPT !.pg = TRUE] \in Registers /\ [seen EXCEPT !.pg = FALSE] \in Registers
      BY <1>1 DEF Registers
    <2>3. QED BY <2>1, <2>2, <1>1
  <1>10. CASE NoKeyNeeded \/ Unlocked \/ WaitBusy \/ VerifyBlock \/ CheckStatus \/ AccessMemory
    BY <1>2, <1>10 DEF NoKeyNeeded, Unlocked, WaitBusy, VerifyBlock, CheckStatus, AccessMemory, controller
  <1>11. CASE ClearSr \/ ProgramBlock \/ EraseEnds
    BY <1>2, <1>11 DEF ClearSr, ProgramBlock, EraseEnds
  <1>12. ASSUME NEW file \in Files, Flash(file) PROVE UNCHANGED <<cr, seen>>
    BY <1>12 DEF Flash, Flashes, controller
  <1>13. ASSUME NEW r \in Ranges, NEW o \in {"read", "write"}, AccessesMemory(o, r)
         PROVE  UNCHANGED <<cr, seen>>
    BY <1>13 DEF AccessesMemory, controller
  <1>14. CASE UNCHANGED vars
    BY <1>2, <1>14 DEF vars, controller
  <1>15. CASE UNCHANGED <<controller, seen, req, allowed, memory>>
    BY <1>2, <1>15 DEF controller
  <1>16. QED
    BY <1>2, <1>4, <1>5, <1>6, <1>7, <1>8, <1>9, <1>10, <1>11, <1>12, <1>13, <1>14, <1>15 DEF Next

LEMMA TypedStep ==
    ASSUME Typed, [Next]_vars
    PROVE  Typed'
  <1>1. cr' \in Registers /\ seen' \in Registers
    BY RegistersKept
  <1>2. CASE Begins
    <2>1. core' \in {"run", "halt"} /\ before' \in {"run", "halt"} /\ op' \in Kinds
          /\ todo' \in Seq(Work(op')) /\ ok' = TRUE /\ (op' \in {"read", "write"} => req' \in Ranges)
      BY <1>2 DEF Begins, Typed, cpu
    <2>2. op' = "flash" => IsImage(req') /\ \A i \in DOMAIN todo' : Fits(req', todo'[i])
      BY <1>2 DEF Begins, Parts
    <2>3. QED BY <1>1, <2>1, <2>2 DEF Typed
  <1>3. CASE Passes
    <2>1. core' \in {"run", "halt"} /\ before' \in {"run", "halt"} /\ op' \in Kinds /\ op' = op
          /\ ok' = ok /\ req' = req /\ todo' = Tail(todo) /\ todo # <<>>
      BY <1>3 DEF Passes, Typed, Stays, Effect
    <2>2. todo' \in Seq(Work(op')) /\ (~ok' => todo' \in Seq(Made(Mends, {"none"})))
      BY <2>1, HeadDo
    <2>3. op' = "flash" => IsImage(req') /\ \A i \in DOMAIN todo' : Fits(req', todo'[i])
      BY <2>1, TailAt DEF Typed
    <2>4. op' \in {"read", "write"} => req' \in Ranges
      BY <2>1 DEF Typed
    <2>5. QED BY <1>1, <2>1, <2>2, <2>3, <2>4 DEF Typed
  <1>4. CASE Gives
    <2>1. core' \in {"run", "halt"} /\ before' \in {"run", "halt"} /\ op' \in Kinds /\ op' = op
          /\ req' = req /\ todo # <<>>
      BY <1>4 DEF Gives, Typed, Stays, Effect, cpu
    <2>2. todo' \in Seq(Made(Mends, {"none"})) /\ todo' \in Seq(Work(op'))
      <3>1. Cleanup(Head(todo).guard) \in Seq(Made(Mends, {"none"}))
            /\ Cleanup(Head(todo).guard) \in Seq(Work(op))
        BY <2>1, HeadDo, CleanupRight DEF Typed
      <3>2. \A S : <<>> \in Seq(S)
        OBVIOUS
      <3>3. CASE todo' = Cleanup(Head(todo).guard)
        BY <3>1, <3>3, <2>1
      <3>4. CASE todo' = <<>>
        BY <3>2, <3>4
      <3>5. QED BY <3>3, <3>4, <1>4 DEF Gives
    <2>3. op' = "flash" => IsImage(req') /\ \A i \in DOMAIN todo' : Fits(req', todo'[i])
      BY <2>1, <2>2, MendsFit DEF Typed
    <2>4. op' \in {"read", "write"} => req' \in Ranges
      BY <2>1 DEF Typed
    <2>5. QED BY <1>1, <2>1, <2>2, <2>3, <2>4 DEF Typed
  <1>5. CASE Repeats
    <2>1. core' \in {"run", "halt"} /\ before' \in {"run", "halt"} /\ op' = "read"
          /\ req' = req /\ req \in Ranges /\ todo' = AccessScript(req) /\ ok'
      BY <1>5 DEF Repeats, Typed, Stays, cpu
    <2>2. todo' \in Seq(Work(op'))
      BY <2>1, AccessBegins
    <2>3. QED BY <1>1, <2>1, <2>2 DEF Typed, Kinds
  <1>6. CASE Aside
    <2>1. core' \in {"run", "halt"} /\ UNCHANGED <<op, todo, ok, before, req>>
      BY <1>6 DEF Aside, Typed, cpu
    <2>2. QED BY <1>1, <2>1 DEF Typed
  <1>7. QED BY <1>2, <1>3, <1>4, <1>5, <1>6, Moves

LEMMA TypedInit ==
    ASSUME Init
    PROVE  Typed
  BY DEF Init, CortexInit, Typed, Kinds, Registers, Locked

\* Every variable that the proofs read keeps its kind; the memory's cells and the
\* script are left to the invariants about them.
THEOREM TypedAlways == Spec => []Typed
  <1>1. Typed /\ [Next]_vars => Typed'
    BY TypedStep
  <1>2. Init => Typed
    BY TypedInit
  <1>3. QED BY <1>1, <1>2, PTL DEF Spec

-----------------------------------------------------------------------------
(* What an operation owes, while nothing has failed *)

HaltOwed ==
    ok /\ op \in {"step", "resetHalt", "flash"} =>
        /\ Followed(todo, {"step", "reset"}, Fixes)
        /\ undisturbed => Has(todo, Fixes) \/ core = "halt"

UncatchOwed ==
    ok /\ op \in {"resetHalt", "resetRun", "flash"} =>
        Followed(todo, {"catch"}, {"uncatch"}) /\ (Has(todo, {"uncatch"}) \/ ~catching)

UnmaskOwed ==
    ok /\ op \in Operations \ {"halt"} =>
        Followed(todo, {"mask"}, Unmasks) /\ (Has(todo, Unmasks) \/ ~masked)

LockOwed ==
    ok /\ op = "flash" =>
        Followed(todo, {"key2"}, {"lock"}) /\ (Has(todo, {"lock"}) \/ cr.lock)

StateOwed ==
    ok =>
        /\ op \in {"run", "resetRun"} /\ undisturbed => Has(todo, {"run"}) \/ core = "run"
        /\ op = "resetRun" => Ahead(todo, {"uncatch"}, {"reset"})
        /\ op = "halt" /\ undisturbed => Has(todo, {"halt"}) \/ core = "halt"

\* As long as it goes on, and also after it failed.
Between ==
    undisturbed =>
        /\ op = "halt" => core \in {before, "halt"}
        /\ op \in {"run", "resetRun"} => core \in {before, "run"}
        /\ op \in {"read", "write"} => core = before

\* The `finally` of the flash operation locks it, or fails to.
LockTried ==
    ~ok /\ failed.under = "lock" => todo = <<X("lock")>> \/ (todo = <<>> /\ cr.lock)

Paying ==
    /\ Typed
    /\ HaltOwed /\ UncatchOwed /\ UnmaskOwed /\ LockOwed /\ StateOwed
    /\ Between /\ LockTried

LEMMA PassOwes ==
    ASSUME Typed, Passes, NEW D
    PROVE  /\ Has(todo, D) => Head(todo).do \in D \/ Has(todo', D)
           /\ \A C : Followed(todo, C, D) =>
                 Followed(todo', C, D) /\ (Head(todo).do \in C => Has(todo', D))
  <1>1. todo \in Seq(Work(op)) /\ todo # <<>> /\ todo' = Tail(todo)
    BY DEF Typed, Passes
  <1>2. Has(todo, D) => Head(todo).do \in D \/ Has(Tail(todo), D)
    BY <1>1, HasTail
  <1>3. ASSUME NEW C, Followed(todo, C, D)
        PROVE  Followed(Tail(todo), C, D) /\ (Head(todo).do \in C => Has(Tail(todo), D))
    BY <1>1, <1>3, FollowedTail
  <1>4. QED BY <1>1, <1>2, <1>3

\* What a transfer may do to the processor, whether or not it is heard of.
LEMMA CoreBetween ==
    ASSUME Paying, todo # <<>>, Effect(Head(todo).do), undisturbed' = undisturbed, op' = op,
           before' = before
    PROVE  Between'
  <1>1. Head(todo).do \in DosOf(op) /\ (~ok => Head(todo).do \in Mends)
    BY HeadDo DEF Paying
  <1>2. CASE op = "halt"
    BY <1>1, <1>2 DEF Paying, Between, DosOf, Effect
  <1>3. CASE op = "run"
    BY <1>1, <1>3 DEF Paying, Between, DosOf, Effect
  <1>4. CASE op = "resetRun"
    <2>1. Head(todo).do \in {"access", "uncatch", "run", "reset"}
      BY <1>1, <1>4 DEF DosOf
    <2>2. Head(todo).do = "reset" => ~catching
      <3>1. SUFFICES ASSUME Head(todo).do = "reset" PROVE ~catching
        OBVIOUS
      <3>2. ok
        BY <3>1, <1>1 DEF Mends
      <3>3. Ahead(todo, {"uncatch"}, {"reset"}) /\ (Has(todo, {"uncatch"}) \/ ~catching)
        BY <3>2, <1>4 DEF Paying, StateOwed, UncatchOwed
      <3>4. todo \in Seq(Work(op))
        BY DEF Paying, Typed
      <3>5. ~Has(todo, {"uncatch"})
        BY <3>1, <3>3, <3>4, AheadTail
      <3>6. QED BY <3>3, <3>5
    <2>3. core' \in {core, "run"}
      BY <2>1, <2>2 DEF Effect
    <2>4. QED BY <2>3, <1>4 DEF Paying, Between
  <1>5. CASE op \in {"read", "write"}
    BY <1>1, <1>5 DEF Paying, Between, DosOf, Effect
  <1>6. CASE op \notin {"halt", "run", "resetRun", "read", "write"}
    BY <1>6 DEF Between
  <1>7. QED BY <1>2, <1>3, <1>4, <1>5, <1>6

LEMMA PassPays ==
    ASSUME Paying, Passes
    PROVE  HaltOwed' /\ UncatchOwed' /\ UnmaskOwed' /\ LockOwed' /\ StateOwed' /\ Between' /\ LockTried'
  <1> DEFINE d == Head(todo).do
  <1>1. /\ Typed /\ todo # <<>> /\ op' = op /\ before' = before /\ undisturbed' = undisturbed
        /\ ok' = ok /\ Effect(d) /\ todo' = Tail(todo) /\ todo \in Seq(Work(op))
    BY DEF Paying, Passes, Stays, Typed
  <1>2. d \in DosOf(op) /\ (~ok => d \in Mends)
    BY <1>1, HeadDo
  <1> HIDE DEF d
  <1>3. HaltOwed'
    <2>1. SUFFICES ASSUME ok, op \in {"step", "resetHalt", "flash"}
                   PROVE  /\ Followed(todo', {"step", "reset"}, Fixes)
                          /\ undisturbed => Has(todo', Fixes) \/ core' = "halt"
      BY <1>1 DEF HaltOwed
    <2>2. Followed(todo, {"step", "reset"}, Fixes) /\ (undisturbed => Has(todo, Fixes) \/ core = "halt")
      BY <2>1 DEF Paying, HaltOwed
    <2>3. /\ Followed(todo', {"step", "reset"}, Fixes)
          /\ d \in {"step", "reset"} => Has(todo', Fixes)
          /\ Has(todo, Fixes) => d \in Fixes \/ Has(todo', Fixes)
      BY <1>1, <2>2, PassOwes DEF d
    <2>4. d \notin {"run", "low"}
      BY <1>2, <2>1 DEF DosOf
    <2>5. d \in Fixes => core' = "halt"
      BY <1>1 DEF Effect, Fixes
    <2>6. core = "halt" /\ d \notin {"step", "reset"} => core' = "halt"
      BY <1>1, <2>4 DEF Effect
    <2>7. QED BY <2>2, <2>3, <2>5, <2>6
  <1>4. UncatchOwed'
    <2>1. SUFFICES ASSUME ok, op \in {"resetHalt", "resetRun", "flash"}
                   PROVE  /\ Followed(todo', {"catch"}, {"uncatch"})
                          /\ Has(todo', {"uncatch"}) \/ ~catching'
      BY <1>1 DEF UncatchOwed
    <2>2. Followed(todo, {"catch"}, {"uncatch"}) /\ (Has(todo, {"uncatch"}) \/ ~catching)
      BY <2>1 DEF Paying, UncatchOwed
    <2>3. /\ Followed(todo', {"catch"}, {"uncatch"})
          /\ d \in {"catch"} => Has(todo', {"uncatch"})
          /\ Has(todo, {"uncatch"}) => d \in {"uncatch"} \/ Has(todo', {"uncatch"})
      BY <1>1, <2>2, PassOwes DEF d
    <2>4. (d = "uncatch" => ~catching') /\ (d # "catch" => (catching' => catching))
      BY <1>1 DEF Effect
    <2>5. QED BY <2>2, <2>3, <2>4
  <1>5. UnmaskOwed'
    <2>1. SUFFICES ASSUME ok, op \in Operations \ {"halt"}
                   PROVE  /\ Followed(todo', {"mask"}, Unmasks)
                          /\ Has(todo', Unmasks) \/ ~masked'
      BY <1>1 DEF UnmaskOwed
    <2>2. Followed(todo, {"mask"}, Unmasks) /\ (Has(todo, Unmasks) \/ ~masked)
      BY <2>1 DEF Paying, UnmaskOwed
    <2>3. /\ Followed(todo', {"mask"}, Unmasks)
          /\ d \in {"mask"} => Has(todo', Unmasks)
          /\ Has(todo, Unmasks) => d \in Unmasks \/ Has(todo', Unmasks)
      BY <1>1, <2>2, PassOwes DEF d
    <2>4. (d \in Unmasks => ~masked') /\ (d # "mask" => (masked' => masked))
      BY <1>1 DEF Effect
    <2>5. QED BY <2>2, <2>3, <2>4
  <1>6. LockOwed'
    <2>1. SUFFICES ASSUME ok, op = "flash"
                   PROVE  /\ Followed(todo', {"key2"}, {"lock"})
                          /\ Has(todo', {"lock"}) \/ cr'.lock
      BY <1>1 DEF LockOwed
    <2>2. Followed(todo, {"key2"}, {"lock"}) /\ (Has(todo, {"lock"}) \/ cr.lock)
      BY <2>1 DEF Paying, LockOwed
    <2>3. /\ Followed(todo', {"key2"}, {"lock"})
          /\ d \in {"key2"} => Has(todo', {"lock"})
          /\ Has(todo, {"lock"}) => d \in {"lock"} \/ Has(todo', {"lock"})
      BY <1>1, <2>2, PassOwes DEF d
    <2>4. (d = "lock" => cr'.lock) /\ (d # "key2" /\ cr.lock => cr'.lock)
      BY <1>1 DEF Effect
    <2>5. QED BY <2>2, <2>3, <2>4
  <1>7. Between'
    BY <1>1, CoreBetween DEF d
  <1>8. StateOwed'
    <2>1. SUFFICES ASSUME ok
                   PROVE  /\ op \in {"run", "resetRun"} /\ undisturbed => Has(todo', {"run"}) \/ core' = "run"
                          /\ op = "resetRun" => Ahead(todo', {"uncatch"}, {"reset"})
                          /\ op = "halt" /\ undisturbed => Has(todo', {"halt"}) \/ core' = "halt"
      BY <1>1 DEF StateOwed
    <2>2. ASSUME op \in {"run", "resetRun"}, undisturbed PROVE Has(todo', {"run"}) \/ core' = "run"
      <3>1. Has(todo, {"run"}) \/ core = "run"
        BY <2>1, <2>2 DEF Paying, StateOwed
      <3>2. Has(todo, {"run"}) => d \in {"run"} \/ Has(todo', {"run"})
        BY <1>1, PassOwes DEF d
      <3>3. d = "run" => core' = "run"
        BY <1>1 DEF Effect
      <3>4. core = "run" => core' = "run"
        <4>1. d = "reset" => ~catching
          <5>1. SUFFICES ASSUME d = "reset" PROVE ~catching
            OBVIOUS
          <5>2. op = "resetRun"
            BY <5>1, <1>2, <2>2 DEF DosOf
          <5>3. Ahead(todo, {"uncatch"}, {"reset"}) /\ (Has(todo, {"uncatch"}) \/ ~catching)
            BY <5>2, <2>1 DEF Paying, StateOwed, UncatchOwed
          <5>4. ~Has(todo, {"uncatch"})
            BY <5>1, <5>3, <1>1, AheadTail DEF d
          <5>5. QED BY <5>3, <5>4
        <4>2. d \in {"access", "uncatch", "run", "reset"}
          BY <1>2, <2>2 DEF DosOf
        <4>3. QED BY <4>1, <4>2, <1>1 DEF Effect
      <3>5. QED BY <3>1, <3>2, <3>3, <3>4
    <2>3. ASSUME op = "resetRun" PROVE Ahead(todo', {"uncatch"}, {"reset"})
      <3>1. Ahead(todo, {"uncatch"}, {"reset"})
        BY <2>1, <2>3 DEF Paying, StateOwed
      <3>2. QED BY <3>1, <1>1, AheadTail
    <2>4. ASSUME op = "halt", undisturbed PROVE Has(todo', {"halt"}) \/ core' = "halt"
      <3>1. Has(todo, {"halt"}) \/ core = "halt"
        BY <2>1, <2>4 DEF Paying, StateOwed
      <3>2. Has(todo, {"halt"}) => d \in {"halt"} \/ Has(todo', {"halt"})
        BY <1>1, PassOwes DEF d
      <3>3. d \in {"halt", "halted", "access"}
        BY <1>2, <2>4 DEF DosOf
      <3>4. QED BY <3>1, <3>2, <3>3, <1>1 DEF Effect
    <2>5. QED BY <2>2, <2>3, <2>4
  <1>9. LockTried'
    <2>1. SUFFICES ASSUME ~ok, failed'.under = "lock"
                   PROVE  todo' = <<X("lock")>> \/ (todo' = <<>> /\ cr'.lock)
      BY <1>1 DEF LockTried
    <2>2. failed.under = "lock"
      BY <2>1 DEF Passes
    <2>3. todo = <<X("lock")>>
      BY <2>1, <2>2, <1>1 DEF Paying, LockTried
    <2>4. todo' = <<>> /\ d = "lock"
      <3>1. X("lock").do = "lock"
        BY Plain
      <3>2. QED BY <3>1, <2>3, <1>1 DEF d
    <2>5. QED BY <2>4, <1>1 DEF Effect
  <1>10. QED BY <1>3, <1>4, <1>5, <1>6, <1>7, <1>8, <1>9

LEMMA GivePays ==
    ASSUME Paying, Gives
    PROVE  HaltOwed' /\ UncatchOwed' /\ UnmaskOwed' /\ LockOwed' /\ StateOwed' /\ Between' /\ LockTried'
  <1>1. /\ Typed /\ todo # <<>> /\ op' = op /\ before' = before /\ undisturbed' = undisturbed /\ ok' = FALSE
    BY DEF Paying, Gives, Stays
  <1>2. HaltOwed' /\ UncatchOwed' /\ UnmaskOwed' /\ LockOwed' /\ StateOwed'
    BY <1>1 DEF HaltOwed, UncatchOwed, UnmaskOwed, LockOwed, StateOwed
  <1>3. Between'
    <2>1. CASE Effect(Head(todo).do)
      BY <2>1, <1>1, CoreBetween
    <2>2. CASE UNCHANGED cpu
      BY <2>2, <1>1 DEF cpu, Paying, Between
    <2>3. QED BY <2>1, <2>2 DEF Gives
  <1>4. LockTried'
    <2>1. SUFFICES ASSUME failed'.under = "lock" PROVE todo' = <<X("lock")>>
      BY DEF LockTried
    <2>2. ok /\ Head(todo).guard = "lock" /\ todo' = Cleanup(Head(todo).guard)
      BY <2>1 DEF Gives
    <2>3. QED BY <2>2 DEF Cleanup
  <1>5. QED BY <1>2, <1>3, <1>4

LEMMA BeginPays ==
    ASSUME Paying, Begins
    PROVE  HaltOwed' /\ UncatchOwed' /\ UnmaskOwed' /\ LockOwed' /\ StateOwed' /\ Between' /\ LockTried'
  <1>1. ok' = TRUE /\ core' = core /\ before' = core
    BY DEF Begins, cpu
  <1>2. CASE op' \in Operations \cup {"flash"}
    <2>1. Owes(op', todo') /\ (op' = "halt" => Has(todo', {"halt"}) \/ core = "halt")
      BY <1>2 DEF Begins, Begun
    <2>2. HaltOwed' /\ UncatchOwed' /\ UnmaskOwed' /\ LockOwed' /\ StateOwed'
      BY <2>1, <1>1 DEF Owes, Settles, HaltOwed, UncatchOwed, UnmaskOwed, LockOwed, StateOwed
    <2>3. QED BY <2>2, <1>1 DEF Between, LockTried
  <1>3. CASE op' \notin Operations \cup {"flash"}
    <2>1. HaltOwed' /\ UncatchOwed' /\ UnmaskOwed' /\ LockOwed' /\ StateOwed'
      BY <1>3 DEF HaltOwed, UncatchOwed, UnmaskOwed, LockOwed, StateOwed, Operations
    <2>2. QED BY <2>1, <1>1 DEF Between, LockTried
  <1>4. QED BY <1>2, <1>3

LEMMA RepeatPays ==
    ASSUME Paying, Repeats
    PROVE  HaltOwed' /\ UncatchOwed' /\ UnmaskOwed' /\ LockOwed' /\ StateOwed' /\ Between' /\ LockTried'
  <1>1. op' = "read" /\ op = "read" /\ core' = core /\ before' = before /\ undisturbed' = undisturbed
        /\ ok' = ok /\ ok
    BY DEF Repeats, Stays, cpu
  <1>2. HaltOwed' /\ UncatchOwed' /\ UnmaskOwed' /\ LockOwed' /\ StateOwed'
    BY <1>1 DEF HaltOwed, UncatchOwed, UnmaskOwed, LockOwed, StateOwed, Operations
  <1>3. Between' /\ LockTried'
    BY <1>1 DEF Paying, Between, LockTried
  <1>4. QED BY <1>2, <1>3

LEMMA AsidePays ==
    ASSUME Paying, Aside
    PROVE  HaltOwed' /\ UncatchOwed' /\ UnmaskOwed' /\ LockOwed' /\ StateOwed' /\ Between' /\ LockTried'
  <1>1. UNCHANGED <<op, todo, ok, before, failed>>
    BY DEF Aside
  <1>2. CASE UNCHANGED <<cpu, undisturbed, cr>>
    BY <1>1, <1>2 DEF cpu, Paying, HaltOwed, UncatchOwed, UnmaskOwed, LockOwed, StateOwed, Between, LockTried
  <1>3. CASE undisturbed' = FALSE /\ masked' = FALSE /\ catching' = catching /\ cr' = Locked
    <2>1. cr'.lock
      BY <1>3 DEF Locked
    <2>2. QED BY <1>1, <1>3, <2>1 DEF Paying, HaltOwed, UncatchOwed, UnmaskOwed, LockOwed, StateOwed,
                                      Between, LockTried
  <1>4. QED BY <1>2, <1>3 DEF Aside

LEMMA PayingStep ==
    ASSUME Paying, [Next]_vars
    PROVE  Paying'
  <1>1. Typed /\ Typed'
    BY TypedStep DEF Paying
  <1>2. Begins \/ Passes \/ Gives \/ Repeats \/ Aside
    BY <1>1, Moves
  <1>3. HaltOwed' /\ UncatchOwed' /\ UnmaskOwed' /\ LockOwed' /\ StateOwed' /\ Between' /\ LockTried'
    BY <1>2, PassPays, GivePays, BeginPays, RepeatPays, AsidePays
  <1>4. QED BY <1>1, <1>3 DEF Paying

LEMMA PayingInit ==
    ASSUME Init
    PROVE  Paying
  <1>1. op = "none" /\ ok = TRUE
    BY DEF Init, CortexInit
  <1>2. Typed
    BY TypedInit
  <1>3. QED BY <1>1, <1>2 DEF Paying, HaltOwed, UncatchOwed, UnmaskOwed, LockOwed, StateOwed, Between,
                              LockTried, Operations

LEMMA NothingLeft ==
    ASSUME todo = <<>>, NEW D
    PROVE  ~Has(todo, D)
  BY DEF Has

LEMMA PaidInFull ==
    ASSUME Paying
    PROVE  OneStep /\ CleanAfter /\ LeftLocked
  <1>1. CleanAfter
    BY NothingLeft DEF CleanAfter, Ended, Paying, UncatchOwed, UnmaskOwed, HaltOwed, Operations
  <1>2. LeftLocked
    BY NothingLeft DEF LeftLocked, Ended, Paying, LockOwed, LockTried
  <1>3. OneStep
    <2>1. SUFFICES ASSUME todo = <<>>, op \in AsOneStep!Ops, undisturbed
                   PROVE  core \in CASE ~ok -> AsOneStep!Perhaps(op)
                                     [] ok /\ op \in AsOneStep!Halting -> {"halt"}
                                     [] ok /\ op \in AsOneStep!Starting -> {"run"}
                                     [] ok /\ op \in AsOneStep!Access -> {before}
      BY DEF OneStep, Ended
    <2>2. /\ core \in {"run", "halt"} /\ op \in Kinds
      BY DEF Paying, Typed
    <2>3. /\ ok /\ op \in {"halt", "step", "resetHalt", "flash"} => core = "halt"
          /\ ok /\ op \in {"run", "resetRun"} => core = "run"
      BY <2>1, NothingLeft DEF Paying, HaltOwed, StateOwed
    <2>4. /\ op = "halt" => core \in {before, "halt"}
          /\ op \in {"run", "resetRun"} => core \in {before, "run"}
          /\ op \in {"read", "write"} => core = before
      BY <2>1 DEF Paying, Between
    <2>5. op \in {"halt", "step", "resetHalt", "flash", "run", "resetRun", "read", "write"}
      BY <2>1, <2>2 DEF AsOneStep!Ops, AsOneStep!Halting, AsOneStep!Starting, AsOneStep!Access,
                        AsOneStep!Arming, Kinds, Operations
    <2>6. CASE ~ok
      <3>1. core \in AsOneStep!Perhaps(op)
        BY <2>2, <2>4, <2>5 DEF AsOneStep!Perhaps, AsOneStep!Halting, AsOneStep!Starting
      <3>2. QED BY <2>6, <3>1
    <2>7. CASE ok /\ op \in {"halt", "step", "resetHalt", "flash"}
      <3>1. op \in AsOneStep!Halting /\ op \notin AsOneStep!Starting /\ op \notin AsOneStep!Access
        BY <2>7 DEF AsOneStep!Halting, AsOneStep!Starting, AsOneStep!Access, AsOneStep!Arming
      <3>2. QED BY <2>3, <2>7, <3>1
    <2>8. CASE ok /\ op \in {"run", "resetRun"}
      <3>1. op \notin AsOneStep!Halting /\ op \in AsOneStep!Starting /\ op \notin AsOneStep!Access
        BY <2>8 DEF AsOneStep!Halting, AsOneStep!Starting, AsOneStep!Access, AsOneStep!Arming
      <3>2. QED BY <2>3, <2>8, <3>1
    <2>9. CASE ok /\ op \in {"read", "write"}
      <3>1. op \notin AsOneStep!Halting /\ op \notin AsOneStep!Starting /\ op \in AsOneStep!Access
        BY <2>9 DEF AsOneStep!Halting, AsOneStep!Starting, AsOneStep!Access, AsOneStep!Arming
      <3>2. QED BY <2>4, <2>9, <3>1
    <2>10. QED BY <2>5, <2>6, <2>7, <2>8, <2>9
  <1>4. QED BY <1>1, <1>2, <1>3

\* At every moment of an operation - also in its clean-up after a failure - what is
\* left to do, or what has been done, owes the state it promises: the halt, the
\* reset no longer caught, the interrupts unmasked, the flash locked.
THEOREM PayingAlways == Spec => []Paying
  <1>1. Paying /\ [Next]_vars => Paying'
    BY PayingStep
  <1>2. Init => Paying
    BY PayingInit
  <1>3. QED BY <1>1, <1>2, PTL DEF Spec

\* An operation of transfers ends, failing or not, where the one step that Probe
\* takes for it ends.
THEOREM OneStepAlways == Spec => []OneStep
  BY PayingAlways, PaidInFull, PTL

\* An operation that succeeds leaves no reset caught and no interrupt masked, whatever
\* the operations before have left behind.
THEOREM CleanAfterAlways == Spec => []CleanAfter
  BY PayingAlways, PaidInFull, PTL

\* Once it has been unlocked the flash is locked again, on success and on every
\* failure but that of locking it.
THEOREM LeftLockedAlways == Spec => []LeftLocked
  BY PayingAlways, PaidInFull, PTL

-----------------------------------------------------------------------------
(* Nothing changes outside the sectors that were asked for *)

\* A selected sector is one of those.
Confined(c) == c.ser /\ c.snb \in Sectors => Sector(c.snb) \subseteq allowed

Claimed ==
    op = "flash" =>
        /\ \A s \in Sectors : Overlaps(s, req.at, Len(req.img)) => Sector(s) \subseteq allowed
        /\ \A w \in req.at..(req.at + Len(req.img) - 1) : w \in allowed

\* FLASH_CR was read since it was locked last, where it matters.
Needy == Writes \cup {"key1", "key2"}
ReadBefore ==
    /\ todo # <<>> /\ Head(todo).do \in Needy => (seen.lock => cr.lock)
    /\ \A i \in DOMAIN todo \ {1} :
          /\ todo[i].do \in Writes \cup {"key1"} => todo[i - 1].do = "readCr"
          /\ todo[i].do = "key2" => todo[i - 1].do = "key1"

Erasing == busy => cr.ser /\ ~cr.lock

Keeping ==
    /\ Typed /\ ReadBefore /\ Claimed /\ Erasing
    /\ Confined(cr) /\ Confined(seen)
    /\ OthersKept

\* Sectors that an image overlaps hold some of its words, and all of them.
LEMMA Claims ==
    ASSUME NEW r, IsImage(r), InWindow(r), Flashes(r)
    PROVE  /\ allowed \subseteq allowed'
           /\ \A s \in Sectors : Overlaps(s, r.at, Len(r.img)) => Sector(s) \subseteq allowed'
           /\ \A w \in r.at..(r.at + Len(r.img) - 1) : w \in allowed'
  <1>1. allowed' = allowed \cup UNION {Sector(s) : s \in
            {s \in Sectors : \E i \in DOMAIN r.img : r.at + i - 1 \in Sector(s)}}
    BY DEF Flashes
  <1>2. r.at \in Nat /\ Len(r.img) \in Nat \ {0} /\ DOMAIN r.img = 1..Len(r.img)
    BY DEF IsImage
  <1>3. ASSUME NEW s \in Sectors, NEW w \in r.at..(r.at + Len(r.img) - 1), w \in Sector(s)
        PROVE  Sector(s) \subseteq allowed'
    <2>1. w - r.at + 1 \in DOMAIN r.img /\ r.at + (w - r.at + 1) - 1 = w
      BY <1>2
    <2>2. \E i \in DOMAIN r.img : r.at + i - 1 \in Sector(s)
      <3>1. PICK i : i = w - r.at + 1
        OBVIOUS
      <3>2. i \in DOMAIN r.img /\ r.at + i - 1 \in Sector(s)
        BY <1>3, <2>1, <3>1
      <3>3. QED BY <3>2
    <2>3. QED BY <1>1, <2>2
  <1>4. ASSUME NEW s \in Sectors, Overlaps(s, r.at, Len(r.img))
        PROVE  Sector(s) \subseteq allowed'
    <2>1. Start[s] \in Nat /\ Sizes[s + 1] \in Nat \ {0} /\ r.at < Start[s] + Sizes[s + 1]
          /\ r.at + Len(r.img) > Start[s]
      BY <1>4, Layout DEF Overlaps
    <2>2. PICK from \in Nat, size \in Nat \ {0}, at \in Nat, len \in Nat \ {0} :
             from = Start[s] /\ size = Sizes[s + 1] /\ at = r.at /\ len = Len(r.img)
      BY <1>2, <2>1
    <2>3. PICK w : w \in r.at..(r.at + Len(r.img) - 1) /\ w \in Start[s]..(Start[s] + Sizes[s + 1] - 1)
      <3>1. at < from + size /\ at + len > from
        BY <2>1, <2>2
      <3>2. CASE at >= from
        <4>1. at \in at..(at + len - 1) /\ at \in from..(from + size - 1)
          BY <3>1, <3>2
        <4>2. QED BY <2>2, <4>1
      <3>3. CASE at < from
        <4>1. from \in at..(at + len - 1) /\ from \in from..(from + size - 1)
          BY <3>1, <3>3
        <4>2. QED BY <2>2, <4>1
      <3>4. QED BY <3>2, <3>3
    <2>4. QED BY <2>3, <1>3 DEF Sector
  <1>5. ASSUME NEW w \in r.at..(r.at + Len(r.img) - 1)
        PROVE  w \in allowed'
    <2>1. r.at \in Window /\ r.at + Len(r.img) - 1 \in Window
      BY DEF InWindow
    <2>2. Total \in Nat
      BY Layout
    <2>3. w \in Window
      BY <1>2, <2>1, <2>2 DEF Window
    <2>4. PICK s \in Sectors : w \in Sector(s)
      BY <2>3, InSector
    <2>5. QED BY <2>4, <1>3
  <1>6. QED BY <1>1, <1>4, <1>5

LEMMA OnlyFlashClaims ==
    ASSUME [Next]_vars
    PROVE  \/ \E file \in Files : Flash(file)
           \/ allowed' = allowed /\ (op' # "flash" \/ (op' = op /\ req' = req))
  <1>1. ASSUME NEW o \in Operations, Operate(o) PROVE op' # "flash"
    BY <1>1 DEF Operate, Begin, Starts, Operations
  <1>2. ASSUME Attach PROVE op' # "flash"
    BY <1>2 DEF Attach, Starts
  <1>3. ASSUME CoreTransfer \/ Lost PROVE op' = op
    BY <1>3 DEF CoreTransfer, Lost, Access, WriteHalt, Mask, Step, Run, SeesHalted, WriteCatch,
                ReleaseReset, Done, GivesUp, Rest
  <1>4. CASE ((\E o \in Operations : Operate(o)) \/ Attach \/ CoreTransfer \/ Lost)
             /\ UNCHANGED <<controller, seen, req, allowed, memory>>
    BY <1>1, <1>2, <1>3, <1>4
  <1>5. CASE \E r \in Ranges, o \in {"read", "write"} : AccessesMemory(o, r)
    BY <1>5 DEF AccessesMemory, Begin, Starts
  <1>6. CASE WriteReset \/ ReadCr \/ (\E k \in {"key1", "key2"} : WriteKey(k)) \/ NoKeyNeeded
    BY <1>6 DEF WriteReset, ReadCr, WriteKey, NoKeyNeeded, Done, Rest
  <1>7. CASE Unlocked \/ ClearSr \/ Select \/ StartErase \/ WriteBits
    BY <1>7 DEF Unlocked, ClearSr, Select, StartErase, WriteBits, WriteCr, Done, Rest, GivesUp
  <1>8. CASE WaitBusy \/ ProgramBlock \/ VerifyBlock
    BY <1>8 DEF WaitBusy, ProgramBlock, VerifyBlock, Done, Unheard, Rest, GivesUp
  <1>9. CASE AccessMemory \/ CheckStatus
    BY <1>9 DEF AccessMemory, CheckStatus, Done, Unheard, Rest, GivesUp
  <1>10. CASE EraseEnds \/ BoardResets \/ UNCHANGED vars
    BY <1>10 DEF EraseEnds, BoardResets, vars, cortexVars, host
  <1>11. QED BY <1>4, <1>5, <1>6, <1>7, <1>8, <1>9, <1>10 DEF Next

LEMMA ClaimedStep ==
    ASSUME Keeping, [Next]_vars
    PROVE  Claimed' /\ allowed \subseteq allowed'
  <1>1. ASSUME NEW file \in Files, Flash(file)
        PROVE  Claimed' /\ allowed \subseteq allowed'
    <2>1. PICK r : r = [at |-> ElfToImage(file.headers).at, img |-> ElfToImage(file.headers).img,
                        headers |-> file.headers, verify |-> file.verify]
      OBVIOUS
    <2>2. IsImage(r) /\ Flashes(r)
      BY <1>1, <2>1, FileRight DEF Flash
    <2>3. InWindow(r) /\ req' = r
      BY <2>2 DEF Flashes
    <2>4. QED BY <2>2, <2>3, Claims DEF Claimed
  <1>2. CASE allowed' = allowed /\ (op' # "flash" \/ (op' = op /\ req' = req))
    BY <1>2 DEF Keeping, Claimed
  <1>3. QED BY <1>1, <1>2, OnlyFlashClaims

LEMMA NotNeedy ==
    ASSUME NEW D, NEW G, NEW q \in Seq(Made(D, G)), Needy \cap D = {}
    PROVE  \A i \in DOMAIN q : q[i].do \notin Needy
  <1>1. \A i \in DOMAIN q : q[i] \in Made(D, G)
    BY ElementAt
  <1>2. QED BY <1>1 DEF Made

LEMMA ReadBeforeStep ==
    ASSUME Typed, ReadBefore, [Next]_vars
    PROVE  ReadBefore'
  <1>0. Typed'
    BY TypedStep
  <1>1. ASSUME NEW q \in Seq(Work(op')), todo' = q, \A i \in DOMAIN q : q[i].do \notin Needy
        PROVE  ReadBefore'
    <2>1. q # <<>> => Head(q) = q[1] /\ 1 \in DOMAIN q
      BY TailAt
    <2>2. QED BY <1>1, <2>1 DEF ReadBefore, Needy
  <1>2. CASE Begins
    <2>1. PICK q : q = todo'
      OBVIOUS
    <2>2. q \in Seq(Work(op')) /\ op' \in Kinds
      BY <1>2, <2>1 DEF Begins
    <2>3. CASE op' = "flash"
      <3>1. Prompted(q)
        BY <1>2, <2>1, <2>3 DEF Begins, Parts
      <3>2. q # <<>> => Head(q) = q[1] /\ 1 \in DOMAIN q
        BY <2>2, TailAt
      <3>3. QED BY <2>1, <3>1, <3>2 DEF Prompted, ReadBefore, Needy
    <2>4. CASE op' # "flash"
      <3>1. Needy \cap DosOf(op') = {}
        BY <2>2, <2>4 DEF Needy, Writes, DosOf, Kinds, Operations
      <3>2. \A i \in DOMAIN q : q[i].do \notin Needy
        BY <2>2, <3>1, NotNeedy DEF Work
      <3>3. QED BY <1>1, <2>1, <2>2, <3>2
    <2>5. QED BY <2>3, <2>4
  <1>3. CASE Passes
    <2>1. todo # <<>> /\ todo' = Tail(todo) /\ Effect(Head(todo).do) /\ todo \in Seq(Work(op))
      BY <1>3 DEF Passes, Typed
    <2>2. PICK t : t = Tail(todo)
      OBVIOUS
    <2>3. /\ t \in Seq(Work(op)) /\ Head(todo) = todo[1]
          /\ \A i \in DOMAIN t : i \in Nat /\ i >= 1 /\ i + 1 \in DOMAIN todo /\ t[i] = todo[i + 1]
          /\ \A i \in DOMAIN t : i # 1 => i - 1 \in DOMAIN t
          /\ t # <<>> => Head(t) = t[1] /\ 1 \in DOMAIN t
      BY <2>1, <2>2, TailAt, ElementAt
    <2>4. ASSUME t # <<>>, Head(t).do \in Needy
          PROVE  seen'.lock => cr'.lock
      <3>1. Head(t) = todo[2] /\ 2 \in DOMAIN todo \ {1} /\ 2 - 1 = 1
        BY <2>3, <2>4
      <3>2. Head(todo).do = "readCr" \/ Head(todo).do = "key1"
        BY <2>3, <2>4, <3>1 DEF ReadBefore, Needy
      <3>3. QED BY <3>2, <2>1 DEF Effect
    <2>5. ASSUME NEW i \in DOMAIN t \ {1}
          PROVE  /\ t[i].do \in Writes \cup {"key1"} => t[i - 1].do = "readCr"
                 /\ t[i].do = "key2" => t[i - 1].do = "key1"
      <3>1. t[i] = todo[i + 1] /\ t[i - 1] = todo[(i - 1) + 1] /\ (i - 1) + 1 = (i + 1) - 1
            /\ i + 1 \in DOMAIN todo \ {1}
        BY <2>3
      <3>2. QED BY <3>1 DEF ReadBefore
    <2>6. QED BY <2>1, <2>2, <2>4, <2>5 DEF ReadBefore
  <1>4. CASE Gives
    <2>1. todo' \in Seq(Made(Mends, {"none"})) /\ todo' \in Seq(Work(op'))
      <3>1. ~ok'
        BY <1>4 DEF Gives
      <3>2. QED BY <3>1, <1>0 DEF Typed
    <2>2. Needy \cap Mends = {}
      BY DEF Needy, Writes, Mends
    <2>3. \A i \in DOMAIN todo' : todo'[i].do \notin Needy
      BY <2>1, <2>2, NotNeedy
    <2>4. QED BY <1>1, <2>1, <2>3
  <1>5. CASE Repeats
    <2>1. op' = "read"
      BY <1>5 DEF Repeats, Stays
    <2>2. todo' \in Seq(Work(op'))
      BY <1>0 DEF Typed
    <2>3. Needy \cap DosOf(op') = {}
      BY <2>1 DEF Needy, Writes, DosOf
    <2>4. \A i \in DOMAIN todo' : todo'[i].do \notin Needy
      BY <2>2, <2>3, NotNeedy DEF Work
    <2>5. QED BY <1>1, <2>2, <2>4
  <1>6. CASE EraseEnds \/ BoardResets \/ UNCHANGED vars
    <2>1. todo' = todo /\ seen' = seen /\ (cr' = cr \/ cr'.lock)
      BY <1>6 DEF EraseEnds, BoardResets, ResetFlash, Locked, vars, controller, cortexVars, host
    <2>2. QED BY <2>1 DEF ReadBefore
  <1>7. QED BY <1>2, <1>3, <1>4, <1>5, <1>6, ActiveMoves

\* What can be at the head, by the operation.
LEMMA FlashOnly ==
    ASSUME Typed, todo # <<>>, Head(todo).do \in Needy \cup {"program", "verify"}
    PROVE  op = "flash" /\ IsImage(req) /\ Fits(req, Head(todo)) /\ ok
  <1>1. op \in Kinds
    BY DEF Typed
  <1>2. op = "flash"
    BY <1>1, HeadDo DEF DosOf, Kinds, Operations, Needy, Writes
  <1>3. Head(todo) = todo[1] /\ 1 \in DOMAIN todo
    BY TailAt DEF Typed
  <1>4. ok
    BY HeadDo DEF Mends, Needy, Writes
  <1>5. QED BY <1>2, <1>3, <1>4 DEF Typed

LEMMA CellsChange ==
    ASSUME [Next]_vars
    PROVE  \/ cells' = cells
           \/ busy /\ cr.snb \in Sectors /\ \E v : cells' = Erased(cr.snb, v)
           \/ ProgramBlock
  <1>1. CASE WriteReset \/ BoardResets
    BY <1>1 DEF WriteReset, BoardResets, ResetFlash
  <1>2. CASE EraseEnds
    BY <1>2 DEF EraseEnds
  <1>3. CASE ReadCr \/ NoKeyNeeded \/ Unlocked \/ WaitBusy \/ VerifyBlock \/ AccessMemory \/ CheckStatus
    BY <1>3 DEF ReadCr, NoKeyNeeded, Unlocked, WaitBusy, VerifyBlock, AccessMemory, CheckStatus, controller
  <1>4. CASE (\E k \in {"key1", "key2"} : WriteKey(k)) \/ ClearSr
    BY <1>4 DEF WriteKey, ClearSr
  <1>5. CASE Select \/ StartErase \/ WriteBits
    BY <1>5 DEF Select, StartErase, WriteBits, WriteCr
  <1>6. ASSUME NEW file \in Files, Flash(file) PROVE cells' = cells
    BY <1>6 DEF Flash, Flashes, controller
  <1>7. ASSUME NEW r \in Ranges, NEW o \in {"read", "write"}, AccessesMemory(o, r)
        PROVE  cells' = cells
    BY <1>7 DEF AccessesMemory, controller
  <1>8. CASE UNCHANGED vars
    BY <1>8 DEF vars, controller
  <1>9. CASE UNCHANGED <<controller, seen, req, allowed, memory>>
    BY <1>9 DEF controller
  <1>10. QED
    BY <1>1, <1>2, <1>3, <1>4, <1>5, <1>6, <1>7, <1>8, <1>9 DEF Next

LEMMA OthersKeptStep ==
    ASSUME Keeping, [Next]_vars
    PROVE  OthersKept'
  <1>1. Words' = Words /\ allowed \subseteq allowed'
    BY ClaimedStep DEF Words
  <1>2. SUFFICES ASSUME NEW w \in Words, w \notin allowed
                 PROVE  cells'[w] = "old"
    BY <1>1 DEF OthersKept
  <1>3. cells[w] = "old"
    BY <1>2 DEF Keeping, OthersKept
  <1>4. ASSUME busy, cr.snb \in Sectors, NEW v, cells' = Erased(cr.snb, v)
        PROVE  cells'[w] = "old"
    <2>1. w \notin Sector(cr.snb)
      BY <1>2, <1>4 DEF Keeping, Erasing, Confined
    <2>2. QED BY <1>3, <1>4, <2>1 DEF Erased
  <1>5. CASE ProgramBlock
    <2>1. todo # <<>> /\ Head(todo).do = "program"
      BY <1>5 DEF ProgramBlock, At
    <2>2. PICK t : t = Head(todo)
      OBVIOUS
    <2>3. op = "flash" /\ IsImage(req) /\ Fits(req, t) /\ t.do = "program"
      BY <2>1, <2>2, FlashOnly DEF Keeping
    <2>4. /\ t.at \in Nat /\ t.n \in Nat /\ t.at >= req.at /\ t.at + t.n <= req.at + Len(req.img)
          /\ req.at \in Nat /\ Len(req.img) \in Nat
      BY <2>3 DEF Fits, IsImage
    <2>5. w \notin req.at..(req.at + Len(req.img) - 1)
      BY <1>2, <2>3 DEF Keeping, Claimed
    <2>6. PICK k \in 0..t.n :
             cells' = IF ~cr.pg THEN cells
                      ELSE [v \in Words |-> IF v \in t.at..(t.at + k - 1)
                                            THEN Programmed(cells[v], req.img[v - req.at + 1])
                                            ELSE cells[v]]
      BY <1>5, <2>2 DEF ProgramBlock
    <2>7. w \notin t.at..(t.at + k - 1)
      <3>1. w \in Int
        <4>1. Total \in Nat /\ Bank2 \in Nat
          BY Layout, FlashAssumption
        <4>2. QED BY <1>2, <4>1 DEF Words
      <3>2. PICK at \in Nat, n \in Nat, from \in Nat, len \in Nat :
               at = t.at /\ n = t.n /\ from = req.at /\ len = Len(req.img)
        BY <2>4
      <3>3. at >= from /\ at + n <= from + len /\ w \notin from..(from + len - 1)
        BY <2>4, <2>5, <3>2
      <3>4. k \in Int /\ k <= n
        BY <2>6, <3>2
      <3>5. w \notin at..(at + k - 1)
        <4>1. SUFFICES ASSUME w >= at, w <= at + k - 1 PROVE FALSE
          BY <3>1, <3>2, <3>4
        <4>2. w <= at + n - 1
          BY <3>1, <3>4, <4>1
        <4>3. w >= from /\ w <= from + len - 1
          BY <3>1, <3>3, <4>1, <4>2
        <4>4. QED BY <3>1, <3>3, <4>3
      <3>6. QED BY <3>2, <3>5
    <2>8. QED BY <1>2, <1>3, <2>6, <2>7
  <1>6. QED BY <1>3, <1>4, <1>5, CellsChange

\* The controller's registers, too, hold no other sector, and an erase keeps them.
LEMMA ConfinedStep ==
    ASSUME Keeping, [Next]_vars
    PROVE  Confined(cr)' /\ Confined(seen)' /\ Erasing'
  <1>1. allowed \subseteq allowed'
    BY ClaimedStep
  <1>2. ASSUME NEW c, Confined(c)
        PROVE  c.ser /\ c.snb \in Sectors => Sector(c.snb) \subseteq allowed'
    BY <1>1, <1>2 DEF Confined
  <1>3. Confined(cr) /\ Confined(seen) /\ Erasing /\ cr \in Registers /\ seen \in Registers /\ Typed
        /\ Confined(Locked)
    BY DEF Keeping, Typed, Confined, Locked
  <1>4. ASSUME NEW c, NEW s, cr' = c, seen' = s, Confined(c), Confined(s)
        PROVE  Confined(cr)' /\ Confined(seen)'
    BY <1>2, <1>4 DEF Confined
  <1>5. CASE UNCHANGED <<cr, seen, busy>>
    BY <1>3, <1>4, <1>5 DEF Erasing
  <1>6. CASE WriteReset \/ BoardResets
    <2>1. cr' = Locked /\ seen' = seen /\ busy' = FALSE
      BY <1>6 DEF WriteReset, BoardResets, ResetFlash
    <2>2. QED BY <1>3, <1>4, <2>1 DEF Erasing
  <1>7. CASE EraseEnds
    BY <1>3, <1>4, <1>7 DEF EraseEnds, Erasing
  <1>8. CASE ReadCr
    BY <1>3, <1>4, <1>8 DEF ReadCr, controller, Erasing
  <1>9. ASSUME NEW k \in {"key1", "key2"}, WriteKey(k)
        PROVE  Confined(cr)' /\ Confined(seen)' /\ Erasing'
    <2>1. todo # <<>> /\ Head(todo).do \in Needy /\ seen.lock
      BY <1>9 DEF WriteKey, At, Needy
    <2>2. ~busy
      BY <1>3, <2>1 DEF Keeping, ReadBefore, Erasing
    <2>3. busy' = busy /\ seen' = seen /\ cr' \in {[cr EXCEPT !.lock = FALSE], Locked}
      BY <1>9 DEF WriteKey
    <2>4. Confined([cr EXCEPT !.lock = FALSE])
      BY <1>3 DEF Confined, Registers
    <2>5. Confined(cr)' /\ Confined(seen)'
      BY <1>3, <1>4, <2>3, <2>4
    <2>6. QED BY <2>2, <2>3, <2>5 DEF Erasing
  <1>10. CASE Select
    <2>1. todo # <<>> /\ Head(todo).do = "select"
      BY <1>10 DEF Select, At
    <2>2. PICK s : s = Head(todo).at
      OBVIOUS
    <2>3. op = "flash" /\ s \in Sectors /\ Overlaps(s, req.at, Len(req.img))
      BY <1>3, <2>1, <2>2, FlashOnly DEF Needy, Writes, Fits
    <2>4. Sector(s) \subseteq allowed
      BY <2>3 DEF Keeping, Claimed
    <2>5. Confined([seen EXCEPT !.ser = TRUE, !.snb = s])
      <3>1. [seen EXCEPT !.ser = TRUE, !.snb = s].snb = s
        BY <1>3 DEF Registers
      <3>2. QED BY <2>4, <3>1 DEF Confined
    <2>6. ~busy /\ busy' = busy /\ seen' = seen
          /\ cr' \in {cr, [seen EXCEPT !.ser = TRUE, !.snb = s]}
      BY <1>10, <2>2 DEF Select, WriteCr
    <2>7. Confined(cr)' /\ Confined(seen)'
      BY <1>3, <1>4, <2>5, <2>6
    <2>8. QED BY <2>6, <2>7 DEF Erasing
  <1>11. CASE StartErase
    <2>1. todo # <<>> /\ Head(todo).do \in Needy
      BY <1>11 DEF StartErase, At, Needy, Writes
    <2>2. seen.lock => cr.lock
      BY <2>1 DEF Keeping, ReadBefore
    <2>3. seen' = seen /\ cr' = (IF cr.lock THEN cr ELSE seen) /\ busy' = (~cr.lock /\ seen.ser)
      BY <1>11 DEF StartErase, WriteCr
    <2>4. Confined(cr)' /\ Confined(seen)'
      BY <1>3, <1>4, <2>3
    <2>5. QED BY <2>2, <2>3, <2>4 DEF Erasing
  <1>12. CASE WriteBits
    <2>1. ~busy /\ busy' = busy /\ seen' = seen
          /\ cr' \in {cr, seen, [seen EXCEPT !.pg = TRUE], [seen EXCEPT !.pg = FALSE], Locked}
      BY <1>12 DEF WriteBits, WriteCr
    <2>2. Confined([seen EXCEPT !.pg = TRUE]) /\ Confined([seen EXCEPT !.pg = FALSE])
      BY <1>3 DEF Confined, Registers
    <2>3. Confined(cr)' /\ Confined(seen)'
      BY <1>3, <1>4, <2>1, <2>2
    <2>4. QED BY <2>1, <2>3 DEF Erasing
  <1>13. CASE NoKeyNeeded \/ Unlocked \/ WaitBusy \/ VerifyBlock \/ CheckStatus \/ AccessMemory
    BY <1>5, <1>13 DEF NoKeyNeeded, Unlocked, WaitBusy, VerifyBlock, CheckStatus, AccessMemory, controller
  <1>14. CASE ClearSr \/ ProgramBlock
    BY <1>5, <1>14 DEF ClearSr, ProgramBlock
  <1>15. ASSUME NEW file \in Files, Flash(file) PROVE UNCHANGED <<cr, seen, busy>>
    BY <1>15 DEF Flash, Flashes, controller
  <1>16. ASSUME NEW r \in Ranges, NEW o \in {"read", "write"}, AccessesMemory(o, r)
         PROVE  UNCHANGED <<cr, seen, busy>>
    BY <1>16 DEF AccessesMemory, controller
  <1>17. CASE UNCHANGED vars
    BY <1>5, <1>17 DEF vars, controller
  <1>18. CASE UNCHANGED <<controller, seen, req, allowed, memory>>
    BY <1>5, <1>18 DEF controller
  <1>19. QED
    BY <1>5, <1>6, <1>7, <1>8, <1>9, <1>10, <1>11, <1>12, <1>13, <1>14, <1>15, <1>16, <1>17, <1>18,
       SMTT(60) DEF Next

LEMMA KeepingInit ==
    ASSUME Init
    PROVE  Keeping
  <1>1. Typed
    BY TypedInit
  <1>2. todo = <<>> /\ op = "none" /\ cr = Locked /\ seen = Locked /\ ~busy
        /\ cells = [w \in Words |-> "old"]
    BY DEF Init, CortexInit
  <1>3. ReadBefore /\ Claimed /\ Erasing /\ Confined(cr) /\ Confined(seen)
    BY <1>2 DEF ReadBefore, Claimed, Erasing, Confined, Locked
  <1>4. OthersKept
    BY <1>2 DEF OthersKept
  <1>5. QED BY <1>1, <1>3, <1>4 DEF Keeping

\* The sector number that the controller holds, and the one that was read from it,
\* is that of a sector that was asked for, and nothing is erased but with it.
THEOREM KeepingAlways == Spec => []Keeping
  <1>1. Keeping /\ [Next]_vars => Keeping'
    <2>1. SUFFICES ASSUME Keeping, [Next]_vars PROVE Keeping'
      OBVIOUS
    <2>2. Typed /\ ReadBefore
      BY <2>1 DEF Keeping
    <2>3. Typed' /\ ReadBefore' /\ Claimed' /\ OthersKept'
      BY <2>1, <2>2, TypedStep, ReadBeforeStep, ClaimedStep, OthersKeptStep
    <2>4. Confined(cr)' /\ Confined(seen)' /\ Erasing'
      BY <2>1, ConfinedStep
    <2>5. QED BY <2>3, <2>4 DEF Keeping
  <1>2. Init => Keeping
    BY KeepingInit
  <1>3. QED BY <1>1, <1>2, PTL DEF Spec

\* Whatever fails, is tried again or is interrupted by a reset, no word outside the
\* sectors of the images asked for ever changes.
THEOREM OthersKeptAlways == Spec => []OthersKept
  <1>1. Keeping => OthersKept
    BY DEF Keeping
  <1>2. QED BY <1>1, KeepingAlways, PTL

-----------------------------------------------------------------------------
(* Memory accesses cover their range *)

Span(at, n) == [i \in 1..n |-> at + i - 1]

IsSpan(q, at, n) ==
    q \in Seq(Int) /\ Len(q) = n /\ DOMAIN q = 1..n /\ \A i \in 1..n : q[i] = at + i - 1

LEMMA SpanIs ==
    ASSUME NEW at \in Nat, NEW n \in Nat
    PROVE  IsSpan(Span(at, n), at, n)
  <1>1. Span(at, n) \in [1..n -> Int]
    BY DEF Span
  <1>2. Span(at, n) \in Seq(Int) /\ Len(Span(at, n)) = n /\ DOMAIN Span(at, n) = 1..n
    BY <1>1, AsSeq
  <1>3. QED BY <1>2 DEF IsSpan, Span

LEMMA SpanIsOne ==
    ASSUME NEW at, NEW n \in Nat, NEW a, NEW b, IsSpan(a, at, n), IsSpan(b, at, n)
    PROVE  a = b
  BY DEF IsSpan

LEMMA SpanJoin ==
    ASSUME NEW at \in Nat, NEW m \in Nat, NEW k \in Nat, NEW a, NEW b,
           IsSpan(a, at, m), IsSpan(b, at + m, k)
    PROVE  IsSpan(a \o b, at, m + k)
  <1>1. /\ a \in Seq(Int) /\ Len(a) = m /\ DOMAIN a = 1..m
        /\ b \in Seq(Int) /\ Len(b) = k /\ DOMAIN b = 1..k
    BY DEF IsSpan
  <1>2. /\ \A i \in 1..m : a[i] = at + i - 1
        /\ \A i \in 1..k : b[i] = (at + m) + i - 1
    BY DEF IsSpan
  <1>3. a \o b \in Seq(Int) /\ DOMAIN (a \o b) = 1..m + k
    <2>1. PICK S : S = Int
      OBVIOUS
    <2>2. a \in Seq(S) /\ b \in Seq(S)
      BY <1>1, <2>1
    <2>3. a \o b \in Seq(S) /\ DOMAIN (a \o b) = 1 .. Len(a) + Len(b)
      BY <2>2, JoinAt
    <2>4. QED BY <1>1, <2>1, <2>3
  <1>4. Len(a \o b) = m + k
    BY <1>1
  <1>5. ASSUME NEW i \in 1..m + k PROVE (a \o b)[i] = at + i - 1
    <2>1. CASE i \in 1..m
      <3>1. i \in DOMAIN a /\ (a \o b)[i] = a[i]
        BY <1>1, <2>1, JoinAt
      <3>2. QED BY <1>2, <2>1, <3>1
    <2>2. CASE i \notin 1..m
      <3>1. i - m \in DOMAIN b /\ (a \o b)[i] = b[i - m]
        BY <1>1, <1>3, <2>2, JoinAt
      <3>2. b[i - m] = (at + m) + (i - m) - 1
        BY <1>1, <1>2, <3>1
      <3>3. QED BY <3>1, <3>2
    <2>3. QED BY <2>1, <2>2
  <1>6. QED BY <1>3, <1>4, <1>5 DEF IsSpan

LEMMA SpanGrows ==
    ASSUME NEW at \in Nat, NEW m \in Nat, NEW k \in Nat
    PROVE  /\ Span(at, m) \in Seq(Int) /\ Len(Span(at, m)) = m
           /\ Span(at, m) \o [i \in 1..k |-> (at + m) + i - 1] = Span(at, m + k)
           /\ Span(at, 0) = <<>>
  <1>1. at + m \in Nat /\ m + k \in Nat /\ 0 \in Nat
    OBVIOUS
  <1>2. /\ IsSpan(Span(at, m), at, m) /\ IsSpan(Span(at + m, k), at + m, k)
        /\ IsSpan(Span(at, m + k), at, m + k) /\ IsSpan(Span(at, 0), at, 0)
    BY <1>1, SpanIs
  <1>3. IsSpan(Span(at, m) \o Span(at + m, k), at, m + k)
    BY <1>2, SpanJoin
  <1>4. Span(at, m) \o Span(at + m, k) = Span(at, m + k)
    BY <1>1, <1>2, <1>3, SpanIsOne
  <1>5. Span(at + m, k) = [i \in 1..k |-> (at + m) + i - 1]
    BY DEF Span
  <1>6. IsSpan(<<>>, at, 0)
    BY DEF IsSpan
  <1>7. Span(at, 0) = <<>>
    BY <1>1, <1>2, <1>6, SpanIsOne
  <1>8. Span(at, m) \in Seq(Int) /\ Len(Span(at, m)) = m
    BY <1>2 DEF IsSpan
  <1>9. QED BY <1>4, <1>5, <1>7, <1>8

LEMMA Nothing ==
    ASSUME NEW at \in Nat, NEW n \in Nat
    PROVE  Span(at, 0) = <<>> /\ Len(<<>>) = 0 /\ at + 0 = at /\ n - 0 = n /\ <<>> \in Seq(Int) /\ 0 <= n
  <1>1. 0 \in Nat
    OBVIOUS
  <1>2. Span(at, 0) = <<>>
    BY <1>1, SpanGrows
  <1>3. Len(<<>>) = 0 /\ <<>> \in Seq(Int)
    OBVIOUS
  <1>4. at + 0 = at /\ n - 0 = n /\ 0 <= n
    OBVIOUS
  <1>5. QED BY <1>2, <1>3, <1>4

LEMMA Shift ==
    ASSUME NEW at \in Nat, NEW m \in Nat, NEW n \in Nat, NEW k \in Nat, k <= n - m
    PROVE  /\ (at + m) + k = at + (m + k) /\ (n - m) - k = n - (m + k)
           /\ m + k \in Nat /\ m + k <= n /\ at + (m + k) \in Nat /\ n - (m + k) \in Nat
  OBVIOUS

\* What was read or written so far is the start of the range, and what is left to do
\* the rest; an access that the ST-Link refused was a fault, and so was what failed.
Halfway(r) ==
    LET m == Len(got)
    IN  /\ m <= r.n /\ got = Span(r.at, m)
        /\ IF todo = <<>> THEN m = r.n ELSE r.n # 0 /\ Reading(todo, r.at + m, r.n - m)

Accessing ==
    op \in {"read", "write"} =>
        /\ got \in Seq(Int)
        /\ ok => Halfway(req)
        /\ ~ok => failed.by = "fault" /\ todo = <<>>
        /\ ok /\ status # "good" => got = <<>> \/ failed.by = "fault"

Covering == Typed /\ Accessing

\* Nothing else happens during one.
LEMMA MemoryOnly ==
    ASSUME Typed, [Next]_vars, op' \in {"read", "write"}
    PROVE  \/ \E r \in Ranges, o \in {"read", "write"} : AccessesMemory(o, r)
           \/ AccessMemory \/ CheckStatus
           \/ Lost /\ UNCHANGED <<req, memory>>
           \/ UNCHANGED <<op, todo, ok, failed, req, memory>>
  <1>1. ASSUME NEW o \in Operations, Operate(o) PROVE FALSE
    BY <1>1 DEF Operate, Begin, Starts, Operations
  <1>2. ~Attach
    BY DEF Attach, Starts
  <1>3. ASSUME NEW file \in Files, Flash(file) PROVE FALSE
    BY <1>3 DEF Flash, Flashes, Begin, Starts
  <1>4. ASSUME todo # <<>>, op' = op
        PROVE  Head(todo).do \in {"mem8", "mem32", "status"}
    BY <1>4, HeadDo DEF DosOf
  <1>5. ~CoreTransfer
    <2>1. SUFFICES ASSUME CoreTransfer PROVE FALSE
      OBVIOUS
    <2>2. /\ todo # <<>> /\ op' = op
          /\ Head(todo).do \in {"access", "halt", "mask", "step", "run", "halted", "catch", "uncatch", "high"}
      BY <2>1 DEF CoreTransfer, Access, WriteHalt, Mask, Step, Run, SeesHalted, WriteCatch, ReleaseReset,
                  At, Done, GivesUp, Rest
    <2>3. QED BY <2>2, <1>4
  <1>6. ~ (WriteReset \/ ReadCr \/ (\E k \in {"key1", "key2"} : WriteKey(k)) \/ NoKeyNeeded)
    <2>1. SUFFICES ASSUME WriteReset \/ ReadCr \/ (\E k \in {"key1", "key2"} : WriteKey(k)) \/ NoKeyNeeded
                   PROVE  FALSE
      OBVIOUS
    <2>2. todo # <<>> /\ op' = op /\ Head(todo).do \in {"reset", "low", "readCr", "key1", "key2"}
      BY <2>1 DEF WriteReset, ReadCr, WriteKey, NoKeyNeeded, At, Done, Rest
    <2>3. QED BY <2>2, <1>4
  <1>7. ~ (Unlocked \/ ClearSr \/ Select \/ StartErase \/ WriteBits)
    <2>1. SUFFICES ASSUME Unlocked \/ ClearSr \/ Select \/ StartErase \/ WriteBits PROVE FALSE
      OBVIOUS
    <2>2. /\ todo # <<>> /\ op' = op
          /\ Head(todo).do \in Writes \cup {"unlocked", "clearSr", "lock"}
      BY <2>1 DEF Unlocked, ClearSr, Select, StartErase, WriteBits, WriteCr, At, Done, GivesUp, Rest, Writes
    <2>3. QED BY <2>2, <1>4 DEF Writes
  <1>8. ~ (WaitBusy \/ ProgramBlock \/ VerifyBlock)
    <2>1. SUFFICES ASSUME WaitBusy \/ ProgramBlock \/ VerifyBlock PROVE FALSE
      OBVIOUS
    <2>2. todo # <<>> /\ op' = op /\ Head(todo).do \in {"busy", "program", "verify"}
      BY <2>1 DEF WaitBusy, ProgramBlock, VerifyBlock, At, Done, Unheard, GivesUp, Rest
    <2>3. QED BY <2>2, <1>4
  <1>9. EraseEnds \/ BoardResets \/ UNCHANGED vars => UNCHANGED <<op, todo, ok, failed, req, memory>>
    BY DEF EraseEnds, BoardResets, vars, cortexVars, host, memory
  <1>10. CASE ((\E o \in Operations : Operate(o)) \/ Attach \/ CoreTransfer \/ Lost)
              /\ UNCHANGED <<controller, seen, req, allowed, memory>>
    BY <1>1, <1>2, <1>5, <1>10
  <1>11. QED BY <1>3, <1>6, <1>7, <1>8, <1>9, <1>10 DEF Next

\* A transfer that fails ends it.
LEMMA AccessFails ==
    ASSUME Typed, op \in {"read", "write"}, todo # <<>>, Fails
    PROVE  ok' = FALSE /\ failed'.by = "fault" /\ todo' = <<>>
  <1>1. Head(todo).guard = "none"
    BY HeadDo DEF GuardsOf
  <1>2. QED BY <1>1 DEF Fails, Throws, Failure, Cleanup

LEMMA AccessingStep ==
    ASSUME Covering, [Next]_vars
    PROVE  Accessing'
  <1>1. SUFFICES ASSUME op' \in {"read", "write"} PROVE Accessing'
    BY DEF Accessing
  <1>2. Typed /\ Accessing
    BY DEF Covering
  <1>3. ASSUME NEW r \in Ranges, NEW o \in {"read", "write"}, AccessesMemory(o, r)
        PROVE  Accessing'
    <2>1. /\ ok' = TRUE /\ todo' = AccessScript(r) /\ req' = r /\ got' = <<>>
      BY <1>3 DEF AccessesMemory, Begin, Starts
    <2>2. /\ r.at \in Nat /\ r.n \in Nat
          /\ (r.n = 0 => AccessScript(r) = <<>>)
          /\ (r.n # 0 => Reading(AccessScript(r), r.at, r.n) /\ AccessScript(r) # <<>>)
      BY AccessBegins, ReadingTail
    <2>3. Span(r.at, 0) = <<>> /\ Len(<<>>) = 0 /\ r.at + 0 = r.at /\ r.n - 0 = r.n /\ <<>> \in Seq(Int)
          /\ 0 <= r.n
      BY <2>2, Nothing
    <2>4. Halfway(req)'
      BY <2>1, <2>2, <2>3 DEF Halfway
    <2>5. QED BY <2>1, <2>3, <2>4 DEF Accessing
  <1>4. CASE UNCHANGED <<op, todo, ok, failed, req, memory>>
    BY <1>2, <1>4 DEF Accessing, Halfway, memory
  <1>5. CASE Lost /\ UNCHANGED <<req, memory>>
    <2>1. op' = op /\ todo # <<>> /\ Fails
      BY <1>5 DEF Lost, Rest
    <2>2. ok' = FALSE /\ failed'.by = "fault" /\ todo' = <<>>
      BY <1>1, <1>2, <2>1, AccessFails
    <2>3. got' = got
      BY <1>5 DEF memory
    <2>4. QED BY <1>1, <1>2, <2>1, <2>2, <2>3 DEF Accessing
  <1>6. ASSUME AccessMemory \/ CheckStatus
        PROVE  /\ op' = op /\ todo # <<>> /\ ok /\ req' = req
               /\ req.at \in Nat /\ req.n \in Nat \ {0} /\ Len(got) \in Nat /\ Len(got) <= req.n
               /\ got = Span(req.at, Len(got)) /\ got \in Seq(Int)
               /\ Reading(todo, req.at + Len(got), req.n - Len(got))
               /\ req.at + Len(got) \in Nat /\ req.n - Len(got) \in Nat
    <2>1. op' = op /\ todo # <<>> /\ req' = req
      BY <1>6 DEF AccessMemory, CheckStatus, At, Done, Unheard, GivesUp, Rest
    <2>2. ok /\ got \in Seq(Int) /\ Halfway(req) /\ req \in Ranges
      BY <1>1, <1>2, <2>1 DEF Accessing, Typed
    <2>3. req.at \in Nat /\ req.n \in Nat
      BY <2>2, AccessBegins
    <2>4. QED BY <2>1, <2>2, <2>3 DEF Halfway
  <1>7. CASE AccessMemory
    <2>1. PICK h : h = Head(todo)
      OBVIOUS
    <2>2. PICK m : m = Len(got)
      OBVIOUS
    <2>3. /\ op' = op /\ todo # <<>> /\ ok /\ req' = req
          /\ req.at \in Nat /\ req.n \in Nat \ {0} /\ m \in Nat /\ m <= req.n
          /\ got = Span(req.at, m) /\ got \in Seq(Int)
          /\ Reading(todo, req.at + m, req.n - m) /\ req.at + m \in Nat /\ req.n - m \in Nat
      BY <1>6, <1>7, <2>2
    <2>4. h.do # "status"
      BY <1>7, <2>1 DEF AccessMemory, At
    <2>5. /\ h.at = req.at + m /\ h.n \in Nat \ {0} /\ h.n <= req.n - m /\ ~Unaligned(h)
          /\ Reading(Tail(todo), (req.at + m) + h.n, (req.n - m) - h.n)
      BY <2>1, <2>3, <2>4, ReadingTail
    <2>6. /\ (req.at + m) + h.n = req.at + (m + h.n) /\ (req.n - m) - h.n = req.n - (m + h.n)
          /\ m + h.n \in Nat /\ m + h.n <= req.n /\ req.at + (m + h.n) \in Nat /\ req.n - (m + h.n) \in Nat
      <3>1. h.n \in Nat
        BY <2>5
      <3>2. QED BY <3>1, <2>3, <2>5, Shift
    <2>7. got' = Span(req.at, m + h.n) /\ Len(got') = m + h.n /\ got' \in Seq(Int)
      <3>1. got' = got \o [i \in 1..h.n |-> h.at + i - 1]
        BY <1>7, <2>1, <2>5 DEF AccessMemory
      <3>2. got' = Span(req.at, m) \o [i \in 1..h.n |-> (req.at + m) + i - 1]
        BY <3>1, <2>3, <2>5
      <3>3. h.n \in Nat /\ req.at \in Nat /\ m \in Nat
        BY <2>3, <2>5
      <3>4. got' = Span(req.at, m + h.n)
        BY <3>2, <3>3, SpanGrows
      <3>5. Span(req.at, m + h.n) \in Seq(Int) /\ Len(Span(req.at, m + h.n)) = m + h.n
        BY <3>3, <2>6, SpanGrows
      <3>6. QED BY <3>4, <3>5
    <2>8. CASE todo' = Tail(todo) /\ ok'
      <3>1. Reading(todo', req.at + (m + h.n), req.n - (m + h.n)) /\ todo' # <<>>
        BY <2>5, <2>6, <2>8, ReadingTail
      <3>2. Halfway(req)'
        BY <3>1, <2>3, <2>6, <2>7 DEF Halfway
      <3>3. status' = "good" \/ failed'.by = "fault"
        BY <1>7, <2>1, <2>5 DEF AccessMemory, Unheard, Failure
      <3>4. QED BY <2>7, <2>8, <3>2, <3>3 DEF Accessing
    <2>9. CASE Fails
      <3>1. ok' = FALSE /\ failed'.by = "fault" /\ todo' = <<>>
        BY <1>1, <1>2, <2>3, <2>9, AccessFails
      <3>2. QED BY <2>7, <3>1 DEF Accessing
    <2>10. (todo' = Tail(todo) /\ ok') \/ Fails
      BY <1>7, <2>1, <2>3, <2>5 DEF AccessMemory, Done, Unheard, Goes
    <2>11. QED BY <2>8, <2>9, <2>10
  <1>8. CASE CheckStatus
    <2>1. PICK m : m = Len(got)
      OBVIOUS
    <2>2. /\ op' = op /\ todo # <<>> /\ ok /\ req' = req
          /\ req.at \in Nat /\ req.n \in Nat \ {0} /\ m \in Nat /\ m <= req.n
          /\ got = Span(req.at, m) /\ got \in Seq(Int)
          /\ Reading(todo, req.at + m, req.n - m) /\ req.at + m \in Nat /\ req.n - m \in Nat
      BY <1>6, <1>8, <2>1
    <2>3. Head(todo).do = "status"
      BY <1>8 DEF CheckStatus, At
    <2>4. req.n - m = 0 /\ Tail(todo) = <<>>
      BY <2>2, <2>3, ReadingTail
    <2>5. m = req.n /\ got # <<>>
      BY <2>1, <2>2, <2>4
    <2>6. CASE status = "good" /\ Done /\ UNCHANGED <<cpu, memory>>
      <3>1. got' = got /\ status' = status
        BY <2>6 DEF memory
      <3>2. CASE Goes
        <4>1. todo' = <<>> /\ ok' /\ Len(got') = m
          BY <3>2, <3>1, <2>1, <2>2, <2>4 DEF Goes
        <4>2. Halfway(req)'
          BY <4>1, <3>1, <2>2, <2>5 DEF Halfway
        <4>3. QED BY <4>1, <4>2, <3>1, <2>2, <2>6 DEF Accessing
      <3>3. CASE Fails
        <4>1. ok' = FALSE /\ failed'.by = "fault" /\ todo' = <<>>
          BY <1>1, <1>2, <2>2, <3>3, AccessFails
        <4>2. QED BY <4>1, <3>1, <2>2 DEF Accessing
      <3>4. QED BY <2>6, <3>2, <3>3 DEF Done
    <2>7. CASE status = "bad" /\ GivesUp /\ UNCHANGED memory
      <3>1. failed.by = "fault"
        BY <1>1, <1>2, <2>2, <2>5, <2>7 DEF Accessing
      <3>2. Head(todo).guard = "none"
        BY <1>1, <1>2, <2>2, HeadDo DEF GuardsOf
      <3>3. ok' = FALSE /\ failed'.by = "fault" /\ todo' = <<>> /\ got' = got
        BY <3>1, <3>2, <2>7 DEF GivesUp, Throws, Failure, Cleanup, memory
      <3>4. QED BY <3>3, <2>2 DEF Accessing
    <2>8. CASE got' = <<>> /\ todo' = AccessScript(req) /\ UNCHANGED ok
      <3>1. req \in Ranges
        BY <1>1, <1>2, <2>2 DEF Typed
      <3>2. Reading(AccessScript(req), req.at, req.n) /\ AccessScript(req) # <<>>
        BY <3>1, <2>2, AccessBegins, ReadingTail
      <3>3. Span(req.at, 0) = <<>> /\ Len(<<>>) = 0 /\ req.at + 0 = req.at /\ req.n - 0 = req.n
            /\ <<>> \in Seq(Int) /\ 0 <= req.n
        BY <2>2, Nothing
      <3>4. Halfway(req)'
        BY <2>2, <2>8, <3>2, <3>3 DEF Halfway
      <3>5. QED BY <3>3, <3>4, <2>2, <2>8 DEF Accessing
    <2>9. QED BY <1>8, <2>6, <2>7, <2>8 DEF CheckStatus
  <1>9. QED BY <1>1, <1>2, <1>3, <1>4, <1>5, <1>7, <1>8, MemoryOnly

\* While memory is accessed, what was accessed and what is left make up the range.
THEOREM CoveringAlways == Spec => []Covering
  <1>1. Covering /\ [Next]_vars => Covering'
    BY TypedStep, AccessingStep DEF Covering
  <1>2. Init => Covering
    <2>1. SUFFICES ASSUME Init PROVE Covering
      OBVIOUS
    <2>2. op = "none"
      BY <2>1 DEF Init, CortexInit
    <2>3. QED BY <2>1, <2>2, TypedInit DEF Covering, Accessing
  <1>3. QED BY <1>1, <1>2, PTL DEF Spec

\* A read or a write that reports success has covered its range, byte by byte and in
\* order, and one in which nothing goes wrong succeeds.
THEOREM RangeCoveredAlways == Spec => []RangeCovered
  <1>1. Covering => RangeCovered
    <2>1. SUFFICES ASSUME Covering, todo = <<>>, op \in {"read", "write"}
                   PROVE  (Alone => ok) /\ (ok => got = [i \in 1..req.n |-> req.at + i - 1])
      BY DEF RangeCovered, Ended
    <2>2. QED BY <2>1 DEF Covering, Accessing, Alone, Halfway, Span
  <1>2. QED BY <1>1, CoveringAlways, PTL

-----------------------------------------------------------------------------
(* The order of a flash operation's script *)

\* Its transfers come in this order; those of phase 0 occur anywhere.
Phase(d) ==
    CASE d \in {"key1", "key2", "unlocked", "clearSr"} -> 1
      [] d \in {"select", "start"} -> 2
      [] d \in {"psize", "pg"} -> 3
      [] d = "program" -> 4
      [] d = "unpg" -> 5
      [] d = "verify" -> 6
      [] d = "lock" -> 7
      [] d \in {"catch", "reset"} -> 8
      [] OTHER -> 0

Sorted(q) ==
    \A i, j \in DOMAIN q : i < j /\ Phase(q[j].do) # 0 => Phase(q[i].do) <= Phase(q[j].do)

\* What some of them follow immediately, and what follows some immediately.
Led == Writes \cup {"key1", "key2", "unlocked", "halted", "reset", "busy"}
Before(d) ==
    CASE d = "key2" -> {"key1"}
      [] d = "unlocked" -> {"key2"}
      [] d = "halted" -> {"halt", "reset"}
      [] d = "reset" -> {"catch"}
      [] d = "busy" -> {"start", "program"}
      [] OTHER -> {"readCr"}

Leads(q, i, d) == i + 1 \in DOMAIN q /\ q[i + 1].do = d
After(q, i) ==
    /\ q[i].do = "key1" => Leads(q, i, "key2")
    /\ q[i].do = "key2" => Leads(q, i, "unlocked")
    /\ q[i].do = "select" => Leads(q, i, "readCr") /\ Leads(q, i + 1, "start")
    /\ q[i].do = "start" => Leads(q, i, "busy")

Chained(q) ==
    \A i \in DOMAIN q :
        /\ q[i].do \in Led => i # 1 /\ q[i - 1].do \in Before(q[i].do)
        /\ After(q, i)

Piece(q, l, h) ==
    /\ q \in Seq(Work("flash")) /\ Chained(q) /\ Sorted(q)
    /\ \A i \in DOMAIN q : Phase(q[i].do) # 0 => l <= Phase(q[i].do) /\ Phase(q[i].do) <= h

LEMMA PhaseNat ==
    ASSUME NEW d
    PROVE  Phase(d) \in Nat
  BY DEF Phase

LEMMA ChainedJoin ==
    ASSUME NEW S, NEW a \in Seq(S), NEW b \in Seq(S), Chained(a), Chained(b)
    PROVE  Chained(a \o b)
  <1> DEFINE q == a \o b
  <1>1. SUFFICES ASSUME NEW i \in DOMAIN q
                 PROVE  /\ q[i].do \in Led => i # 1 /\ q[i - 1].do \in Before(q[i].do)
                        /\ After(q, i)
    BY DEF Chained
  <1>2. i \in Nat /\ Len(a) \in Nat /\ DOMAIN a = 1..Len(a) /\ DOMAIN b = 1..Len(b) /\ Len(b) \in Nat
        /\ i >= 1
    BY JoinAt
  <1>3. CASE i \in DOMAIN a
    <2>1. q[i] = a[i] /\ (i # 1 => i - 1 \in DOMAIN a)
      BY <1>2, <1>3, JoinAt
    <2>2. i # 1 => q[i - 1] = a[i - 1]
      BY <2>1, JoinAt
    <2>3. q[i].do \in Led => i # 1 /\ q[i - 1].do \in Before(q[i].do)
      BY <1>3, <2>1, <2>2 DEF Chained
    <2>4. \A j, d : j \in Nat /\ Leads(a, j, d) => Leads(q, j, d)
      <3>1. \A j \in DOMAIN a : j \in DOMAIN q /\ q[j] = a[j]
        BY JoinAt
      <3>2. QED BY <3>1 DEF Leads
    <2>5. After(a, i)
      BY <1>3 DEF Chained
    <2>6. After(q, i)
      BY <2>1, <2>4, <2>5, <1>2 DEF After
    <2>7. QED BY <2>3, <2>6
  <1>4. CASE i \notin DOMAIN a
    <2>1. PICK k : k = i - Len(a)
      OBVIOUS
    <2>2. k \in DOMAIN b /\ q[i] = b[k] /\ k \in Nat
      BY <1>2, <1>4, <2>1, JoinAt
    <2>3. k # 1 => k - 1 \in DOMAIN b /\ i # 1
      BY <1>2, <2>1, <2>2
    <2>4. k # 1 => q[Len(a) + (k - 1)] = b[k - 1]
      BY <2>3, JoinAt
    <2>5. Len(a) + (k - 1) = i - 1
      BY <1>2, <2>1, <2>2
    <2>6. k # 1 => q[i - 1] = b[k - 1]
      BY <2>4, <2>5
    <2>7. q[i].do \in Led => i # 1 /\ q[i - 1].do \in Before(q[i].do)
      BY <2>2, <2>3, <2>6 DEF Chained
    <2>8. \A j, d : j \in Nat /\ Leads(b, j, d) => Leads(q, Len(a) + j, d)
      <3>1. \A j \in DOMAIN b : Len(a) + j \in DOMAIN q /\ q[Len(a) + j] = b[j]
        BY JoinAt
      <3>2. ASSUME NEW j, NEW d, j \in Nat, Leads(b, j, d) PROVE Leads(q, Len(a) + j, d)
        <4>1. Len(a) + (j + 1) = (Len(a) + j) + 1
          BY <1>2, <3>2
        <4>2. j + 1 \in DOMAIN b /\ b[j + 1].do = d
          BY <3>2 DEF Leads
        <4>3. Len(a) + (j + 1) \in DOMAIN q /\ q[Len(a) + (j + 1)] = b[j + 1]
          BY <4>2, <3>1
        <4>4. QED BY <4>1, <4>2, <4>3 DEF Leads
      <3>3. QED BY <3>2
    <2>9. After(b, k)
      BY <2>2 DEF Chained
    <2>10. Len(a) + k = i /\ Len(a) + (k + 1) = i + 1 /\ k + 1 \in Nat
      BY <1>2, <2>1, <2>2
    <2>11. \A d : (Leads(b, k, d) => Leads(q, i, d)) /\ (Leads(b, k + 1, d) => Leads(q, i + 1, d))
      BY <2>2, <2>8, <2>10
    <2>12. After(q, i)
      BY <2>2, <2>9, <2>11 DEF After
    <2>13. QED BY <2>7, <2>12
  <1>5. QED BY <1>3, <1>4

LEMMA PieceJoin ==
    ASSUME NEW l \in Nat, NEW m \in Nat, NEW n \in Nat, NEW h \in Nat, l <= n, m <= n, m <= h,
           NEW a, NEW b, Piece(a, l, m), Piece(b, n, h)
    PROVE  Piece(a \o b, l, h)
  <1> DEFINE q == a \o b
  <1>1. PICK S : S = Work("flash")
    OBVIOUS
  <1>2. a \in Seq(S) /\ b \in Seq(S) /\ Chained(a) /\ Chained(b) /\ Sorted(a) /\ Sorted(b)
        /\ (\A i \in DOMAIN a : Phase(a[i].do) # 0 => l <= Phase(a[i].do) /\ Phase(a[i].do) <= m)
        /\ (\A i \in DOMAIN b : Phase(b[i].do) # 0 => n <= Phase(b[i].do) /\ Phase(b[i].do) <= h)
    BY <1>1 DEF Piece
  <1>3. q \in Seq(S) /\ Chained(q)
    BY <1>2, JoinAt, ChainedJoin
  <1>4. \A d : Phase(d) \in Nat
    BY PhaseNat
  <1>5. ASSUME NEW i \in DOMAIN q, Phase(q[i].do) # 0
        PROVE  l <= Phase(q[i].do) /\ Phase(q[i].do) <= h
    <2>1. PICK p \in Nat : p = Phase(q[i].do)
      BY <1>4
    <2>2. CASE i \in DOMAIN a
      <3>1. q[i] = a[i]
        BY <1>2, <2>2, JoinAt
      <3>2. QED BY <1>2, <1>5, <2>1, <2>2, <3>1
    <2>3. CASE i \notin DOMAIN a
      <3>1. i - Len(a) \in DOMAIN b /\ q[i] = b[i - Len(a)]
        BY <1>2, <2>3, JoinAt
      <3>2. QED BY <1>2, <1>5, <2>1, <3>1
    <2>4. QED BY <2>2, <2>3
  <1>6. ASSUME NEW i \in DOMAIN q, NEW j \in DOMAIN q, i < j, Phase(q[j].do) # 0
        PROVE  Phase(q[i].do) <= Phase(q[j].do)
    <2>1. Len(a) \in Nat /\ DOMAIN a = 1..Len(a) /\ i \in Nat /\ j \in Nat /\ i >= 1 /\ j >= 1
      BY <1>2, JoinAt
    <2>2. CASE j \in DOMAIN a
      <3>1. i \in DOMAIN a
        BY <2>1, <2>2, <1>6
      <3>2. q[i] = a[i] /\ q[j] = a[j]
        BY <1>2, <2>2, <3>1, JoinAt
      <3>3. QED BY <1>2, <1>6, <2>2, <3>1, <3>2 DEF Sorted
    <2>3. CASE i \notin DOMAIN a
      <3>1. j \notin DOMAIN a
        BY <2>1, <2>3, <1>6
      <3>2. i - Len(a) \in DOMAIN b /\ q[i] = b[i - Len(a)]
            /\ j - Len(a) \in DOMAIN b /\ q[j] = b[j - Len(a)]
        <4>1. \A k \in DOMAIN q \ DOMAIN a : k - Len(a) \in DOMAIN b /\ q[k] = b[k - Len(a)]
          BY <1>2, JoinAt
        <4>2. QED BY <2>3, <3>1, <4>1
      <3>3. i - Len(a) < j - Len(a)
        BY <2>1, <1>6
      <3>4. QED BY <1>2, <1>6, <3>2, <3>3 DEF Sorted
    <2>4. CASE i \in DOMAIN a /\ j \notin DOMAIN a
      <3>1. q[i] = a[i] /\ j - Len(a) \in DOMAIN b /\ q[j] = b[j - Len(a)]
        BY <1>2, <2>4, JoinAt
      <3>2. n <= Phase(q[j].do)
        BY <1>2, <1>6, <3>1
      <3>3. Phase(q[i].do) = 0 \/ Phase(q[i].do) <= m
        BY <1>2, <2>4, <3>1
      <3>4. PICK p \in Nat : p = Phase(q[i].do)
        BY <1>4
      <3>5. PICK p2 \in Nat : p2 = Phase(q[j].do)
        BY <1>4
      <3>6. QED BY <3>2, <3>3, <3>4, <3>5
    <2>5. QED BY <2>2, <2>3, <2>4
  <1>7. QED BY <1>1, <1>3, <1>5, <1>6 DEF Piece, Sorted

\* One phase only.
LEMMA OnePhase ==
    ASSUME NEW q \in Seq(Work("flash")), NEW p \in Nat, Chained(q),
           \A i \in DOMAIN q : Phase(q[i].do) \in {0, p}
    PROVE  Piece(q, p, p)
  <1>1. \A i, j \in DOMAIN q : Phase(q[j].do) # 0 => Phase(q[i].do) <= Phase(q[j].do)
    BY PhaseNat
  <1>2. QED BY <1>1 DEF Piece, Sorted

LEMMA NoPiece ==
    ASSUME NEW l, NEW h
    PROVE  Piece(<<>>, l, h)
  BY DEF Piece, Chained, Sorted

\* The `finally` does not matter for that.
LEMMA PieceUnder ==
    ASSUME NEW u \in Seq(Work("flash")), NEW q, NEW l, NEW h, Piece(q, l, h), Same(u, q)
    PROVE  Piece(u, l, h)
  <1>1. DOMAIN u = DOMAIN q /\ \A i \in DOMAIN q : u[i].do = q[i].do
    BY DEF Same
  <1>2. \A i, d : Leads(q, i, d) => Leads(u, i, d)
    BY <1>1 DEF Leads
  <1>3. \A i \in DOMAIN q : After(u, i)
    BY <1>1, <1>2 DEF After, Piece, Chained
  <1>4. q \in Seq(Work("flash")) /\ \A i \in DOMAIN q : i # 1 => i - 1 \in DOMAIN q
    BY DEF Piece
  <1>5. Chained(u)
    BY <1>1, <1>3, <1>4 DEF Piece, Chained
  <1>6. Sorted(u)
    BY <1>1 DEF Piece, Sorted
  <1>7. QED BY <1>1, <1>5, <1>6 DEF Piece

LEMMA InWork ==
    ASSUME NEW D, D \subseteq DosOf("flash"), NEW q \in Seq(Made(D, {"none"}))
    PROVE  q \in Seq(Work("flash"))
  <1>1. {"none"} \subseteq GuardsOf("flash")
    BY DEF GuardsOf
  <1>2. QED BY <1>1, MadeGrows DEF Work

LEMMA UnlockPiece == Piece(Unlock, 1, 1)
  <1>1. PICK a : a = HaltCore
    OBVIOUS
  <1>2. PICK b : b = <<X("readCr"), X("key1"), X("key2"), X("unlocked"), X("clearSr")>>
    OBVIOUS
  <1>3. a \in Seq(Work("flash")) /\ DOMAIN a = 1..2 /\ a[1].do = "halt" /\ a[2].do = "halted"
    <2>1. {"halt", "halted"} \subseteq DosOf("flash")
      BY DEF DosOf
    <2>2. a \in Seq(Made({"halt", "halted"}, {"none"})) /\ DOMAIN a = 1..2
          /\ a[1].do = "halt" /\ a[2].do = "halted"
      BY <1>1, Two DEF HaltCore
    <2>3. QED BY <2>1, <2>2, InWork
  <1>4. b \in Seq(Work("flash")) /\ DOMAIN b = 1..5
        /\ b[1].do = "readCr" /\ b[2].do = "key1" /\ b[3].do = "key2" /\ b[4].do = "unlocked"
        /\ b[5].do = "clearSr"
    <2>1. {"readCr", "key1", "key2", "unlocked", "clearSr"} \subseteq DosOf("flash")
      BY DEF DosOf
    <2>2. PICK D : D = {"readCr", "key1", "key2", "unlocked", "clearSr"}
      OBVIOUS
    <2>3. {"readCr", "key1", "key2", "unlocked", "clearSr"} \subseteq D /\ D \subseteq DosOf("flash")
      BY <2>1, <2>2
    <2>4. b \in Seq(Made(D, {"none"})) /\ DOMAIN b = 1..5
          /\ b[1].do = "readCr" /\ b[2].do = "key1" /\ b[3].do = "key2" /\ b[4].do = "unlocked"
          /\ b[5].do = "clearSr"
      BY <1>2, <2>3, Five
    <2>5. b \in Seq(Work("flash"))
      BY <2>3, <2>4, InWork
    <2>6. QED BY <2>4, <2>5
  <1>5. Piece(a, 1, 1)
    <2>1. Chained(a)
      BY <1>3 DEF Chained, Led, Writes, Before, After
    <2>2. \A i \in DOMAIN a : Phase(a[i].do) \in {0, 1}
      BY <1>3 DEF Phase
    <2>3. QED BY <1>3, <2>1, <2>2, OnePhase
  <1>6. Piece(b, 1, 1)
    <2>1. Leads(b, 2, "key2") /\ Leads(b, 3, "unlocked")
      BY <1>4 DEF Leads
    <2>2. Chained(b)
      BY <1>4, <2>1 DEF Chained, Led, Writes, Before, After
    <2>3. \A i \in DOMAIN b : Phase(b[i].do) \in {0, 1}
      BY <1>4 DEF Phase
    <2>4. QED BY <1>4, <2>2, <2>3, OnePhase
  <1>7. Piece(a \o b, 1, 1)
    BY <1>5, <1>6, PieceJoin
  <1>8. QED BY <1>1, <1>2, <1>7 DEF Unlock

LEMMA EraseSectorPiece ==
    ASSUME NEW s \in Sectors
    PROVE  /\ Piece(EraseSector(s), 2, 2) /\ 2 \in DOMAIN EraseSector(s)
           /\ EraseSector(s)[2].do = "select" /\ EraseSector(s)[2].at = s
           /\ ~Has(EraseSector(s), {"program"})
  <1>1. PICK q : q = EraseSector(s)
    OBVIOUS
  <1>2. s \in Int /\ 1 \in Int
    BY Layout DEF Sectors
  <1>3. On("select", s, 1) = [do |-> "select", at |-> s, n |-> 1, guard |-> "none"]
    BY <1>2, OnAt, Zenon
  <1>4. PICK t : t = On("select", s, 1)
    OBVIOUS
  <1>5. t \in Work("flash") /\ t.do = "select" /\ t.at = s
    BY <1>2, <1>3, <1>4 DEF Work, Made, DosOf, GuardsOf
  <1>6. X("readCr") \in Work("flash") /\ X("start") \in Work("flash") /\ X("busy") \in Work("flash")
        /\ X("readCr").do = "readCr" /\ X("start").do = "start" /\ X("busy").do = "busy"
    <2>1. \A d \in {"readCr", "start", "busy"} : X(d) \in Made({"readCr", "start", "busy"}, {"none"}) /\ X(d).do = d
      BY Plain
    <2>2. Made({"readCr", "start", "busy"}, {"none"}) \subseteq Work("flash")
      BY DEF Made, Work, DosOf, GuardsOf
    <2>3. QED BY <2>1, <2>2
  <1>7. q = <<X("readCr"), t, X("readCr"), X("start"), X("busy")>>
    BY <1>1, <1>4 DEF EraseSector
  <1>8. q \in Seq(Work("flash")) /\ DOMAIN q = 1..5 /\ q[1].do = "readCr" /\ q[2] = t
        /\ q[3].do = "readCr" /\ q[4].do = "start" /\ q[5].do = "busy"
    BY <1>5, <1>6, <1>7
  <1>9. Leads(q, 2, "readCr") /\ Leads(q, 2 + 1, "start") /\ Leads(q, 4, "busy")
    BY <1>8 DEF Leads
  <1>10. Chained(q)
    BY <1>5, <1>8, <1>9 DEF Chained, Led, Writes, Before, After
  <1>11. \A i \in DOMAIN q : Phase(q[i].do) \in {0, 2}
    BY <1>5, <1>8 DEF Phase
  <1>12. ~Has(q, {"program"})
    BY <1>5, <1>8 DEF Has
  <1>13. QED BY <1>1, <1>5, <1>8, <1>10, <1>11, <1>12, OnePhase

LEMMA InitWritePiece == Piece(InitWrite, 3, 3) /\ Has(InitWrite, {"pg"})
  <1>1. PICK q : q = InitWrite
    OBVIOUS
  <1>2. q \in Seq(Made({"readCr", "psize", "pg"}, {"none"})) /\ DOMAIN q = 1..4
        /\ q[1].do = "readCr" /\ q[2].do = "psize" /\ q[3].do = "readCr" /\ q[4].do = "pg"
    BY <1>1, Four DEF InitWrite
  <1>3. {"readCr", "psize", "pg"} \subseteq DosOf("flash")
    BY DEF DosOf
  <1>4. q \in Seq(Work("flash"))
    BY <1>2, <1>3, InWork
  <1>5. Chained(q)
    BY <1>2 DEF Chained, Led, Writes, Before, After
  <1>6. \A i \in DOMAIN q : Phase(q[i].do) \in {0, 3}
    BY <1>2 DEF Phase
  <1>7. Has(q, {"pg"})
    BY <1>2 DEF Has
  <1>8. QED BY <1>1, <1>4, <1>5, <1>6, <1>7, OnePhase

LEMMA UnpgPiece == Piece(<<X("readCr"), X("unpg")>>, 5, 5)
  <1>1. PICK q : q = <<X("readCr"), X("unpg")>>
    OBVIOUS
  <1>2. q \in Seq(Made({"readCr", "unpg"}, {"none"})) /\ DOMAIN q = 1..2
        /\ q[1].do = "readCr" /\ q[2].do = "unpg"
    BY <1>1, Two
  <1>3. {"readCr", "unpg"} \subseteq DosOf("flash")
    BY DEF DosOf
  <1>4. q \in Seq(Work("flash"))
    BY <1>2, <1>3, InWork
  <1>5. Chained(q)
    BY <1>2 DEF Chained, Led, Writes, Before, After
  <1>6. \A i \in DOMAIN q : Phase(q[i].do) \in {0, 5}
    BY <1>2 DEF Phase
  <1>7. QED BY <1>1, <1>4, <1>5, <1>6, OnePhase

LEMMA ResetHaltPiece == Piece(ResetHalt, 8, 8)
  <1>1. PICK a : a = <<X("halt"), X("access"), X("catch"), X("reset")>>
    OBVIOUS
  <1>2. PICK c : c = Uncatch
    OBVIOUS
  <1>3. PICK u : u = Under("catch", <<X("halted")>>)
    OBVIOUS
  <1>4. PICK y : y = <<X("access")>>
    OBVIOUS
  <1>5. ResetHalt = ((a \o u) \o c) \o y
    BY <1>1, <1>2, <1>3, <1>4 DEF ResetHalt
  <1>6. a \in Seq(Work("flash")) /\ DOMAIN a = 1..4 /\ a[1].do = "halt" /\ a[2].do = "access"
        /\ a[3].do = "catch" /\ a[4].do = "reset"
    <2>1. {"halt", "access", "catch", "reset"} \subseteq DosOf("flash")
      BY DEF DosOf
    <2>2. a \in Seq(Made({"halt", "access", "catch", "reset"}, {"none"}))
          /\ DOMAIN a = 1..4 /\ a[1].do = "halt" /\ a[2].do = "access"
          /\ a[3].do = "catch" /\ a[4].do = "reset"
      BY <1>1, Four
    <2>3. QED BY <2>1, <2>2, InWork
  <1>7. u \in Seq(Work("flash")) /\ DOMAIN u = {1} /\ u[1].do = "halted"
    <2>1. PICK v : v = <<X("halted")>>
      OBVIOUS
    <2>2. v \in Seq(Made({"halted"}, {"none"})) /\ DOMAIN v = {1} /\ v[1].do = "halted"
      BY <2>1, OneTransfer
    <2>3. u \in Seq(Made({"halted"}, {"catch"})) /\ Same(u, v)
      BY <1>3, <2>1, <2>2, UnderAt
    <2>4. {"halted"} \subseteq DosOf("flash") /\ {"catch"} \subseteq GuardsOf("flash")
      BY DEF DosOf, GuardsOf
    <2>5. u \in Seq(Work("flash"))
      BY <2>3, <2>4, MadeGrows DEF Work
    <2>6. QED BY <2>2, <2>3, <2>5 DEF Same
  <1>8. Piece(a \o u, 8, 8)
    <2>1. PICK q : q = a \o u
      OBVIOUS
    <2>2. q \in Seq(Work("flash")) /\ DOMAIN q = 1..5
          /\ (\A i \in 1..4 : q[i] = a[i]) /\ q[5] = u[1]
      <3>1. Len(a) = 4 /\ Len(u) = 1
        BY <1>6, <1>7
      <3>2. q \in Seq(Work("flash")) /\ DOMAIN q = 1 .. Len(a) + Len(u)
            /\ (\A i \in DOMAIN a : q[i] = a[i]) /\ \A i \in DOMAIN u : q[Len(a) + i] = u[i]
        BY <1>6, <1>7, <2>1, JoinAt
      <3>3. QED BY <3>1, <3>2, <1>6, <1>7
    <2>3. q[1].do = "halt" /\ q[2].do = "access" /\ q[3].do = "catch" /\ q[4].do = "reset"
          /\ q[5].do = "halted"
      BY <1>6, <1>7, <2>2
    <2>4. Chained(q)
      BY <2>2, <2>3 DEF Chained, Led, Writes, Before, After
    <2>5. \A i \in DOMAIN q : Phase(q[i].do) \in {0, 8}
      BY <2>2, <2>3 DEF Phase
    <2>6. QED BY <2>1, <2>2, <2>4, <2>5, OnePhase
  <1>9. Piece(c, 8, 8)
    <2>1. c \in Seq(Made({"access", "uncatch"}, {"none"})) /\ DOMAIN c = 1..2
          /\ c[1].do = "access" /\ c[2].do = "uncatch"
      BY <1>2, Two DEF Uncatch
    <2>2. {"access", "uncatch"} \subseteq DosOf("flash")
      BY DEF DosOf
    <2>3. c \in Seq(Work("flash"))
      BY <2>1, <2>2, InWork
    <2>4. Chained(c)
      BY <2>1 DEF Chained, Led, Writes, Before, After
    <2>5. \A i \in DOMAIN c : Phase(c[i].do) \in {0, 8}
      BY <2>1 DEF Phase
    <2>6. QED BY <2>3, <2>4, <2>5, OnePhase
  <1>10. Piece(y, 8, 8)
    <2>1. y \in Seq(Made({"access"}, {"none"})) /\ DOMAIN y = {1} /\ y[1].do = "access"
      BY <1>4, OneTransfer
    <2>2. {"access"} \subseteq DosOf("flash")
      BY DEF DosOf
    <2>3. y \in Seq(Work("flash"))
      BY <2>1, <2>2, InWork
    <2>4. Chained(y)
      BY <2>1 DEF Chained, Led, Writes, Before, After
    <2>5. \A i \in DOMAIN y : Phase(y[i].do) \in {0, 8}
      BY <2>1 DEF Phase
    <2>6. QED BY <2>3, <2>4, <2>5, OnePhase
  <1>11. Piece((a \o u) \o c, 8, 8)
    BY <1>8, <1>9, PieceJoin
  <1>12. Piece(((a \o u) \o c) \o y, 8, 8)
    BY <1>10, <1>11, PieceJoin
  <1>13. QED BY <1>5, <1>12

\* What holds of nothing, and from part to part, holds of all that is flattened.
LEMMA FlattenedBy ==
    ASSUME NEW T, NEW n \in Nat, NEW seqs \in [1..n -> Seq(T)], NEW M, <<>> \in M[0],
           \A k \in 1..n : \A a \in M[k - 1] : a \o seqs[k] \in M[k]
    PROVE  FlattenSeq(seqs) \in M[n]
  <1>1. Len(seqs) = n
    OBVIOUS
  <1>2. CASE n = 0
    <2>1. seqs = <<>>
      BY <1>2
    <2>2. QED BY <1>1, <1>2, <2>1 DEF FlattenSeq
  <1>3. CASE n # 0
    <2> DEFINE F == CHOOSE f : f = [i \in 1..n |-> IF i = 1 THEN seqs[i] ELSE f[i - 1] \o seqs[i]]
    <2>1. FlattenSeq(seqs) = F[n]
      BY <1>1, <1>3 DEF FlattenSeq
    <2>2. Joins(F, n, seqs)
      BY JoinsExists DEF Joins
    <2> HIDE DEF F
    <2> DEFINE N == {m \in Nat : m \in 1..n /\ F[m] \notin M[m]}
    <2>3. N = {}
      <3>1. SUFFICES ASSUME N # {} PROVE FALSE
        OBVIOUS
      <3>2. PICK m \in N : \A k \in N : m <= k
        BY <3>1, Smallest
      <3>3. m \in 1..n /\ F[m] \notin M[m] /\ F[m] = IF m = 1 THEN seqs[m] ELSE F[m - 1] \o seqs[m]
        BY <3>2, <2>2 DEF Joins
      <3>4. CASE m = 1
        <4>1. 1 \in 1..n /\ 1 - 1 = 0
          BY <3>3, <3>4
        <4>2. <<>> \o seqs[1] \in M[1]
          BY <4>1
        <4>3. PICK s : s = seqs[1]
          OBVIOUS
        <4>4. s \in Seq(T)
          BY <4>1, <4>3
        <4>5. <<>> \o s = s
          BY <4>4
        <4>6. QED BY <3>3, <3>4, <4>2, <4>3, <4>5
      <3>5. CASE m # 1
        <4>1. m - 1 \in 1..n /\ m - 1 \notin N
          <5>1. m - 1 \in Nat /\ m - 1 \in 1..n /\ ~(m <= m - 1)
            BY <3>3, <3>5
          <5>2. QED BY <3>2, <5>1
        <4>2. F[m - 1] \in M[m - 1]
          BY <4>1
        <4>3. QED BY <3>3, <3>5, <4>2
      <3>6. QED BY <3>4, <3>5
    <2>4. QED BY <2>1, <2>3, <1>3
  <1>4. QED BY <1>2, <1>3

Selected(q, s) == \E i \in DOMAIN q : q[i].do = "select" /\ q[i].at = s
Covered(q, d, w) == \E i \in DOMAIN q : q[i].do = d /\ w \in q[i].at..(q[i].at + q[i].n - 1)
Apart(q) ==
    \A i, j \in DOMAIN q :
        i < j /\ q[i].do = "program" /\ q[j].do = "program" => q[i].at + q[i].n <= q[j].at

LEMMA FoundInJoin ==
    ASSUME NEW S, NEW a \in Seq(S), NEW b \in Seq(S)
    PROVE  /\ \A s : Selected(a, s) \/ Selected(b, s) => Selected(a \o b, s)
           /\ \A d, w : Covered(a, d, w) \/ Covered(b, d, w) => Covered(a \o b, d, w)
           /\ \A D : Has(a \o b, D) <=> Has(a, D) \/ Has(b, D)
  <1> DEFINE q == a \o b
  <1>1. /\ \A i \in DOMAIN a : i \in DOMAIN q /\ q[i] = a[i]
        /\ \A i \in DOMAIN b : Len(a) + i \in DOMAIN q /\ q[Len(a) + i] = b[i]
        /\ \A i \in DOMAIN q : i \notin DOMAIN a => i - Len(a) \in DOMAIN b /\ q[i] = b[i - Len(a)]
    BY JoinAt
  <1> HIDE DEF q
  <1>2. \A s : Selected(a, s) \/ Selected(b, s) => Selected(q, s)
    BY <1>1 DEF Selected
  <1>3. \A d, w : Covered(a, d, w) \/ Covered(b, d, w) => Covered(q, d, w)
    BY <1>1 DEF Covered
  <1>4. \A D : Has(q, D) <=> Has(a, D) \/ Has(b, D)
    BY <1>1 DEF Has
  <1>5. QED BY <1>2, <1>3, <1>4 DEF q

LEMMA ApartJoin ==
    ASSUME NEW S, NEW a \in Seq(S), NEW b \in Seq(S), Apart(a), Apart(b),
           ~Has(a, {"program"}) \/ ~Has(b, {"program"})
    PROVE  Apart(a \o b)
  <1> DEFINE q == a \o b
  <1>1. SUFFICES ASSUME NEW i \in DOMAIN q, NEW j \in DOMAIN q, i < j,
                        q[i].do = "program", q[j].do = "program"
                 PROVE  q[i].at + q[i].n <= q[j].at
    BY DEF Apart
  <1>2. Len(a) \in Nat /\ DOMAIN a = 1..Len(a) /\ i \in Nat /\ j \in Nat /\ i >= 1 /\ j >= 1
    BY JoinAt
  <1>3. CASE j \in DOMAIN a
    <2>1. i \in DOMAIN a
      BY <1>1, <1>2, <1>3
    <2>2. q[i] = a[i] /\ q[j] = a[j]
      BY <1>3, <2>1, JoinAt
    <2>3. QED BY <1>1, <1>3, <2>1, <2>2 DEF Apart
  <1>4. CASE i \notin DOMAIN a
    <2>1. j \notin DOMAIN a
      BY <1>1, <1>2, <1>4
    <2>2. i - Len(a) \in DOMAIN b /\ q[i] = b[i - Len(a)]
          /\ j - Len(a) \in DOMAIN b /\ q[j] = b[j - Len(a)]
      BY <1>4, <2>1, JoinAt
    <2>3. i - Len(a) < j - Len(a)
      BY <1>1, <1>2
    <2>4. QED BY <1>1, <2>2, <2>3 DEF Apart
  <1>5. CASE i \in DOMAIN a /\ j \notin DOMAIN a
    <2>1. q[i] = a[i] /\ j - Len(a) \in DOMAIN b /\ q[j] = b[j - Len(a)]
      BY <1>5, JoinAt
    <2>2. Has(a, {"program"}) /\ Has(b, {"program"})
      BY <1>1, <1>5, <2>1 DEF Has
    <2>3. QED BY <2>2
  <1>6. QED BY <1>3, <1>4, <1>5

LEMMA NoProgramApart ==
    ASSUME NEW q, ~Has(q, {"program"})
    PROVE  Apart(q)
  BY DEF Has, Apart

\* Every sector that the image overlaps is erased.
LEMMA ErasePiece ==
    ASSUME NEW r
    PROVE  /\ Piece(Erase(r), 2, 2) /\ ~Has(Erase(r), {"program"})
           /\ \A s \in Sectors : Overlaps(s, r.at, Len(r.img)) => Selected(Erase(r), s)
  <1> DEFINE parts == [s \in 1..Len(Sizes) |->
                 IF Overlaps(s - 1, r.at, Len(r.img)) THEN EraseSector(s - 1) ELSE <<>>]
             Good(k, q) == /\ Piece(q, 2, 2) /\ ~Has(q, {"program"})
                           /\ \A s \in Sectors : s < k /\ Overlaps(s, r.at, Len(r.img)) => Selected(q, s)
             T == Work("flash")
  <1>1. PICK n : n = Len(Sizes)
    OBVIOUS
  <1>2. n \in Nat /\ Sectors = 0..(n - 1)
    BY <1>1, Layout DEF Sectors
  <1> DEFINE M == [k \in 0..n |-> {q \in Seq(T) : Good(k, q)}]
  <1>3. \A s \in 1..n : s - 1 \in Sectors
    BY <1>2
  <1>4. ASSUME NEW s \in 1..n
        PROVE  /\ parts[s] \in Seq(T) /\ Piece(parts[s], 2, 2) /\ ~Has(parts[s], {"program"})
               /\ Overlaps(s - 1, r.at, Len(r.img)) => Selected(parts[s], s - 1)
    <2>1. CASE Overlaps(s - 1, r.at, Len(r.img))
      <3>1. parts[s] = EraseSector(s - 1)
        BY <1>1, <2>1
      <3>2. PICK e : e = EraseSector(s - 1)
        OBVIOUS
      <3>3. Piece(e, 2, 2) /\ 2 \in DOMAIN e /\ e[2].do = "select" /\ e[2].at = s - 1
            /\ ~Has(e, {"program"})
        BY <1>3, <3>2, EraseSectorPiece
      <3>4. Selected(e, s - 1) /\ e \in Seq(T)
        BY <3>3 DEF Selected, Piece
      <3>5. QED BY <3>1, <3>2, <3>3, <3>4
    <2>2. CASE ~Overlaps(s - 1, r.at, Len(r.img))
      <3>1. parts[s] = <<>>
        BY <1>1, <2>2
      <3>2. <<>> \in Seq(T) /\ ~Has(<<>>, {"program"}) /\ Piece(<<>>, 2, 2)
        BY NoPiece DEF Has
      <3>3. QED BY <2>2, <3>1, <3>2
    <2>3. QED BY <2>1, <2>2
  <1>5. parts \in [1..n -> Seq(T)]
    BY <1>1, <1>4
  <1> HIDE DEF parts
  <1>6. <<>> \in M[0]
    <2>1. <<>> \in Seq(T) /\ ~Has(<<>>, {"program"}) /\ Piece(<<>>, 2, 2)
      BY NoPiece DEF Has
    <2>2. \A s \in Sectors : ~(s < 0)
      BY <1>2
    <2>3. 0 \in 0..n
      BY <1>2
    <2>4. QED BY <2>1, <2>2, <2>3
  <1>7. ASSUME NEW k \in 1..n, NEW a \in M[k - 1] PROVE a \o parts[k] \in M[k]
    <2>1. k - 1 \in 0..n /\ k \in 0..n /\ k - 1 \in Sectors
      BY <1>2
    <2>2. a \in Seq(T) /\ Good(k - 1, a)
      BY <2>1
    <2>3. PICK b : b = parts[k]
      OBVIOUS
    <2>4. /\ b \in Seq(T) /\ Piece(b, 2, 2) /\ ~Has(b, {"program"})
          /\ Overlaps(k - 1, r.at, Len(r.img)) => Selected(b, k - 1)
      BY <1>4, <2>3
    <2>5. a \o b \in Seq(T) /\ Piece(a \o b, 2, 2)
      <3>1. Piece(a, 2, 2)
        BY <2>2
      <3>2. Piece(a \o b, 2, 2)
        BY <3>1, <2>4, PieceJoin
      <3>3. QED BY <3>2 DEF Piece
    <2>6. ~Has(a \o b, {"program"})
      BY <2>2, <2>4, FoundInJoin
    <2>7. ASSUME NEW s \in Sectors, s < k, Overlaps(s, r.at, Len(r.img)) PROVE Selected(a \o b, s)
      <3>1. s < k - 1 \/ s = k - 1
        BY <1>2, <2>7
      <3>2. Selected(a, s) \/ Selected(b, s)
        BY <3>1, <2>2, <2>4, <2>7
      <3>3. QED BY <3>2, <2>2, <2>4, FoundInJoin
    <2>8. QED BY <2>1, <2>3, <2>5, <2>6, <2>7
  <1> HIDE DEF M
  <1>8. FlattenSeq(parts) \in M[n]
    BY <1>2, <1>5, <1>6, <1>7, FlattenedBy
  <1>9. Good(n, FlattenSeq(parts))
    <2>1. n \in 0..n
      BY <1>2
    <2>2. QED BY <1>8, <2>1 DEF M
  <1>10. FlattenSeq(parts) = Erase(r)
    BY DEF parts, Erase
  <1>11. \A s \in Sectors : s < n
    BY <1>2
  <1>12. QED BY <1>9, <1>10, <1>11

LEMMA TilesCover ==
    ASSUME NEW b, NEW d, NEW at \in Nat, NEW n \in Nat \ {0}, NEW max, Tiles(b, d, at, n, max),
           NEW w \in at..(at + n - 1)
    PROVE  Covered(b, d, w)
  <1>1. /\ DOMAIN b = 1..Len(b) /\ Len(b) \in Nat /\ Len(b) # 0
        /\ b[1].at = at /\ b[Len(b)].at + b[Len(b)].n = at + n
        /\ \A i \in 1..Len(b) - 1 : b[i].at + b[i].n = b[i + 1].at
        /\ \A i \in 1..Len(b) : b[i].do = d /\ b[i].at \in Nat /\ b[i].n \in Nat \ {0}
    <2>1. b # <<>> /\ b \in Seq(Made({d}, {"none"}))
      BY DEF Tiles
    <2>2. Len(b) # 0
      BY <2>1
    <2>3. QED BY <2>1, <2>2 DEF Tiles
  <1> DEFINE N == {i \in Nat : i \in 1..Len(b) /\ w < b[i].at + b[i].n}
  <1>2. Len(b) \in N
    BY <1>1
  <1>3. PICK i \in N : \A k \in N : i <= k
    BY <1>2, Smallest
  <1>4. i \in 1..Len(b) /\ w < b[i].at + b[i].n /\ w \in Nat
    BY <1>3
  <1>5. b[i].at <= w
    <2>1. CASE i = 1
      BY <1>1, <2>1
    <2>2. CASE i # 1
      <3>1. i - 1 \in 1..Len(b) - 1 /\ i - 1 \in 1..Len(b) /\ i - 1 \notin N /\ (i - 1) + 1 = i
        BY <1>1, <1>3, <1>4, <2>2
      <3>2. ~(w < b[i - 1].at + b[i - 1].n)
        BY <3>1
      <3>3. b[i - 1].at + b[i - 1].n = b[i].at
        BY <1>1, <3>1
      <3>4. b[i].at \in Nat
        BY <1>1, <1>4
      <3>5. QED BY <1>4, <3>2, <3>3, <3>4
    <2>3. QED BY <2>1, <2>2
  <1>6. w \in b[i].at..(b[i].at + b[i].n - 1)
    BY <1>1, <1>4, <1>5
  <1>7. QED BY <1>1, <1>4, <1>6 DEF Covered

LEMMA VerifyPiece ==
    ASSUME NEW r, IsImage(r)
    PROVE  /\ Piece(Verify(r), 6, 6) /\ ~Has(Verify(r), {"program"})
           /\ r.verify => \A w \in r.at..(r.at + Len(r.img) - 1) : Covered(Verify(r), "verify", w)
  <1>1. r.at \in Nat /\ Len(r.img) \in Nat \ {0} /\ Block \in Nat \ {0}
    BY BlockRight DEF IsImage
  <1>2. PICK b : b = Blocks("verify", r.at, Len(r.img), Block)
    OBVIOUS
  <1>3. Tiles(b, "verify", r.at, Len(r.img), Block)
    BY <1>1, <1>2, BlocksAt
  <1>4. b \in Seq(Work("flash")) /\ \A i \in DOMAIN b : b[i].do = "verify"
    <2>1. {"verify"} \subseteq DosOf("flash")
      BY DEF DosOf
    <2>2. b \in Seq(Made({"verify"}, {"none"}))
      BY <1>3 DEF Tiles
    <2>3. QED BY <2>1, <2>2, <1>3, InWork DEF Tiles
  <1>5. Piece(b, 6, 6)
    <2>1. Chained(b)
      BY <1>4 DEF Chained, Led, Writes, Before, After
    <2>2. \A i \in DOMAIN b : Phase(b[i].do) \in {0, 6}
      BY <1>4 DEF Phase
    <2>3. QED BY <1>4, <2>1, <2>2, OnePhase
  <1>6. ~Has(b, {"program"})
    BY <1>4 DEF Has
  <1>7. \A w \in r.at..(r.at + Len(r.img) - 1) : Covered(b, "verify", w)
    BY <1>1, <1>3, TilesCover
  <1>8. CASE r.verify
    BY <1>2, <1>5, <1>6, <1>7, <1>8 DEF Verify
  <1>9. CASE ~r.verify
    <2>1. Verify(r) = <<>> /\ ~Has(<<>>, {"program"})
      BY <1>9 DEF Verify, Has
    <2>2. QED BY <1>9, <2>1, NoPiece
  <1>10. QED BY <1>8, <1>9

LEMMA ProgramPair ==
    ASSUME NEW c \in Seq(Work("flash")), DOMAIN c = 1..2, c[1].do = "program", c[2].do = "busy"
    PROVE  Piece(c, 4, 4)
  <1>1. \A i \in DOMAIN c : i = 1 \/ (i = 2 /\ i - 1 = 1)
    OBVIOUS
  <1>2. "program" \notin Led /\ "program" \in Before("busy")
    BY DEF Led, Writes, Before
  <1>3. \A i \in DOMAIN c : After(c, i)
    BY <1>1 DEF After
  <1>4. Chained(c)
    BY <1>1, <1>2, <1>3 DEF Chained
  <1>5. Phase("program") = 4 /\ Phase("busy") = 0
    BY DEF Phase
  <1>6. \A i \in DOMAIN c : Phase(c[i].do) \in {0, 4}
    BY <1>1, <1>5
  <1>7. QED BY <1>4, <1>6, OnePhase

\* Every word that is not 0xff is programmed, and none twice.
LEMMA ProgramPiece ==
    ASSUME NEW r, IsImage(r)
    PROVE  /\ Piece(Program(r), 4, 5) /\ Apart(Program(r))
           /\ \A w \in r.at..(r.at + Len(r.img) - 1) :
                  r.img[w - r.at + 1] = "ff" \/ Covered(Program(r), "program", w)
  <1>1. PICK at \in Nat : at = r.at
    BY DEF IsImage
  <1>2. PICK len \in Nat \ {0} : len = Len(r.img)
    BY DEF IsImage
  <1>3. PICK b : b = Blocks("program", r.at, Len(r.img), Block)
    OBVIOUS
  <1>4. PICK n : n = Len(b)
    OBVIOUS
  <1>5. Tiles(b, "program", at, len, Block)
    BY <1>1, <1>2, <1>3, BlocksAt, BlockRight
  <1>6. /\ b \in Seq(Made({"program"}, {"none"})) /\ DOMAIN b = 1..n /\ n \in Nat \ {0}
        /\ b[1].at = at /\ b[n].at + b[n].n = at + len
        /\ \A i \in 1..n - 1 : b[i].at + b[i].n = b[i + 1].at
        /\ \A i \in 1..n : b[i].do = "program" /\ b[i].at \in Nat /\ b[i].n \in Nat \ {0} /\ b[i].at >= at
    <2>1. b # <<>> /\ b \in Seq(Made({"program"}, {"none"}))
      BY <1>5 DEF Tiles
    <2>2. Len(b) # 0
      BY <2>1
    <2>3. QED BY <1>4, <1>5, <2>1, <2>2 DEF Tiles
  <1> DEFINE T == Work("flash")
             parts == [i \in DOMAIN b |-> IF Empty(Cut(r, b[i])) THEN <<>> ELSE <<b[i], X("busy")>>]
             End(k) == IF k = 0 THEN at ELSE b[k].at + b[k].n
             Good(k, q) == /\ Piece(q, 4, 4) /\ Apart(q)
                           /\ \A i \in DOMAIN q : q[i].do = "program" => q[i].at + q[i].n <= End(k)
                           /\ \A w \in at..(End(k) - 1) :
                                 r.img[w - at + 1] = "ff" \/ Covered(q, "program", w)
             M == [k \in 0..n |-> {q \in Seq(T) : Good(k, q)}]
  <1>7. ASSUME NEW i \in 1..n
        PROVE  /\ b[i].at = End(i - 1) /\ End(i) = b[i].at + b[i].n /\ End(i) \in Nat /\ End(i - 1) \in Nat
               /\ b[i] \in T
    <2>1. b[i].at = End(i - 1)
      <3>1. CASE i = 1
        BY <1>6, <3>1
      <3>2. CASE i # 1
        <4>1. i - 1 \in 1..n - 1 /\ i - 1 # 0 /\ (i - 1) + 1 = i
          BY <1>6, <3>2
        <4>2. QED BY <1>6, <4>1
      <3>3. QED BY <3>1, <3>2
    <2>2. b[i].at \in Nat /\ b[i].n \in Nat /\ End(i) = b[i].at + b[i].n
      BY <1>6
    <2>3. b[i] \in T
      <3>1. b[i] \in Made({"program"}, {"none"})
        BY <1>6, ElementAt
      <3>2. QED BY <3>1 DEF Made, Work, DosOf, GuardsOf
    <2>4. QED BY <2>1, <2>2, <2>3, <1>6
  <1>8. X("busy") \in T /\ X("busy").do = "busy"
    <2>1. X("busy") \in Made({"busy"}, {"none"}) /\ X("busy").do = "busy"
      BY Plain
    <2>2. QED BY <2>1 DEF Made, Work, DosOf, GuardsOf
  <1>9. ASSUME NEW k \in 1..n
        PROVE  \/ /\ parts[k] = <<>>
                  /\ \A w \in End(k - 1)..(End(k) - 1) : r.img[w - at + 1] = "ff"
               \/ parts[k] = <<b[k], X("busy")>>
    <2>1. CASE Empty(Cut(r, b[k]))
      <3>1. parts[k] = <<>>
        BY <1>6, <2>1
      <3>2. PICK t : t = b[k]
        OBVIOUS
      <3>3. t.at \in Nat /\ t.n \in Nat /\ t.at >= at /\ t.at = End(k - 1) /\ End(k) = t.at + t.n
        BY <1>6, <1>7, <3>2
      <3>4. \A i \in 1..t.n : r.img[t.at - at + i] = "ff"
        BY <1>1, <2>1, <3>2 DEF Empty, Cut
      <3>5. ASSUME NEW w \in t.at..(t.at + t.n - 1) PROVE r.img[w - at + 1] = "ff"
        <4>1. w - t.at + 1 \in 1..t.n /\ t.at - at + (w - t.at + 1) = w - at + 1
          BY <3>3
        <4>2. QED BY <3>4, <4>1
      <3>6. QED BY <3>1, <3>3, <3>5
    <2>2. CASE ~Empty(Cut(r, b[k]))
      BY <1>6, <2>2
    <2>3. QED BY <2>1, <2>2
  <1>10. parts \in [1..n -> Seq(T)]
    BY <1>6, <1>7, <1>8
  <1> HIDE DEF parts
  <1>11. <<>> \in M[0]
    <2>1. Piece(<<>>, 4, 4) /\ Apart(<<>>) /\ <<>> \in Seq(T)
      BY NoPiece DEF Apart
    <2>2. 0 \in 0..n /\ \A w \in at..(at - 1) : FALSE
      BY <1>6
    <2>3. QED BY <2>1, <2>2
  <1>12. ASSUME NEW k \in 1..n, NEW a \in M[k - 1] PROVE a \o parts[k] \in M[k]
    <2>1. k - 1 \in 0..n /\ k \in 0..n
      BY <1>6
    <2>2. a \in Seq(T) /\ Good(k - 1, a)
      BY <2>1
    <2>3. PICK e \in Nat : e = End(k - 1)
      BY <1>7
    <2>4. PICK f \in Nat : f = End(k)
      BY <1>7
    <2>5. PICK t : t = b[k]
      OBVIOUS
    <2>6. t.at = e /\ t.n \in Nat \ {0} /\ f = e + t.n /\ t.do = "program" /\ t \in T /\ e >= at
      BY <1>6, <1>7, <2>3, <2>4, <2>5
    <2>7. /\ Piece(a, 4, 4) /\ Apart(a)
          /\ \A i \in DOMAIN a : a[i].do = "program" => a[i].at + a[i].n <= e
          /\ \A w \in at..(e - 1) : r.img[w - at + 1] = "ff" \/ Covered(a, "program", w)
      BY <2>2, <2>3
    <2>8. ASSUME NEW q \in Seq(T), Piece(q, 4, 4), Apart(q),
                 \A i \in DOMAIN q : q[i].do = "program" => q[i].at + q[i].n <= f,
                 \A w \in at..(f - 1) : r.img[w - at + 1] = "ff" \/ Covered(q, "program", w)
          PROVE  q \in M[k]
      BY <2>1, <2>4, <2>8
    <2>9. CASE parts[k] = <<>> /\ \A w \in End(k - 1)..(End(k) - 1) : r.img[w - at + 1] = "ff"
      <3>1. a \o parts[k] = a
        BY <2>2, <2>9
      <3>2. \A i \in DOMAIN a : a[i].do = "program" => a[i].at + a[i].n <= f
        <4>1. ASSUME NEW i \in DOMAIN a, a[i].do = "program" PROVE a[i].at + a[i].n <= f
          <5>1. a[i] \in T
            BY <2>2, ElementAt
          <5>2. a[i].at \in Int /\ a[i].n \in Int
            BY <5>1 DEF Work, Made
          <5>3. QED BY <2>6, <2>7, <4>1, <5>2
        <4>2. QED BY <4>1
      <3>3. ASSUME NEW w \in at..(f - 1) PROVE r.img[w - at + 1] = "ff" \/ Covered(a, "program", w)
        <4>1. w \in at..(e - 1) \/ w \in e..(f - 1)
          BY <2>6
        <4>2. QED BY <4>1, <2>3, <2>4, <2>7, <2>9
      <3>4. a \in M[k]
        BY <2>2, <2>7, <2>8, <3>2, <3>3
      <3>5. QED BY <3>1, <3>4
    <2>10. CASE parts[k] = <<b[k], X("busy")>>
      <3>1. PICK c : c = <<t, X("busy")>>
        OBVIOUS
      <3>2. c \in Seq(T) /\ DOMAIN c = 1..2 /\ c[1] = t /\ c[2].do = "busy" /\ Len(c) = 2
        BY <1>8, <2>6, <3>1
      <3>3. Piece(c, 4, 4)
        <4>1. c \in Seq(Work("flash")) /\ DOMAIN c = 1..2 /\ c[1].do = "program" /\ c[2].do = "busy"
          BY <2>6, <3>2
        <4>2. QED BY <4>1, ProgramPair
      <3>4. PICK q : q = a \o c
        OBVIOUS
      <3>5. q \in Seq(T) /\ Piece(q, 4, 4)
        <4>1. Piece(q, 4, 4)
          BY <2>7, <3>3, <3>4, PieceJoin
        <4>2. QED BY <4>1 DEF Piece
      <3>6. /\ Len(a) \in Nat /\ DOMAIN a = 1..Len(a) /\ DOMAIN q = 1..Len(a) + 2
            /\ \A i \in DOMAIN a : q[i] = a[i]
            /\ q[Len(a) + 1] = t /\ q[Len(a) + 2].do = "busy"
        <4>1. PICK S : S = T
          OBVIOUS
        <4> HIDE DEF T
        <4>0. /\ DOMAIN q = 1 .. Len(a) + Len(c) /\ DOMAIN a = 1..Len(a) /\ Len(a) \in Nat
              /\ \A i \in DOMAIN a : q[i] = a[i]
              /\ \A i \in DOMAIN c : q[Len(a) + i] = c[i]
          <5>1. a \in Seq(S) /\ c \in Seq(S)
            BY <2>2, <3>2, <4>1
          <5>2. QED BY <5>1, <3>4, JoinAt
        <4>2. 1 \in DOMAIN c /\ 2 \in DOMAIN c
          BY <3>2
        <4>3. q[Len(a) + 1] = c[1] /\ q[Len(a) + 2] = c[2]
          BY <4>0, <4>2
        <4>4. QED BY <4>0, <4>3, <3>2
      <3>7. ASSUME NEW i \in DOMAIN q, q[i].do = "program"
            PROVE  \/ i \in DOMAIN a /\ q[i] = a[i] /\ q[i].at + q[i].n <= e
                   \/ i = Len(a) + 1 /\ q[i] = t
        <4>1. i \in DOMAIN a \/ i = Len(a) + 1 \/ i = Len(a) + 2
          BY <3>6
        <4>2. QED BY <4>1, <3>6, <3>7, <2>7
      <3>8. Apart(q)
        <4>1. SUFFICES ASSUME NEW i \in DOMAIN q, NEW j \in DOMAIN q, i < j,
                              q[i].do = "program", q[j].do = "program"
                       PROVE  q[i].at + q[i].n <= q[j].at
          BY DEF Apart
        <4>2. i \in Nat /\ j \in Nat
          BY <3>6
        <4>3. CASE j \in DOMAIN a
          <5>1. i \in DOMAIN a
            BY <3>6, <4>1, <4>2, <4>3
          <5>2. q[i] = a[i] /\ q[j] = a[j]
            BY <3>6, <4>3, <5>1
          <5>3. QED BY <4>1, <4>3, <5>1, <5>2, <2>7 DEF Apart
        <4>4. CASE j = Len(a) + 1
          <5>1. q[j].at = e
            BY <2>6, <3>6, <4>4
          <5>2. q[i].at + q[i].n <= e
            BY <3>6, <3>7, <4>1, <4>2, <4>4
          <5>3. QED BY <5>1, <5>2
        <4>5. QED BY <3>7, <4>1, <4>3, <4>4
      <3>9. ASSUME NEW i \in DOMAIN q, q[i].do = "program" PROVE q[i].at + q[i].n <= f
        <4>1. q[i] \in T
          BY <3>5, ElementAt
        <4>2. q[i].at \in Int /\ q[i].n \in Int
          BY <4>1 DEF Work, Made
        <4>3. q[i].at + q[i].n <= e \/ q[i] = t
          BY <3>7, <3>9
        <4>4. QED BY <4>2, <4>3, <2>6
      <3>10. ASSUME NEW w \in at..(f - 1)
             PROVE  r.img[w - at + 1] = "ff" \/ Covered(q, "program", w)
        <4>1. CASE w \in at..(e - 1)
          BY <4>1, <2>2, <2>7, <3>2, <3>4, FoundInJoin
        <4>2. CASE w \notin at..(e - 1)
          <5>1. w \in t.at..(t.at + t.n - 1)
            BY <2>6, <4>2
          <5>2. Len(a) + 1 \in DOMAIN q
            BY <3>6
          <5>3. QED BY <5>1, <5>2, <2>6, <3>6 DEF Covered
        <4>3. QED BY <4>1, <4>2
      <3>11. q \in M[k]
        BY <2>8, <3>5, <3>8, <3>9, <3>10
      <3>12. QED BY <2>5, <2>10, <3>1, <3>4, <3>11
    <2>11. QED BY <1>9, <2>9, <2>10
  <1> HIDE DEF M
  <1>13. FlattenSeq(parts) \in M[n]
    BY <1>6, <1>10, <1>11, <1>12, FlattenedBy
  <1>14. PICK p : p = FlattenSeq(parts)
    OBVIOUS
  <1>15. p \in Seq(T) /\ Good(n, p) /\ End(n) = at + len
    <2>1. n \in 0..n /\ n # 0
      BY <1>6
    <2>2. QED BY <1>6, <1>13, <1>14, <2>1 DEF M
  <1>16. PICK z : z = <<X("readCr"), X("unpg")>>
    OBVIOUS
  <1>17. Piece(z, 5, 5) /\ z \in Seq(T) /\ ~Has(z, {"program"})
    <2>1. Piece(z, 5, 5)
      BY <1>16, UnpgPiece
    <2>2. DOMAIN z = 1..2 /\ z[1].do = "readCr" /\ z[2].do = "unpg"
      <3>1. {"readCr", "unpg"} \subseteq {"readCr", "unpg"}
        OBVIOUS
      <3>2. QED BY <1>16, <3>1, Two
    <2>3. QED BY <2>1, <2>2 DEF Piece, Has
  <1>18. Program(r) = p \o z
    BY <1>3, <1>14, <1>16 DEF Program, parts
  <1>19. Piece(p, 4, 4) /\ Apart(p)
         /\ \A w \in at..(at + len - 1) : r.img[w - at + 1] = "ff" \/ Covered(p, "program", w)
    BY <1>15
  <1>20. Piece(p \o z, 4, 5)
    BY <1>17, <1>19, PieceJoin
  <1>21. Apart(p \o z)
    BY <1>15, <1>17, <1>19, NoProgramApart, ApartJoin
  <1>22. \A w \in at..(at + len - 1) : r.img[w - at + 1] = "ff" \/ Covered(p \o z, "program", w)
    BY <1>15, <1>17, <1>19, FoundInJoin
  <1>23. QED BY <1>1, <1>2, <1>18, <1>20, <1>21, <1>22
\* A piece has nothing of an earlier or a later phase.
LEMMA PieceLacks ==
    ASSUME NEW q, NEW l \in Nat, NEW h \in Nat, Piece(q, l, h), NEW d,
           Phase(d) # 0, Phase(d) < l \/ Phase(d) > h
    PROVE  ~Has(q, {d})
  <1>1. Phase(d) \in Nat
    BY PhaseNat
  <1>2. SUFFICES ASSUME NEW i \in DOMAIN q, q[i].do = d PROVE FALSE
    BY DEF Has
  <1>3. l <= Phase(d) /\ Phase(d) <= h
    BY <1>2 DEF Piece
  <1>4. QED BY <1>1, <1>3

\* All that is found in one script is found in the other.
Within(a, q) ==
    /\ \A D : Has(a, D) => Has(q, D)
    /\ \A s : Selected(a, s) => Selected(q, s)
    /\ \A d, w : Covered(a, d, w) => Covered(q, d, w)

LEMMA WithinJoin ==
    ASSUME NEW a \in Seq(Work("flash")), NEW b \in Seq(Work("flash"))
    PROVE  Within(a, a \o b) /\ Within(b, a \o b)
  <1>1. PICK S : S = Work("flash")
    OBVIOUS
  <1>2. PICK q : q = a \o b
    OBVIOUS
  <1>3. a \in Seq(S) /\ b \in Seq(S)
    BY <1>1
  <1>4. /\ \A s : Selected(a, s) \/ Selected(b, s) => Selected(q, s)
        /\ \A d, w : Covered(a, d, w) \/ Covered(b, d, w) => Covered(q, d, w)
        /\ \A D : Has(q, D) <=> Has(a, D) \/ Has(b, D)
    BY <1>2, <1>3, FoundInJoin
  <1>5. Within(a, q)
    BY <1>4 DEF Within
  <1>6. Within(b, q)
    BY <1>4 DEF Within
  <1>7. QED BY <1>2, <1>5, <1>6

LEMMA WithinAll ==
    ASSUME NEW a, NEW b, NEW c, Within(a, b), Within(b, c)
    PROVE  Within(a, c)
  BY DEF Within

LEMMA SameFinds ==
    ASSUME NEW u, NEW q, Same(u, q)
    PROVE  Within(q, u) /\ (Apart(q) => Apart(u))
  <1>1. DOMAIN u = DOMAIN q
        /\ \A i \in DOMAIN q : u[i].do = q[i].do /\ u[i].at = q[i].at /\ u[i].n = q[i].n
    BY DEF Same
  <1>2. ASSUME NEW D, Has(q, D) PROVE Has(u, D)
    BY <1>1, <1>2 DEF Has
  <1>3. ASSUME NEW s, Selected(q, s) PROVE Selected(u, s)
    BY <1>1, <1>3 DEF Selected
  <1>4. ASSUME NEW d, NEW w, Covered(q, d, w) PROVE Covered(u, d, w)
    <2>1. PICK i \in DOMAIN q : q[i].do = d /\ w \in q[i].at..(q[i].at + q[i].n - 1)
      BY <1>4 DEF Covered
    <2>2. i \in DOMAIN u /\ u[i].do = d /\ u[i].at = q[i].at /\ u[i].n = q[i].n
      BY <1>1, <2>1
    <2>3. QED BY <2>1, <2>2 DEF Covered
  <1>5. ASSUME Apart(q) PROVE Apart(u)
    <2>1. SUFFICES ASSUME NEW i \in DOMAIN u, NEW j \in DOMAIN u, i < j,
                          u[i].do = "program", u[j].do = "program"
                   PROVE  u[i].at + u[i].n <= u[j].at
      BY DEF Apart
    <2>2. q[i].at + q[i].n <= q[j].at
      BY <1>1, <1>5, <2>1 DEF Apart
    <2>3. QED BY <1>1, <2>1, <2>2
  <1>6. Within(q, u)
    BY <1>2, <1>3, <1>4 DEF Within
  <1>7. QED BY <1>5, <1>6

LEMMA UnlockHas == Has(Unlock, {"unlocked"}) /\ Has(Unlock, {"clearSr"})
  <1>1. PICK a : a = HaltCore
    OBVIOUS
  <1>2. PICK b : b = <<X("readCr"), X("key1"), X("key2"), X("unlocked"), X("clearSr")>>
    OBVIOUS
  <1>3. PICK D : D = {"readCr", "key1", "key2", "unlocked", "clearSr"}
    OBVIOUS
  <1>4. b \in Seq(Made(D, {"none"})) /\ DOMAIN b = 1..5 /\ b[4].do = "unlocked" /\ b[5].do = "clearSr"
    BY <1>2, <1>3, Five
  <1>5. Has(b, {"unlocked"}) /\ Has(b, {"clearSr"})
    BY <1>4 DEF Has
  <1>6. {"halt", "halted"} \subseteq DosOf("flash") /\ D \subseteq DosOf("flash")
    BY <1>3 DEF DosOf
  <1>7. a \in Seq(Work("flash")) /\ b \in Seq(Work("flash"))
    <2>1. {"halt", "halted"} \subseteq {"halt", "halted"}
      OBVIOUS
    <2>2. a \in Seq(Made({"halt", "halted"}, {"none"}))
      BY <1>1, <2>1, Two DEF HaltCore
    <2>3. QED BY <1>4, <1>6, <2>2, InWork
  <1>8. Within(b, a \o b)
    BY <1>7, WithinJoin
  <1>9. QED BY <1>1, <1>2, <1>5, <1>8 DEF Unlock, Within

\* What the script of a flash operation has in it.
Area(r) == r.at..(r.at + Len(r.img) - 1)
Complete(q, r) ==
    /\ Has(q, {"unlocked"}) /\ Has(q, {"clearSr"}) /\ Has(q, {"pg"})
    /\ \A s \in Sectors : Overlaps(s, r.at, Len(r.img)) => Selected(q, s)
    /\ \A w \in Area(r) : r.img[w - r.at + 1] = "ff" \/ Covered(q, "program", w)
    /\ r.verify => \A w \in Area(r) : Covered(q, "verify", w)

\* From erasing to reading back.
LEMMA BodyPiece ==
    ASSUME NEW r, IsImage(r)
    PROVE  LET u == Under("lock", Erase(r) \o InitWrite \o Program(r) \o Verify(r))
           IN  /\ Piece(u, 2, 6) /\ Apart(u) /\ Has(u, {"pg"})
               /\ Within(Erase(r), u) /\ Within(Program(r), u) /\ Within(Verify(r), u)
  <1>1. PICK e : e = Erase(r)
    OBVIOUS
  <1>2. PICK i : i = InitWrite
    OBVIOUS
  <1>3. PICK p : p = Program(r)
    OBVIOUS
  <1>4. PICK v : v = Verify(r)
    OBVIOUS
  <1>5. Piece(e, 2, 2) /\ ~Has(e, {"program"})
    BY <1>1, ErasePiece
  <1>6. Piece(i, 3, 3) /\ Has(i, {"pg"})
    BY <1>2, InitWritePiece
  <1>7. Piece(p, 4, 5) /\ Apart(p)
    BY <1>3, ProgramPiece
  <1>8. Piece(v, 6, 6) /\ ~Has(v, {"program"})
    BY <1>4, VerifyPiece
  <1>9. PICK b1 : b1 = e \o i
    OBVIOUS
  <1>10. PICK b2 : b2 = b1 \o p
    OBVIOUS
  <1>11. PICK b : b = b2 \o v
    OBVIOUS
  <1>12. Piece(b1, 2, 3)
    BY <1>5, <1>6, <1>9, PieceJoin
  <1>13. Piece(b2, 2, 5)
    BY <1>7, <1>10, <1>12, PieceJoin
  <1>14. Piece(b, 2, 6)
    BY <1>8, <1>11, <1>13, PieceJoin
  <1>15. PICK S : S = Work("flash")
    OBVIOUS
  <1>16. e \in Seq(S) /\ i \in Seq(S) /\ p \in Seq(S) /\ v \in Seq(S) /\ b1 \in Seq(S) /\ b2 \in Seq(S)
    BY <1>5, <1>6, <1>7, <1>8, <1>12, <1>13, <1>15 DEF Piece
  <1>17. ~Has(b1, {"program"})
    <2>1. Phase("program") = 4
      BY DEF Phase
    <2>2. QED BY <1>12, <2>1, PieceLacks
  <1>18. Apart(b2)
    BY <1>7, <1>10, <1>16, <1>17, NoProgramApart, ApartJoin
  <1>19. Apart(b)
    BY <1>8, <1>11, <1>16, <1>18, NoProgramApart, ApartJoin
  <1>20. Within(e, b1) /\ Within(i, b1) /\ Within(b1, b2) /\ Within(p, b2) /\ Within(b2, b) /\ Within(v, b)
    BY <1>9, <1>10, <1>11, <1>15, <1>16, WithinJoin
  <1>21. Within(e, b) /\ Within(i, b) /\ Within(p, b)
    <2>1. Within(e, b2) /\ Within(i, b2)
      BY <1>20, WithinAll
    <2>2. QED BY <2>1, <1>20, WithinAll
  <1>22. PICK u : u = Under("lock", b)
    OBVIOUS
  <1>23. b \in Bodies(r)
    <2>1. e \in Bodies(r) /\ i \in Bodies(r) /\ p \in Bodies(r) /\ v \in Bodies(r)
      BY <1>1, <1>2, <1>3, <1>4, EraseBody, InitWriteBody, ProgramBody, VerifyBody
    <2>2. QED BY <2>1, <1>9, <1>10, <1>11, BodiesClosed
  <1>24. Same(u, b)
    <2>1. b \in Seq(Made(BodyDos, {"none"}))
      BY <1>23 DEF Bodies, Parts
    <2>2. QED BY <2>1, <1>22, UnderAt
  <1>25. u \in Seq(Work("flash"))
    <2>1. u \in Parts(Work("flash"), r)
      BY <1>22, <1>23, UnderPart
    <2>2. QED BY <2>1 DEF Parts
  <1>26. Piece(u, 2, 6)
    BY <1>14, <1>24, <1>25, PieceUnder
  <1>27. Apart(u) /\ Within(b, u)
    BY <1>19, <1>24, SameFinds
  <1>28. Within(e, u) /\ Within(i, u) /\ Within(p, u) /\ Within(v, u)
    BY <1>20, <1>21, <1>27, WithinAll
  <1>29. Has(u, {"pg"})
    BY <1>6, <1>28 DEF Within
  <1>30. u = Under("lock", Erase(r) \o InitWrite \o Program(r) \o Verify(r))
    BY <1>1, <1>2, <1>3, <1>4, <1>9, <1>10, <1>11, <1>22
  <1>31. QED BY <1>1, <1>3, <1>4, <1>26, <1>27, <1>28, <1>29, <1>30

LEMMA SinglePiece ==
    ASSUME NEW d \in {"lock", "access"}, NEW p \in Nat, Phase(d) \in {0, p}
    PROVE  Piece(<<X(d)>>, p, p)
  <1>1. {d} \subseteq DosOf("flash")
    BY DEF DosOf
  <1>2. PICK z : z = <<X(d)>>
    OBVIOUS
  <1>3. z \in Seq(Made({d}, {"none"})) /\ DOMAIN z = {1} /\ z[1].do = d
    <2>1. X(d) \in Made({d}, {"none"}) /\ X(d).do = d
      BY Plain
    <2>2. QED BY <1>2, <2>1
  <1>4. z \in Seq(Work("flash"))
    BY <1>1, <1>3, InWork
  <1>5. Chained(z)
    BY <1>3 DEF Chained, Led, Writes, Before, After
  <1>6. \A i \in DOMAIN z : Phase(z[i].do) \in {0, p}
    BY <1>3
  <1>7. QED BY <1>2, <1>4, <1>5, <1>6, OnePhase

LEMMA FlashPiece ==
    ASSUME NEW r, IsImage(r)
    PROVE  /\ Piece(FlashScript(r), 1, 8) /\ Apart(FlashScript(r)) /\ Complete(FlashScript(r), r)
  <1>1. PICK a0 : a0 = <<X("access"), X("access")>>
    OBVIOUS
  <1>2. PICK a1 : a1 = Unlock
    OBVIOUS
  <1>3. PICK u : u = Under("lock", Erase(r) \o InitWrite \o Program(r) \o Verify(r))
    OBVIOUS
  <1>4. PICK a3 : a3 = <<X("lock")>>
    OBVIOUS
  <1>5. PICK a4 : a4 = ResetHalt
    OBVIOUS
  <1>6. PICK a5 : a5 = <<X("access")>>
    OBVIOUS
  <1>7. PICK q1 : q1 = a0 \o a1
    OBVIOUS
  <1>8. PICK q2 : q2 = q1 \o u
    OBVIOUS
  <1>9. PICK q3 : q3 = q2 \o a3
    OBVIOUS
  <1>10. PICK q4 : q4 = q3 \o a4
    OBVIOUS
  <1>11. PICK q : q = q4 \o a5
    OBVIOUS
  <1>12. FlashScript(r) = q
    BY <1>1, <1>2, <1>3, <1>4, <1>5, <1>6, <1>7, <1>8, <1>9, <1>10, <1>11 DEF FlashScript
  <1>13. Piece(a0, 1, 1)
    <2>1. {"access"} \subseteq DosOf("flash")
      BY DEF DosOf
    <2>2. a0 \in Seq(Made({"access"}, {"none"})) /\ DOMAIN a0 = 1..2
          /\ a0[1].do = "access" /\ a0[2].do = "access"
      <3>1. {"access", "access"} \subseteq {"access"}
        OBVIOUS
      <3>2. QED BY <1>1, <3>1, Two
    <2>3. a0 \in Seq(Work("flash"))
      BY <2>1, <2>2, InWork
    <2>4. \A i \in DOMAIN a0 : a0[i].do = "access"
      BY <2>2
    <2>5. Chained(a0)
      BY <2>4 DEF Chained, Led, Writes, Before, After
    <2>6. \A i \in DOMAIN a0 : Phase(a0[i].do) \in {0, 1}
      BY <2>4 DEF Phase
    <2>7. QED BY <2>3, <2>5, <2>6, OnePhase
  <1>14. Phase("lock") \in {0, 7} /\ Phase("access") \in {0, 8} /\ 7 \in Nat /\ 8 \in Nat
    BY DEF Phase
  <1>15. Piece(a3, 7, 7) /\ Piece(a5, 8, 8)
    <2>1. Piece(<<X("lock")>>, 7, 7)
      BY <1>14, SinglePiece
    <2>2. Piece(<<X("access")>>, 8, 8)
      BY <1>14, SinglePiece
    <2>3. QED BY <1>4, <1>6, <2>1, <2>2
  <1>16. Piece(a1, 1, 1) /\ Piece(a4, 8, 8)
    BY <1>2, <1>5, UnlockPiece, ResetHaltPiece
  <1>17. /\ Piece(u, 2, 6) /\ Apart(u) /\ Has(u, {"pg"})
         /\ Within(Erase(r), u) /\ Within(Program(r), u) /\ Within(Verify(r), u)
    BY <1>3, BodyPiece
  <1>18. Piece(q1, 1, 1)
    BY <1>7, <1>13, <1>16, PieceJoin
  <1>19. Piece(q2, 1, 6)
    BY <1>8, <1>17, <1>18, PieceJoin
  <1>20. Piece(q3, 1, 7)
    BY <1>9, <1>15, <1>19, PieceJoin
  <1>21. Piece(q4, 1, 8)
    BY <1>10, <1>16, <1>20, PieceJoin
  <1>22. Piece(q, 1, 8)
    BY <1>11, <1>15, <1>21, PieceJoin
  <1>23. PICK S : S = Work("flash")
    OBVIOUS
  <1>24. a0 \in Seq(S) /\ a1 \in Seq(S) /\ u \in Seq(S) /\ a3 \in Seq(S) /\ a4 \in Seq(S) /\ a5 \in Seq(S)
         /\ q1 \in Seq(S) /\ q2 \in Seq(S) /\ q3 \in Seq(S) /\ q4 \in Seq(S) /\ q \in Seq(S)
    BY <1>13, <1>15, <1>16, <1>17, <1>18, <1>19, <1>20, <1>21, <1>22, <1>23 DEF Piece
  <1>25. ~Has(q1, {"program"}) /\ ~Has(a3, {"program"}) /\ ~Has(a4, {"program"}) /\ ~Has(a5, {"program"})
    <2>1. Phase("program") = 4
      BY DEF Phase
    <2>2. QED BY <2>1, <1>15, <1>16, <1>18, PieceLacks
  <1>26. Apart(q2)
    BY <1>8, <1>17, <1>24, <1>25, NoProgramApart, ApartJoin
  <1>27. Apart(q3)
    BY <1>9, <1>24, <1>25, <1>26, NoProgramApart, ApartJoin
  <1>28. Apart(q4)
    BY <1>10, <1>24, <1>25, <1>27, NoProgramApart, ApartJoin
  <1>29. Apart(q)
    BY <1>11, <1>24, <1>25, <1>28, NoProgramApart, ApartJoin
  <1>30. Within(a1, q1) /\ Within(q1, q2) /\ Within(u, q2) /\ Within(q2, q3) /\ Within(q3, q4) /\ Within(q4, q)
    BY <1>7, <1>8, <1>9, <1>10, <1>11, <1>23, <1>24, WithinJoin
  <1>31. Within(q2, q)
    BY <1>30, WithinAll
  <1>32. Within(u, q) /\ Within(a1, q)
    BY <1>30, <1>31, WithinAll
  <1>33. Within(Erase(r), q) /\ Within(Program(r), q) /\ Within(Verify(r), q)
    BY <1>17, <1>32, WithinAll
  <1>34. Has(a1, {"unlocked"}) /\ Has(a1, {"clearSr"})
    BY <1>2, UnlockHas
  <1>35. Has(q, {"unlocked"}) /\ Has(q, {"clearSr"}) /\ Has(q, {"pg"})
    BY <1>17, <1>32, <1>34 DEF Within
  <1>36. \A s \in Sectors : Overlaps(s, r.at, Len(r.img)) => Selected(q, s)
    BY <1>33, ErasePiece DEF Within
  <1>37. \A w \in Area(r) : r.img[w - r.at + 1] = "ff" \/ Covered(q, "program", w)
    BY <1>33, ProgramPiece DEF Within, Area
  <1>38. r.verify => \A w \in Area(r) : Covered(q, "verify", w)
    BY <1>33, VerifyPiece DEF Within, Area
  <1>39. Complete(q, r)
    BY <1>35, <1>36, <1>37, <1>38 DEF Complete
  <1>40. QED BY <1>12, <1>22, <1>29, <1>39
-----------------------------------------------------------------------------
(* What a transfer of a flash operation does *)

\* What is written to FLASH_CR.
Value(t) ==
    CASE t.do = "select" -> [seen EXCEPT !.ser = TRUE, !.snb = t.at]
      [] t.do = "pg" -> [seen EXCEPT !.pg = TRUE]
      [] t.do = "unpg" -> [seen EXCEPT !.pg = FALSE]
      [] t.do = "lock" -> Locked
      [] OTHER -> seen

ActsOnCore(d) ==
    /\ d = "halt" => core' = "halt"
    /\ d = "reset" => core' = IF catching THEN "halt" ELSE "run"
    /\ d \notin {"halt", "reset"} => core' = core
    /\ d = "catch" => catching'

ActsOnLock(d) ==
    /\ seen' = IF d = "readCr" THEN cr ELSE seen
    /\ d \in {"key1", "key2"} /\ ~seen.lock => cr' = cr
    /\ d = "key1" /\ seen.lock => cr' = Locked /\ keys' \in {"one", "jammed"}
    /\ d = "key2" /\ seen.lock => (keys = "one" => ~cr'.lock) /\ (keys = "jammed" => keys' = "jammed")
    /\ d = "unlocked" => ~cr.lock
    /\ d \notin {"key1", "key2", "reset"} => keys' = keys

ActsOnCr(t) ==
    /\ t.do \in Writes \cup {"lock"} => ~busy /\ cr' = IF cr.lock THEN cr ELSE Value(t)
    /\ t.do \notin Writes \cup {"lock", "key1", "key2", "reset"} => cr' = cr

ActsOnStatus(d) ==
    /\ d = "clearSr" => ~busy /\ ~err'
    /\ d = "reset" => ~err' /\ ~busy'
    /\ d = "start" => (busy' <=> ~cr.lock /\ seen.ser)
    /\ d \notin {"start", "reset"} => busy' = busy
    /\ d \in {"busy", "program", "verify"} => ~busy
    /\ d \notin {"clearSr", "reset"} => err' = err \/ (d = "program" /\ ~cr.pg)

Written(t) == [w \in Words |-> IF w \in t.at..(t.at + t.n - 1)
                               THEN Programmed(cells[w], req.img[w - req.at + 1]) ELSE cells[w]]
Equal(t) == \A w \in t.at..(t.at + t.n - 1) : cells[w] = req.img[w - req.at + 1]

ActsOnCells(t) ==
    /\ t.do = "program" /\ cr.pg => cells' = Written(t)
    /\ t.do = "verify" => Equal(t)
    /\ t.do # "program" /\ (t.do = "reset" => ~busy) => cells' = cells

Acts(t) ==
    ActsOnCore(t.do) /\ ActsOnLock(t.do) /\ ActsOnCr(t) /\ ActsOnStatus(t.do) /\ ActsOnCells(t)

Turn ==
    /\ todo # <<>> /\ todo' = Tail(todo) /\ UNCHANGED <<op, ok, req, undisturbed, failed>>
    /\ Acts(Head(todo))

\* A block is not written, or in part, and nobody hears of it.
Misses ==
    /\ todo # <<>> /\ todo' = Tail(todo) /\ UNCHANGED <<op, ok, req, busy>>
    /\ Head(todo).do = "program" /\ failed'.by = "fault"

Advances == Turn \/ Misses

LEMMA DoneTurns ==
    ASSUME todo # <<>>, Done, ok', req' = req, NEW t, t = Head(todo), Acts(t)
    PROVE  Turn /\ ok
  <1>1. Goes /\ Rest
    BY DEF Done, Fails, Throws
  <1>2. todo' = Tail(todo) /\ UNCHANGED <<op, ok, req, undisturbed, failed>>
    BY <1>1 DEF Goes, Rest
  <1>3. Turn
    BY <1>2 DEF Turn
  <1>4. QED BY <1>2, <1>3

LEMMA CoreTurns ==
    ASSUME Typed, op = "flash", CoreTransfer, UNCHANGED <<controller, seen, req>>, ok'
    PROVE  Turn /\ ok
  <1>1. UNCHANGED <<cells, cr, keys, busy, err, seen, req>>
    BY DEF controller
  <1>2. PICK t : t = Head(todo)
    OBVIOUS
  <1>3. todo # <<>> => t.do \in DosOf("flash")
    BY <1>2, HeadDo
  <1>4. ASSUME t.do \in {"access", "halt", "halted", "catch", "uncatch"}
        PROVE  ActsOnLock(t.do) /\ ActsOnCr(t) /\ ActsOnStatus(t.do) /\ ActsOnCells(t)
    BY <1>1, <1>4 DEF ActsOnLock, ActsOnCr, ActsOnStatus, ActsOnCells, Writes
  <1>5. CASE Access
    <2>1. todo # <<>> /\ Done /\ t.do = "access" /\ UNCHANGED cpu
      BY <1>2, <1>5 DEF Access, At
    <2>2. ActsOnCore(t.do)
      BY <2>1 DEF ActsOnCore, cpu
    <2>3. Acts(t)
      BY <1>4, <2>1, <2>2 DEF Acts
    <2>4. QED BY <1>1, <1>2, <2>1, <2>3, DoneTurns
  <1>6. CASE WriteHalt
    <2>1. todo # <<>> /\ Done /\ t.do = "halt" /\ core' = "halt"
      BY <1>2, <1>6 DEF WriteHalt, At
    <2>2. ActsOnCore(t.do)
      BY <2>1 DEF ActsOnCore
    <2>3. Acts(t)
      BY <1>4, <2>1, <2>2 DEF Acts
    <2>4. QED BY <1>1, <1>2, <2>1, <2>3, DoneTurns
  <1>7. CASE SeesHalted
    <2>1. todo # <<>> /\ t.do = "halted" /\ Done /\ UNCHANGED cpu
      BY <1>2, <1>7 DEF SeesHalted, At, GivesUp, Throws
    <2>2. ActsOnCore(t.do)
      BY <2>1 DEF ActsOnCore, cpu
    <2>3. Acts(t)
      BY <1>4, <2>1, <2>2 DEF Acts
    <2>4. QED BY <1>1, <1>2, <2>1, <2>3, DoneTurns
  <1>8. CASE WriteCatch
    <2>1. todo # <<>> /\ t.do \in {"catch", "uncatch"} /\ Done /\ core' = core /\ (t.do = "catch" => catching')
      BY <1>2, <1>8 DEF WriteCatch, At
    <2>2. ActsOnCore(t.do)
      BY <2>1 DEF ActsOnCore
    <2>3. Acts(t)
      BY <1>4, <2>1, <2>2 DEF Acts
    <2>4. QED BY <1>1, <1>2, <2>1, <2>3, DoneTurns
  <1>9. CASE Mask \/ Step \/ Run \/ ReleaseReset
    <2>1. todo # <<>> /\ t.do \in {"mask", "step", "run", "high"}
      BY <1>2, <1>9 DEF Mask, Step, Run, ReleaseReset, At
    <2>2. QED BY <1>3, <2>1 DEF DosOf
  <1>10. QED BY <1>5, <1>6, <1>7, <1>8, <1>9 DEF CoreTransfer

\* A write of FLASH_CR.
LEMMA WriteTurns ==
    ASSUME Typed, op = "flash", Select \/ StartErase \/ WriteBits, ok'
    PROVE  Turn /\ ok
  <1>1. PICK t : t = Head(todo)
    OBVIOUS
  <1>2. seen \in Registers
    BY DEF Typed
  <1>3. todo # <<>> /\ t.do \in Writes \cup {"lock"} /\ WriteCr(Value(t))
        /\ (t.do = "start" => (busy' <=> ~cr.lock /\ seen.ser)) /\ (t.do # "start" => busy' = busy)
    <2>1. CASE Select
      <3>1. todo # <<>> /\ t.do = "select" /\ WriteCr([seen EXCEPT !.ser = TRUE, !.snb = t.at]) /\ busy' = busy
        BY <1>1, <2>1 DEF Select, At
      <3>2. Value(t) = [seen EXCEPT !.ser = TRUE, !.snb = t.at]
        BY <3>1 DEF Value
      <3>3. WriteCr(Value(t))
        BY <3>1, <3>2
      <3>4. QED BY <3>1, <3>3 DEF Writes
    <2>2. CASE StartErase
      <3>1. todo # <<>> /\ t.do = "start" /\ WriteCr(seen) /\ busy' = (~cr.lock /\ seen.ser)
        BY <1>1, <2>2 DEF StartErase, At
      <3>2. Value(t) = seen
        BY <3>1 DEF Value
      <3>3. WriteCr(Value(t))
        BY <3>1, <3>2
      <3>4. QED BY <3>1, <3>3 DEF Writes
    <2>3. CASE WriteBits
      <3>1. todo # <<>> /\ busy' = busy /\ t.do \in {"psize", "pg", "unpg", "lock"}
        BY <1>1, <2>3 DEF WriteBits, At
      <3>2. t.do = "psize" => Value(t) = seen
        BY DEF Value
      <3>3. t.do = "pg" => Value(t) = [seen EXCEPT !.pg = TRUE]
        BY DEF Value
      <3>4. t.do = "unpg" => Value(t) = [seen EXCEPT !.pg = FALSE]
        BY DEF Value
      <3>5. t.do = "lock" => Value(t) = Locked
        BY DEF Value
      <3>6. \/ t.do = "psize" /\ WriteCr(seen)
            \/ t.do = "pg" /\ WriteCr([seen EXCEPT !.pg = TRUE])
            \/ t.do = "unpg" /\ WriteCr([seen EXCEPT !.pg = FALSE])
            \/ t.do = "lock" /\ WriteCr(Locked)
        BY <1>1, <2>3 DEF WriteBits, At
      <3>7. WriteCr(Value(t))
        BY <3>2, <3>3, <3>4, <3>5, <3>6
      <3>8. QED BY <3>1, <3>7 DEF Writes
    <2>4. QED BY <2>1, <2>2, <2>3
  <1>4. PICK v : v = Value(t)
    OBVIOUS
  <1>5. /\ ~busy /\ Done /\ cr' = (IF cr.lock THEN cr ELSE v)
        /\ UNCHANGED <<cpu, cells, keys, err, seen, req>>
    BY <1>3, <1>4 DEF WriteCr
  <1>6. UNCHANGED <<core, catching>>
    BY <1>5 DEF cpu
  <1>7. t.do \notin {"halt", "reset", "catch", "readCr", "key1", "key2", "unlocked", "clearSr", "busy",
                     "program", "verify"}
    BY <1>3 DEF Writes
  <1>8. ActsOnCore(t.do)
    BY <1>6, <1>7 DEF ActsOnCore
  <1>9. ActsOnLock(t.do)
    BY <1>5, <1>7 DEF ActsOnLock
  <1>10. ActsOnCr(t)
    BY <1>3, <1>4, <1>5 DEF ActsOnCr
  <1>11. ActsOnStatus(t.do)
    BY <1>3, <1>5, <1>7 DEF ActsOnStatus
  <1>12. ActsOnCells(t)
    BY <1>5, <1>7 DEF ActsOnCells
  <1>13. Acts(t)
    BY <1>8, <1>9, <1>10, <1>11, <1>12 DEF Acts
  <1>14. QED BY <1>1, <1>3, <1>5, <1>13, DoneTurns
\* The other transfers of the flash controller.
LEMMA ControllerTurns ==
    ASSUME Typed, faults \in Nat, op = "flash", ok',
           \/ WriteReset \/ ReadCr \/ (\E k \in {"key1", "key2"} : WriteKey(k)) \/ NoKeyNeeded
           \/ Unlocked \/ ClearSr \/ WaitBusy \/ ProgramBlock \/ VerifyBlock
    PROVE  Advances /\ ok
  <1>1. PICK t : t = Head(todo)
    OBVIOUS
  <1>2. todo # <<>> => t.do \in DosOf("flash")
    BY <1>1, HeadDo
  <1>3. cr \in Registers /\ seen \in Registers
    BY DEF Typed
  <1>4. CASE WriteReset
    <2>1. /\ todo # <<>> /\ t.do \in {"reset", "low"} /\ Done /\ req' = req /\ seen' = seen
          /\ core' = (IF catching THEN "halt" ELSE "run")
          /\ ~busy' /\ ~err'
          /\ cells' = IF busy /\ cr.snb \in Sectors THEN Erased(cr.snb, "mix") ELSE cells
      BY <1>1, <1>4 DEF WriteReset, At, ResetCore, ResetFlash
    <2>2. t.do = "reset"
      BY <1>2, <2>1 DEF DosOf
    <2>3. ActsOnCore(t.do) /\ ActsOnLock(t.do) /\ ActsOnStatus(t.do)
      BY <2>1, <2>2 DEF ActsOnCore, ActsOnLock, ActsOnStatus
    <2>4. ActsOnCr(t) /\ ActsOnCells(t)
      BY <2>1, <2>2 DEF ActsOnCr, ActsOnCells, Writes
    <2>5. Acts(t)
      BY <2>3, <2>4 DEF Acts
    <2>6. QED BY <1>1, <2>1, <2>5, DoneTurns DEF Advances
  <1>5. CASE ReadCr
    <2>1. /\ todo # <<>> /\ t.do = "readCr" /\ Done /\ seen' = cr
          /\ UNCHANGED <<core, cells, cr, keys, busy, err, req>>
      BY <1>1, <1>5 DEF ReadCr, At, cpu, controller
    <2>2. ActsOnCore(t.do) /\ ActsOnLock(t.do) /\ ActsOnStatus(t.do)
      BY <2>1 DEF ActsOnCore, ActsOnLock, ActsOnStatus
    <2>3. ActsOnCr(t) /\ ActsOnCells(t)
      BY <2>1 DEF ActsOnCr, ActsOnCells, Writes
    <2>4. Acts(t)
      BY <2>2, <2>3 DEF Acts
    <2>5. QED BY <1>1, <2>1, <2>4, DoneTurns DEF Advances
  <1>6. ASSUME NEW k \in {"key1", "key2"}, WriteKey(k) PROVE Advances /\ ok
    <2>1. /\ todo # <<>> /\ t.do = k /\ seen.lock /\ Done
          /\ UNCHANGED <<core, cells, busy, err, seen, req>>
      BY <1>1, <1>6 DEF WriteKey, At, cpu
    <2>2. /\ k = "key1" => cr' = Locked /\ keys' \in {"one", "jammed"}
          /\ k = "key2" => (keys = "one" => ~cr'.lock) /\ (keys = "jammed" => keys' = "jammed")
      <3>1. CASE k = "key2" /\ keys = "one"
        <4>1. cr' = [cr EXCEPT !.lock = FALSE]
          BY <1>6, <3>1 DEF WriteKey
        <4>2. ~cr'.lock
          BY <1>3, <4>1 DEF Registers
        <4>3. QED BY <3>1, <4>2
      <3>2. CASE ~(k = "key2" /\ keys = "one")
        <4>1. cr' = Locked /\ keys' = IF k = "key1" /\ keys = "none" THEN "one" ELSE "jammed"
          BY <1>6, <3>2 DEF WriteKey
        <4>2. QED BY <3>2, <4>1
      <3>3. QED BY <3>1, <3>2
    <2>3. ActsOnCore(t.do) /\ ActsOnLock(t.do) /\ ActsOnStatus(t.do)
      BY <2>1, <2>2 DEF ActsOnCore, ActsOnLock, ActsOnStatus
    <2>4. ActsOnCr(t) /\ ActsOnCells(t)
      BY <2>1 DEF ActsOnCr, ActsOnCells, Writes
    <2>5. Acts(t)
      BY <2>3, <2>4 DEF Acts
    <2>6. QED BY <1>1, <2>1, <2>5, DoneTurns DEF Advances
  <1>7. CASE NoKeyNeeded
    <2>1. /\ todo # <<>> /\ t.do \in {"key1", "key2"} /\ ~seen.lock /\ Done
          /\ UNCHANGED <<core, cells, cr, keys, busy, err, seen, req>>
      BY <1>1, <1>7 DEF NoKeyNeeded, At, Done, cpu, controller
    <2>2. ActsOnCore(t.do) /\ ActsOnLock(t.do) /\ ActsOnStatus(t.do)
      BY <2>1 DEF ActsOnCore, ActsOnLock, ActsOnStatus
    <2>3. ActsOnCr(t) /\ ActsOnCells(t)
      BY <2>1 DEF ActsOnCr, ActsOnCells, Writes
    <2>4. Acts(t)
      BY <2>2, <2>3 DEF Acts
    <2>5. QED BY <1>1, <2>1, <2>4, DoneTurns DEF Advances
  <1>8. CASE Unlocked \/ WaitBusy \/ VerifyBlock
    <2>1. /\ todo # <<>> /\ t.do \in {"unlocked", "busy", "verify"} /\ Done
          /\ (t.do = "unlocked" => ~cr.lock) /\ (t.do \in {"busy", "verify"} => ~busy)
          /\ (t.do = "verify" => Equal(t))
          /\ UNCHANGED <<core, cells, cr, keys, busy, err, seen, req>>
      <3>1. CASE Unlocked
        BY <1>1, <3>1 DEF Unlocked, At, GivesUp, Throws, cpu, controller
      <3>2. CASE WaitBusy
        BY <1>1, <3>2 DEF WaitBusy, At, GivesUp, Fails, Throws, cpu, controller
      <3>3. CASE VerifyBlock
        BY <1>1, <3>3 DEF VerifyBlock, At, GivesUp, Throws, cpu, controller, Equal
      <3>4. QED BY <1>8, <3>1, <3>2, <3>3
    <2>2. ActsOnCore(t.do) /\ ActsOnLock(t.do) /\ ActsOnStatus(t.do)
      BY <2>1 DEF ActsOnCore, ActsOnLock, ActsOnStatus
    <2>3. ActsOnCr(t) /\ ActsOnCells(t)
      BY <2>1 DEF ActsOnCr, ActsOnCells, Writes
    <2>4. Acts(t)
      BY <2>2, <2>3 DEF Acts
    <2>5. QED BY <1>1, <2>1, <2>4, DoneTurns DEF Advances
  <1>9. CASE ClearSr
    <2>1. /\ todo # <<>> /\ t.do = "clearSr" /\ ~busy /\ Done /\ ~err'
          /\ UNCHANGED <<core, cells, cr, keys, busy, seen, req>>
      BY <1>1, <1>9 DEF ClearSr, At, cpu
    <2>2. ActsOnCore(t.do) /\ ActsOnLock(t.do) /\ ActsOnStatus(t.do)
      BY <2>1 DEF ActsOnCore, ActsOnLock, ActsOnStatus
    <2>3. ActsOnCr(t) /\ ActsOnCells(t)
      BY <2>1 DEF ActsOnCr, ActsOnCells, Writes
    <2>4. Acts(t)
      BY <2>2, <2>3 DEF Acts
    <2>5. QED BY <1>1, <2>1, <2>4, DoneTurns DEF Advances
  <1>10. CASE ProgramBlock /\ ~Unheard
    <2>1. /\ todo # <<>> /\ t.do = "program" /\ ~busy /\ Done
          /\ UNCHANGED <<core, cr, keys, busy, seen, req>>
          /\ (cr.pg => err' = err)
      BY <1>1, <1>10 DEF ProgramBlock, At, cpu
    <2>2. faults' = faults
      BY <2>1 DEF Done, Fails, Throws, Goes
    <2>3. ~(faults' > faults)
      BY <2>2
    <2>4. cr.pg => cells' = Written(t)
      <3>1. t.at \in Nat /\ t.n \in Nat
        BY <1>1, <2>1, FlashOnly DEF Fits
      <3>2. PICK k \in 0..t.n :
               /\ k < t.n => faults' > faults
               /\ cells' = IF ~cr.pg THEN cells
                           ELSE [w \in Words |-> IF w \in t.at..(t.at + k - 1)
                                                 THEN Programmed(cells[w], req.img[w - req.at + 1])
                                                 ELSE cells[w]]
        BY <1>1, <1>10 DEF ProgramBlock
      <3>3. k = t.n
        BY <2>3, <3>1, <3>2
      <3>4. QED BY <3>2, <3>3 DEF Written
    <2>5. ActsOnCore(t.do) /\ ActsOnLock(t.do) /\ ActsOnStatus(t.do)
      BY <2>1 DEF ActsOnCore, ActsOnLock, ActsOnStatus
    <2>6. ActsOnCr(t) /\ ActsOnCells(t)
      BY <2>1, <2>4 DEF ActsOnCr, ActsOnCells, Writes
    <2>7. Acts(t)
      BY <2>5, <2>6 DEF Acts
    <2>8. QED BY <1>1, <2>1, <2>7, DoneTurns DEF Advances
  <1>11. CASE ProgramBlock /\ Unheard
    BY <1>11 DEF ProgramBlock, At, Unheard, Failure, Rest, Misses, Advances
  <1>12. QED BY <1>4, <1>5, <1>6, <1>7, <1>8, <1>9, <1>10, <1>11

LEMMA FaultsCounted ==
    ASSUME faults \in Nat, [Next]_vars
    PROVE  faults' \in Nat
  <1>1. ASSUME Done \/ Fails \/ GivesUp \/ Unheard PROVE faults' \in Nat
    BY <1>1 DEF Done, Goes, Fails, GivesUp, Unheard
  <1>2. ASSUME NEW o, NEW q, Starts(o, q) PROVE faults' \in Nat
    BY <1>2 DEF Starts
  <1>3. CASE CoreTransfer \/ Lost
    BY <1>1, <1>3 DEF CoreTransfer, Lost, Access, WriteHalt, Mask, Step, Run, SeesHalted, WriteCatch,
       ReleaseReset
  <1>4. CASE (\E o \in Operations : Operate(o)) \/ Attach
    BY <1>2, <1>4 DEF Operate, Attach, Begin
  <1>5. CASE (\E file \in Files : Flash(file)) \/ \E r \in Ranges, o \in {"read", "write"} : AccessesMemory(o, r)
    BY <1>2, <1>5 DEF Flash, Flashes, AccessesMemory, Begin
  <1>6. CASE \/ WriteReset \/ ReadCr \/ (\E k \in {"key1", "key2"} : WriteKey(k))
             \/ Unlocked \/ ClearSr \/ WaitBusy \/ ProgramBlock \/ VerifyBlock
    BY <1>1, <1>6 DEF WriteReset, ReadCr, WriteKey, Unlocked, ClearSr, WaitBusy, ProgramBlock, VerifyBlock
  <1>7. CASE Select \/ StartErase \/ WriteBits
    BY <1>1, <1>7 DEF Select, StartErase, WriteBits, WriteCr
  <1>8. CASE NoKeyNeeded \/ AccessMemory \/ CheckStatus
    BY <1>1, <1>8 DEF NoKeyNeeded, Goes, AccessMemory, CheckStatus
  <1>9. CASE EraseEnds \/ BoardResets \/ UNCHANGED vars
    BY <1>9 DEF EraseEnds, BoardResets, cortexVars, host, vars
  <1>10. QED BY <1>3, <1>4, <1>5, <1>6, <1>7, <1>8, <1>9 DEF Next

LEMMA CoreStays ==
    ASSUME CoreTransfer
    PROVE  op' = op /\ undisturbed' = undisturbed
  <1>1. ASSUME Done \/ GivesUp PROVE op' = op /\ undisturbed' = undisturbed
    BY <1>1 DEF Done, GivesUp, Rest
  <1>2. QED
    BY <1>1 DEF CoreTransfer, Access, WriteHalt, Mask, Step, Run, SeesHalted, WriteCatch, ReleaseReset

\* A flash operation goes on with a transfer, or begins, or is not concerned.
LEMMA Turns ==
    ASSUME Typed, faults \in Nat, [Next]_vars, op' = "flash", ok'
    PROVE  \/ \E file \in Files : Flash(file)
           \/ op = "flash" /\ ok /\ Advances
           \/ EraseEnds \/ BoardResets \/ UNCHANGED vars
  <1>1. ASSUME NEW o, NEW q, Starts(o, q), o # "flash" PROVE FALSE
    BY <1>1 DEF Starts
  <1>2. CASE ((\E o \in Operations : Operate(o)) \/ Attach)
    BY <1>1, <1>2 DEF Operate, Attach, Begin, Operations
  <1>3. ASSUME NEW r \in Ranges, NEW o \in {"read", "write"}, AccessesMemory(o, r) PROVE FALSE
    BY <1>1, <1>3 DEF AccessesMemory, Begin
  <1>4. CASE Lost
    BY <1>4 DEF Lost, Fails, Throws
  <1>5. CASE CoreTransfer /\ UNCHANGED <<controller, seen, req, allowed, memory>>
    <2>1. op = "flash"
      BY <1>5, CoreStays
    <2>2. QED BY <1>5, <2>1, CoreTurns DEF Advances
  <1>6. CASE Select \/ StartErase \/ WriteBits
    <2>1. op = "flash"
      BY <1>6 DEF Select, StartErase, WriteBits, WriteCr, Done, Rest
    <2>2. QED BY <1>6, <2>1, WriteTurns DEF Advances
  <1>7. CASE \/ WriteReset \/ ReadCr \/ (\E k \in {"key1", "key2"} : WriteKey(k)) \/ NoKeyNeeded
             \/ Unlocked \/ ClearSr \/ WaitBusy \/ ProgramBlock \/ VerifyBlock
    <2>1. op = "flash"
      BY <1>7 DEF WriteReset, ReadCr, WriteKey, NoKeyNeeded, Unlocked, ClearSr, WaitBusy, ProgramBlock,
         VerifyBlock, Done, Unheard, Rest, GivesUp
    <2>2. QED BY <1>7, <2>1, ControllerTurns
  <1>8. CASE AccessMemory \/ CheckStatus
    <2>1. op = "flash" /\ todo # <<>> /\ Head(todo).do \in {"mem8", "mem32", "status"}
      BY <1>8 DEF AccessMemory, CheckStatus, At, Done, Unheard, Rest, GivesUp
    <2>2. QED BY <2>1, HeadDo DEF DosOf
  <1>9. QED BY <1>2, <1>3, <1>4, <1>5, <1>6, <1>7, <1>8 DEF Next
\* What makes a flash operation give up.
Finds(t) ==
    \/ t.do = "halted" /\ core = "run"
    \/ t.do = "unlocked" /\ cr.lock
    \/ t.do = "busy" /\ ~busy /\ err
    \/ t.do = "verify" /\ ~busy /\ ~Equal(t)

\* The clean-up after it goes on.
Mending == op = "flash" /\ ~ok /\ UNCHANGED <<undisturbed, keys, failed>>
Stopping ==
    /\ op = "flash" /\ ok /\ todo # <<>> /\ UNCHANGED <<undisturbed, keys>> /\ Finds(Head(todo))
    /\ failed.by = "fault" => failed'.by = "fault"

LEMMA Stops ==
    ASSUME Typed, [Next]_vars, op' = "flash", ~ok'
    PROVE  undisturbed' = FALSE \/ failed'.by = "fault" \/ Mending \/ Stopping
  <1>1. ASSUME NEW o, NEW q, Starts(o, q) PROVE FALSE
    BY <1>1 DEF Starts
  <1>2. ASSUME Fails PROVE failed'.by = "fault"
    BY <1>2 DEF Fails, Throws, Failure
  <1>3. ASSUME todo # <<>>, Done, Head(todo).do \in Mends => keys' = keys
        PROVE  failed'.by = "fault" \/ Mending
    <2>1. CASE Fails
      BY <1>2, <2>1
    <2>2. CASE Goes /\ Rest
      <3>1. ~ok /\ UNCHANGED <<failed, undisturbed>> /\ op = "flash"
        BY <2>2 DEF Goes, Rest
      <3>2. Head(todo).do \in Mends
        BY <1>3, <3>1, HeadDo
      <3>3. QED BY <1>3, <3>1, <3>2 DEF Mending
    <2>3. QED BY <1>3, <2>1, <2>2 DEF Done
  <1>4. ASSUME todo # <<>>, GivesUp, keys' = keys, Finds(Head(todo))
        PROVE  Stopping
    <2>1. op = "flash" /\ undisturbed' = undisturbed
      BY <1>4 DEF GivesUp, Rest
    <2>2. Head(todo).do \notin Mends
      BY <1>4 DEF Finds, Mends
    <2>3. ok
      BY <1>4, <2>2, HeadDo
    <2>4. failed.by = "fault" => failed'.by = "fault"
      BY <1>4 DEF GivesUp, Throws, Failure
    <2>5. QED BY <1>4, <2>1, <2>3, <2>4 DEF Stopping
  <1>5. CASE ((\E o \in Operations : Operate(o)) \/ Attach)
             \/ (\E file \in Files : Flash(file))
             \/ \E r \in Ranges, o \in {"read", "write"} : AccessesMemory(o, r)
    BY <1>1, <1>5 DEF Operate, Attach, Begin, Flash, Flashes, AccessesMemory
  <1>6. CASE Lost
    BY <1>2, <1>6 DEF Lost
  <1>7. CASE CoreTransfer /\ UNCHANGED <<controller, seen, req, allowed, memory>>
    <2>1. keys' = keys
      BY <1>7 DEF controller
    <2>2. CASE SeesHalted
      <3>1. todo # <<>> /\ Head(todo).do = "halted"
        BY <2>2 DEF SeesHalted, At
      <3>2. CASE Done
        BY <1>3, <2>1, <3>1, <3>2
      <3>3. CASE core = "run" /\ GivesUp
        <4>1. Finds(Head(todo))
          BY <3>1, <3>3 DEF Finds
        <4>2. QED BY <1>4, <2>1, <3>1, <3>3, <4>1
      <3>4. QED BY <2>2, <3>2, <3>3 DEF SeesHalted
    <2>3. CASE Access \/ WriteHalt \/ Mask \/ Step \/ Run \/ WriteCatch \/ ReleaseReset
      <3>1. todo # <<>> /\ Done
        BY <2>3 DEF Access, WriteHalt, Mask, Step, Run, WriteCatch, ReleaseReset, At
      <3>2. QED BY <1>3, <2>1, <3>1
    <2>4. QED BY <1>7, <2>2, <2>3 DEF CoreTransfer
  <1>8. CASE WriteReset \/ ReadCr \/ (\E k \in {"key1", "key2"} : WriteKey(k)) \/ ClearSr \/ ProgramBlock
    <2>1. /\ todo # <<>> /\ (Done \/ Unheard)
          /\ Head(todo).do \in {"reset", "low", "readCr", "key1", "key2", "clearSr", "program"}
      BY <1>8 DEF WriteReset, ReadCr, WriteKey, ClearSr, ProgramBlock, At
    <2>2. Head(todo).do \notin Mends
      BY <2>1 DEF Mends
    <2>3. Unheard => failed'.by = "fault"
      BY DEF Unheard, Failure
    <2>4. QED BY <1>3, <2>1, <2>2, <2>3
  <1>9. CASE NoKeyNeeded
    <2>1. todo # <<>> /\ Done /\ keys' = keys
      BY <1>9 DEF NoKeyNeeded, Done, At, controller
    <2>2. QED BY <1>3, <2>1
  <1>10. CASE Select \/ StartErase \/ WriteBits
    <2>1. todo # <<>> /\ Done /\ keys' = keys
      BY <1>10 DEF Select, StartErase, WriteBits, WriteCr, At
    <2>2. QED BY <1>3, <2>1
  <1>11. CASE Unlocked
    <2>1. todo # <<>> /\ Head(todo).do = "unlocked" /\ keys' = keys
      BY <1>11 DEF Unlocked, At, controller
    <2>2. CASE Done
      BY <1>3, <2>1, <2>2
    <2>3. CASE cr.lock /\ GivesUp
      <3>1. Finds(Head(todo))
        BY <2>1, <2>3 DEF Finds
      <3>2. QED BY <1>4, <2>1, <2>3, <3>1
    <2>4. QED BY <1>11, <2>2, <2>3 DEF Unlocked
  <1>12. CASE WaitBusy
    <2>1. todo # <<>> /\ Head(todo).do = "busy" /\ keys' = keys
      BY <1>12 DEF WaitBusy, At, controller
    <2>2. CASE Done
      BY <1>3, <2>1, <2>2
    <2>3. CASE ~busy /\ err /\ GivesUp
      <3>1. Finds(Head(todo))
        BY <2>1, <2>3 DEF Finds
      <3>2. QED BY <1>4, <2>1, <2>3, <3>1
    <2>4. CASE Fails
      BY <1>2, <2>4
    <2>5. QED BY <1>12, <2>2, <2>3, <2>4 DEF WaitBusy
  <1>13. CASE VerifyBlock
    <2>1. todo # <<>> /\ Head(todo).do = "verify" /\ keys' = keys /\ ~busy
      BY <1>13 DEF VerifyBlock, At, controller
    <2>2. CASE Done
      BY <1>3, <2>1, <2>2
    <2>3. CASE GivesUp /\ ~Equal(Head(todo))
      <3>1. Finds(Head(todo))
        BY <2>1, <2>3 DEF Finds
      <3>2. QED BY <1>4, <2>1, <2>3, <3>1
    <2>4. QED BY <1>13, <2>2, <2>3 DEF VerifyBlock, Equal
  <1>14. CASE AccessMemory \/ CheckStatus
    <2>1. op = "flash" /\ todo # <<>> /\ Head(todo).do \in {"mem8", "mem32", "status"}
      BY <1>14 DEF AccessMemory, CheckStatus, At, Done, Unheard, Rest, GivesUp
    <2>2. QED BY <2>1, HeadDo DEF DosOf
  <1>15. CASE BoardResets
    BY <1>15 DEF BoardResets
  <1>16. CASE EraseEnds \/ UNCHANGED vars
    <2>1. UNCHANGED <<op, ok, undisturbed, keys, failed>>
      BY <1>16 DEF EraseEnds, vars, cortexVars, host, controller
    <2>2. QED BY <2>1 DEF Mending
  <1>17. CASE ((\E o \in Operations : Operate(o)) \/ Attach \/ CoreTransfer \/ Lost)
             /\ UNCHANGED <<controller, seen, req, allowed, memory>>
    BY <1>5, <1>6, <1>7, <1>17
  <1>18. CASE \/ WriteReset \/ ReadCr \/ (\E k \in {"key1", "key2"} : WriteKey(k)) \/ NoKeyNeeded
              \/ Unlocked \/ ClearSr \/ Select \/ StartErase \/ WriteBits
              \/ WaitBusy \/ ProgramBlock \/ VerifyBlock
    BY <1>8, <1>9, <1>10, <1>11, <1>12, <1>13, <1>18
  <1>19. QED
    BY <1>5, <1>14, <1>15, <1>16, <1>17, <1>18 DEF Next

-----------------------------------------------------------------------------
(* What is left of a flash operation's script *)

Due(d) == todo # <<>> /\ Head(todo).do = d
Linked(q) ==
    \A i \in DOMAIN q :
        /\ i # 1 /\ q[i].do \in Led => q[i - 1].do \in Before(q[i].do)
        /\ After(q, i)

Shape == op = "flash" /\ ok => Sorted(todo) /\ Linked(todo) /\ Apart(todo)

LEMMA ShapeTail ==
    ASSUME NEW q \in Seq(Work("flash")), q # <<>>
    PROVE  /\ Sorted(q) => Sorted(Tail(q))
           /\ Linked(q) => Linked(Tail(q))
           /\ Apart(q) => Apart(Tail(q))
  <1>1. PICK r : r = Tail(q)
    OBVIOUS
  <1>2. /\ Len(q) \in Nat \ {0} /\ DOMAIN q = 1..Len(q) /\ DOMAIN r = 1..(Len(q) - 1)
        /\ \A i \in DOMAIN r : i + 1 \in DOMAIN q /\ r[i] = q[i + 1]
        /\ \A i \in DOMAIN q \ {1} : i - 1 \in DOMAIN r /\ r[i - 1] = q[i]
    BY <1>1, TailAt
  <1>3. \A i \in DOMAIN r : i \in Nat /\ i >= 1
    BY <1>2
  <1>4. \A i, j \in DOMAIN r : i < j => i + 1 < j + 1
    BY <1>3
  <1>5. Sorted(q) => Sorted(r)
    BY <1>2, <1>4 DEF Sorted
  <1>6. Apart(q) => Apart(r)
    BY <1>2, <1>4 DEF Apart
  <1>7. ASSUME Linked(q), NEW i \in DOMAIN r
        PROVE  /\ i # 1 /\ r[i].do \in Led => r[i - 1].do \in Before(r[i].do)
               /\ After(r, i)
    <2>1. i + 1 \in DOMAIN q /\ r[i] = q[i + 1] /\ i \in Nat /\ i >= 1 /\ (i + 1) - 1 = i /\ i + 1 # 1
      BY <1>2, <1>3
    <2>2. /\ i + 1 # 1 /\ q[i + 1].do \in Led => q[(i + 1) - 1].do \in Before(q[i + 1].do)
          /\ After(q, i + 1)
      BY <1>7, <2>1 DEF Linked
    <2>3. i # 1 => i - 1 \in DOMAIN r /\ r[i - 1] = q[i]
      BY <1>2, <2>1
    <2>4. \A j \in Nat : \A d : Leads(q, j + 1, d) => Leads(r, j, d)
      <3>1. SUFFICES ASSUME NEW j \in Nat, NEW d, Leads(q, j + 1, d) PROVE Leads(r, j, d)
        OBVIOUS
      <3>2. (j + 1) + 1 \in DOMAIN q \ {1} /\ ((j + 1) + 1) - 1 = j + 1 /\ q[(j + 1) + 1].do = d
        BY <3>1 DEF Leads
      <3>3. j + 1 \in DOMAIN r /\ r[j + 1] = q[(j + 1) + 1]
        BY <1>2, <3>2
      <3>4. QED BY <3>2, <3>3 DEF Leads
    <2>5. After(r, i)
      BY <2>1, <2>2, <2>4 DEF After
    <2>6. QED BY <2>1, <2>2, <2>3, <2>5
  <1>8. QED BY <1>1, <1>5, <1>6, <1>7 DEF Linked

LEMMA CoveredTail ==
    ASSUME NEW S, NEW q \in Seq(S), q # <<>>
    PROVE  /\ \A s : Selected(q, s) <=> (Head(q).do = "select" /\ Head(q).at = s) \/ Selected(Tail(q), s)
           /\ \A d, w : Covered(q, d, w) <=>
                  (Head(q).do = d /\ w \in Head(q).at..(Head(q).at + Head(q).n - 1)) \/ Covered(Tail(q), d, w)
  <1>1. PICK r : r = Tail(q)
    OBVIOUS
  <1>2. /\ DOMAIN q = 1..Len(q) /\ Len(q) \in Nat \ {0} /\ Head(q) = q[1] /\ 1 \in DOMAIN q
        /\ \A i \in DOMAIN r : i + 1 \in DOMAIN q /\ r[i] = q[i + 1]
        /\ \A i \in DOMAIN q \ {1} : i - 1 \in DOMAIN r /\ r[i - 1] = q[i]
    BY <1>1, TailAt
  <1>3. \A s : Selected(q, s) <=> (q[1].do = "select" /\ q[1].at = s) \/ Selected(r, s)
    BY <1>2 DEF Selected
  <1>4. \A d, w : Covered(q, d, w) <=>
            (q[1].do = d /\ w \in q[1].at..(q[1].at + q[1].n - 1)) \/ Covered(r, d, w)
    BY <1>2 DEF Covered
  <1>5. QED BY <1>1, <1>2, <1>3, <1>4

\* What comes next, and what is behind, follows from what the transfer is.
Follows(t) ==
    /\ \A D : Has(todo, D) <=> t.do \in D \/ Has(todo', D)
    /\ \A s : Selected(todo, s) <=> (t.do = "select" /\ t.at = s) \/ Selected(todo', s)
    /\ \A d, w : Covered(todo, d, w) <=>
           (t.do = d /\ w \in t.at..(t.at + t.n - 1)) \/ Covered(todo', d, w)

Leading(t) ==
    /\ \A d \in Led : Due(d)' => t.do \in Before(d)
    /\ \A d : Due(d)' => Has(todo', {d})
    /\ t.do = "key2" => Due("unlocked")'
    /\ t.do = "start" => Due("busy")'
    /\ t.do = "select" => Due("readCr")' /\ Leads(todo', 1, "start")
    /\ t.do = "readCr" /\ Leads(todo, 1, "start") => Due("start")'

Passed(t) == \A d : Has(todo', {d}) /\ Phase(d) # 0 => Phase(t.do) <= Phase(d)

LEMMA TurnFollows ==
    ASSUME Typed, op = "flash", Advances, NEW t, t = Head(todo)
    PROVE  Follows(t) /\ t \in Work("flash")
  <1>1. todo \in Seq(Work("flash")) /\ todo # <<>> /\ todo' = Tail(todo)
    BY DEF Typed, Advances, Turn, Misses
  <1>2. t \in Work("flash")
    BY <1>1, TailAt
  <1>3. PICK q : q = todo
    OBVIOUS
  <1>4. PICK r : r = Tail(q)
    OBVIOUS
  <1>5. \A D : (Has(q, D) => t.do \in D \/ Has(r, D)) /\ (Has(r, D) => Has(q, D))
    BY <1>1, <1>3, <1>4, HasTail
  <1>6. \A D : t.do \in D => Has(q, D)
    <2>1. 1 \in DOMAIN q /\ t = q[1]
      BY <1>1, <1>3, TailAt
    <2>2. QED BY <2>1 DEF Has
  <1>7. /\ \A s : Selected(q, s) <=> (t.do = "select" /\ t.at = s) \/ Selected(r, s)
        /\ \A d, w : Covered(q, d, w) <=>
               (t.do = d /\ w \in t.at..(t.at + t.n - 1)) \/ Covered(r, d, w)
    BY <1>1, <1>3, <1>4, CoveredTail
  <1>8. QED BY <1>1, <1>2, <1>3, <1>4, <1>5, <1>6, <1>7 DEF Follows

LEMMA TurnLeads ==
    ASSUME Typed, op = "flash", ok, Shape, Advances, NEW t, t = Head(todo)
    PROVE  Leading(t) /\ Passed(t) /\ Shape'
  <1>1. /\ todo \in Seq(Work("flash")) /\ todo # <<>> /\ todo' = Tail(todo) /\ op' = op /\ ok' = ok
        /\ Sorted(todo) /\ Linked(todo) /\ Apart(todo)
    BY DEF Typed, Advances, Turn, Misses, Shape
  <1>2. Shape'
    BY <1>1, ShapeTail DEF Shape
  <1>3. PICK q : q = todo
    OBVIOUS
  <1>4. PICK r : r = Tail(q)
    OBVIOUS
  <1>5. /\ Len(q) \in Nat \ {0} /\ t = q[1] /\ r \in Seq(Work("flash"))
        /\ DOMAIN q = 1..Len(q) /\ DOMAIN r = 1..(Len(q) - 1)
        /\ \A i \in DOMAIN r : i + 1 \in DOMAIN q /\ r[i] = q[i + 1]
        /\ \A i \in DOMAIN q \ {1} : i - 1 \in DOMAIN r /\ r[i - 1] = q[i]
    BY <1>1, <1>3, <1>4, TailAt
  <1>6. r # <<>> => 1 \in DOMAIN r /\ Head(r) = r[1] /\ r[1] = q[2] /\ 2 \in DOMAIN q
    BY <1>5, TailAt
  <1>7. 1 \in DOMAIN r => r # <<>>
    OBVIOUS
  <1>8. \A d : r # <<>> /\ Head(r).do = d <=> Leads(q, 1, d)
    BY <1>5, <1>6, <1>7 DEF Leads
  <1>9. \A d \in Led : Leads(q, 1, d) => t.do \in Before(d)
    <2>1. SUFFICES ASSUME NEW d \in Led, Leads(q, 1, d) PROVE t.do \in Before(d)
      OBVIOUS
    <2>2. 2 \in DOMAIN q /\ q[2].do = d /\ 2 # 1 /\ 2 - 1 = 1
      BY <2>1 DEF Leads
    <2>3. q[2 - 1].do \in Before(q[2].do)
      BY <1>1, <1>3, <2>1, <2>2 DEF Linked
    <2>4. QED BY <1>5, <2>2, <2>3
  <1>10. After(q, 1)
    BY <1>1, <1>3, <1>5 DEF Linked
  <1>11. \A d : Leads(q, 1 + 1, d) => Leads(r, 1, d)
    BY <1>5 DEF Leads
  <1>12. \A d : Due(d)' <=> Leads(q, 1, d)
    BY <1>1, <1>3, <1>4, <1>8 DEF Due
  <1>13. \A d : Leads(q, 1, d) => Has(r, {d})
    BY <1>5 DEF Leads, Has
  <1>14. Leading(t)
    BY <1>1, <1>3, <1>4, <1>5, <1>9, <1>10, <1>11, <1>12, <1>13 DEF Leading, After
  <1>15. ASSUME NEW d, Has(r, {d}), Phase(d) # 0 PROVE Phase(t.do) <= Phase(d)
    <2>1. PICK i \in DOMAIN r : r[i].do = d
      BY <1>15 DEF Has
    <2>2. i + 1 \in DOMAIN q /\ q[i + 1].do = d /\ 1 \in DOMAIN q /\ 1 < i + 1
      BY <1>5, <2>1
    <2>3. QED BY <1>1, <1>3, <1>5, <1>15, <2>2 DEF Sorted
  <1>16. QED BY <1>1, <1>2, <1>3, <1>4, <1>14, <1>15 DEF Passed

-----------------------------------------------------------------------------
(* What a flash operation that nobody disturbs relies on *)

Working == op = "flash" /\ ok /\ Alone

\* A processor that is waited for has been halted, or reset with the catch on.
Held == (Due("halted") => core = "halt") /\ (Due("reset") => catching)

\* FLASH_CR is written as it was read just before; the second key follows the first.
JustRead ==
    /\ \A d \in Writes \cup {"key1"} : Due(d) => seen = cr
    /\ Due("key2") => IF seen.lock THEN keys \in {"one", "jammed"} ELSE ~cr.lock
    /\ Due("unlocked") => (cr.lock => keys = "jammed")

\* Once it has been checked, the controller stays unlocked to the last write.
Open == ~Has(todo, {"unlocked"}) /\ Has(todo, Writes \cup {"program"}) => ~cr.lock

\* Old errors have been cleared, and no block is programmed without PG.
Calm == ~Has(todo, {"clearSr"}) => ~err
Armed == Has(todo, {"program"}) => Has(todo, {"pg"}) \/ (cr.pg /\ ~Has(todo, {"key1", "key2"}))

\* Once an old erase is over, the controller is only busy where it is waited for.
Resting ==
    /\ busy => Has(todo, {"clearSr"}) \/ Due("busy")
    /\ Due("busy") => ~Has(todo, {"clearSr"})

Smooth == Held /\ JustRead /\ Open /\ Calm /\ Armed /\ Resting

\* The step of an operation that goes on.
Going(t) == Typed /\ Working /\ Smooth /\ t \in Work("flash") /\ Acts(t) /\ Follows(t) /\ Leading(t) /\ Passed(t)

LEMMA HeldStep ==
    ASSUME NEW t, Going(t), Due(t.do)
    PROVE  Held'
  <1>1. ActsOnCore(t.do) /\ Leading(t) /\ Held
    BY DEF Going, Acts, Smooth
  <1>2. "halted" \in Led /\ "reset" \in Led
    BY DEF Led
  <1>3. Due("halted")' => t.do \in {"halt", "reset"}
    BY <1>1, <1>2 DEF Leading, Before
  <1>4. Due("reset")' => t.do = "catch"
    BY <1>1, <1>2 DEF Leading, Before
  <1>5. Due("halted")' => core' = "halt"
    BY <1>1, <1>3 DEF ActsOnCore, Held
  <1>6. Due("reset")' => catching'
    BY <1>1, <1>4 DEF ActsOnCore
  <1>7. QED BY <1>5, <1>6 DEF Held

LEMMA JustReadStep ==
    ASSUME NEW t, Going(t), Due(t.do)
    PROVE  JustRead'
  <1>1. ActsOnLock(t.do) /\ ActsOnCr(t) /\ Leading(t) /\ JustRead
    BY DEF Going, Acts, Smooth
  <1>2. ASSUME NEW d \in Writes \cup {"key1"}, Due(d)' PROVE seen' = cr'
    <2>1. d \in Led /\ Before(d) = {"readCr"}
      BY <1>2 DEF Led, Before, Writes
    <2>2. t.do = "readCr"
      BY <1>1, <1>2, <2>1 DEF Leading
    <2>3. t.do \notin Writes \cup {"lock", "key1", "key2", "reset"}
      BY <2>2 DEF Writes
    <2>4. QED BY <1>1, <2>2, <2>3 DEF ActsOnLock, ActsOnCr
  <1>3. ASSUME Due("key2")' PROVE IF seen'.lock THEN keys' \in {"one", "jammed"} ELSE ~cr'.lock
    <2>1. t.do = "key1"
      BY <1>1, <1>3 DEF Leading, Led, Before
    <2>2. seen = cr
      BY <1>1, <2>1 DEF JustRead
    <2>3. QED BY <1>1, <2>1, <2>2 DEF ActsOnLock
  <1>4. ASSUME Due("unlocked")' PROVE cr'.lock => keys' = "jammed"
    <2>1. t.do = "key2"
      BY <1>1, <1>4 DEF Leading, Led, Before
    <2>2. IF seen.lock THEN keys \in {"one", "jammed"} ELSE ~cr.lock
      BY <1>1, <2>1 DEF JustRead
    <2>3. QED BY <1>1, <2>1, <2>2 DEF ActsOnLock
  <1>5. QED BY <1>2, <1>3, <1>4 DEF JustRead

\* What is behind is behind.
LEMMA PhasesOver ==
    ASSUME NEW t, Follows(t), Passed(t)
    PROVE  /\ Phase(t.do) > 1 => ~Has(todo', {"key1", "key2", "unlocked", "clearSr"})
                              /\ (t.do \notin {"key1", "key2", "unlocked", "clearSr"} =>
                                     ~Has(todo, {"unlocked"}) /\ ~Has(todo, {"clearSr"}))
           /\ Phase(t.do) > 2 => ~Has(todo', {"select", "start"})
           /\ Phase(t.do) > 3 => ~Has(todo', {"psize", "pg"})
           /\ Phase(t.do) > 4 => ~Has(todo', {"program"})
           /\ Phase(t.do) > 5 => ~Has(todo', Writes \cup {"program"})
  <1>1. /\ \A d \in {"key1", "key2", "unlocked", "clearSr"} : Phase(d) = 1
        /\ \A d \in {"select", "start"} : Phase(d) = 2
        /\ \A d \in {"psize", "pg"} : Phase(d) = 3
        /\ Phase("program") = 4 /\ Phase("unpg") = 5
    BY DEF Phase
  <1>2. Phase(t.do) \in Nat
    BY PhaseNat
  <1>3. ASSUME NEW D, Has(todo', D), NEW n \in Nat \ {0}, \A d \in D : Phase(d) # 0 /\ Phase(d) <= n
        PROVE  ~(Phase(t.do) > n)
    <2>1. PICK i \in DOMAIN (todo') : (todo')[i].do \in D
      BY <1>3 DEF Has
    <2>2. PICK d \in D : Has(todo', {d})
      BY <2>1 DEF Has
    <2>3. Phase(t.do) <= Phase(d) /\ Phase(d) <= n /\ Phase(d) \in Nat
      BY <1>3, <2>2, PhaseNat DEF Passed
    <2>4. QED BY <1>2, <2>3
  <1>4. ASSUME Phase(t.do) > 1 PROVE ~Has(todo', {"key1", "key2", "unlocked", "clearSr"})
    BY <1>1, <1>3, <1>4
  <1>5. ASSUME Phase(t.do) > 1, NEW d \in {"unlocked", "clearSr"}, t.do # d PROVE ~Has(todo, {d})
    <2>1. ~Has(todo', {d})
      BY <1>4, <1>5 DEF Has
    <2>2. QED BY <1>5, <2>1 DEF Follows
  <1>6. Phase(t.do) > 2 => ~Has(todo', {"select", "start"})
    BY <1>1, <1>3
  <1>7. Phase(t.do) > 3 => ~Has(todo', {"psize", "pg"})
    BY <1>1, <1>3
  <1>8. Phase(t.do) > 4 => ~Has(todo', {"program"})
    BY <1>1, <1>3
  <1>9. Phase(t.do) > 5 => ~Has(todo', Writes \cup {"program"})
    <2>1. \A d \in Writes \cup {"program"} : Phase(d) # 0 /\ Phase(d) <= 5
      BY <1>1 DEF Writes
    <2>2. QED BY <1>3, <2>1
  <1>10. QED BY <1>4, <1>5, <1>6, <1>7, <1>8, <1>9

\* A due write or block finds the controller unlocked.
LEMMA OpenNow ==
    ASSUME NEW t, Going(t), t.do \in {"select", "start", "psize", "pg", "unpg", "program"}
    PROVE  ~cr.lock
  <1>1. Open /\ Follows(t) /\ Passed(t)
    BY DEF Going, Smooth
  <1>2. Phase(t.do) > 1 /\ t.do \notin {"key1", "key2", "unlocked", "clearSr"}
    BY DEF Phase
  <1>3. ~Has(todo, {"unlocked"})
    BY <1>1, <1>2, PhasesOver
  <1>4. t.do \in Writes \cup {"program"}
    BY DEF Writes
  <1>5. Has(todo, Writes \cup {"program"})
    BY <1>1, <1>4 DEF Follows
  <1>6. QED BY <1>1, <1>3, <1>5 DEF Open

\* It writes what was read, and its own bits.
LEMMA WritesCr ==
    ASSUME NEW t, Going(t), Due(t.do), t.do \in Writes
    PROVE  /\ ~busy /\ seen = cr /\ cr \in Registers /\ cr' = Value(t) /\ ~cr'.lock
           /\ t.do = "select" => cr'.ser /\ cr'.snb = t.at
           /\ t.do = "start" => cr' = cr
           /\ t.do = "pg" => cr'.pg
           /\ t.do # "unpg" => (cr.pg => cr'.pg)
  <1>1. ActsOnCr(t) /\ JustRead /\ Typed
    BY DEF Going, Acts, Smooth
  <1>2. t.do \in {"select", "start", "psize", "pg", "unpg"}
    BY DEF Writes
  <1>3. ~cr.lock
    BY <1>2, OpenNow
  <1>4. ~busy /\ cr' = Value(t) /\ seen = cr
    BY <1>1, <1>3 DEF ActsOnCr, JustRead
  <1>5. cr \in Registers
    BY <1>1 DEF Typed
  <1>6. Value(t) = CASE t.do = "select" -> [cr EXCEPT !.ser = TRUE, !.snb = t.at]
                     [] t.do = "pg" -> [cr EXCEPT !.pg = TRUE]
                     [] t.do = "unpg" -> [cr EXCEPT !.pg = FALSE]
                     [] OTHER -> cr
    BY <1>2, <1>4 DEF Value
  <1>7. QED BY <1>2, <1>3, <1>4, <1>5, <1>6 DEF Registers

LEMMA OpenStep ==
    ASSUME NEW t, Going(t), Due(t.do)
    PROVE  Open'
  <1>1. ActsOnLock(t.do) /\ ActsOnCr(t) /\ Leading(t) /\ Follows(t) /\ Passed(t) /\ Open /\ JustRead
    BY DEF Going, Acts, Smooth
  <1>2. SUFFICES ASSUME ~Has(todo', {"unlocked"}), Has(todo', Writes \cup {"program"}) PROVE ~cr'.lock
    BY DEF Open
  <1>3. CASE t.do = "unlocked"
    <2>1. t.do \notin Writes \cup {"lock", "key1", "key2", "reset"}
      BY <1>3 DEF Writes
    <2>2. QED BY <1>1, <1>3, <2>1 DEF ActsOnLock, ActsOnCr
  <1>4. CASE t.do # "unlocked"
    <2>1. ~cr.lock
      BY <1>1, <1>2, <1>4 DEF Follows, Open
    <2>2. CASE t.do \in Writes
      BY <2>2, WritesCr
    <2>3. CASE t.do = "key1"
      <3>1. seen = cr
        BY <1>1, <2>3 DEF JustRead
      <3>2. QED BY <1>1, <2>1, <2>3, <3>1 DEF ActsOnLock
    <2>4. CASE t.do = "key2"
      <3>1. Due("unlocked")'
        BY <1>1, <2>4 DEF Leading
      <3>2. Has(todo', {"unlocked"})
        BY <1>1, <3>1 DEF Leading
      <3>3. QED BY <1>2, <3>2
    <2>5. CASE t.do \in {"lock", "reset"}
      <3>1. Phase(t.do) > 5
        BY <2>5 DEF Phase
      <3>2. QED BY <1>1, <1>2, <3>1, PhasesOver
    <2>6. CASE t.do \notin Writes \cup {"lock", "key1", "key2", "reset"}
      BY <1>1, <2>1, <2>6 DEF ActsOnCr
    <2>7. QED BY <2>2, <2>3, <2>4, <2>5, <2>6
  <1>5. QED BY <1>3, <1>4

LEMMA PgSet ==
    ASSUME NEW t, Going(t), t.do = "program"
    PROVE  cr.pg
  <1>1. Armed /\ Follows(t) /\ Passed(t)
    BY DEF Going, Smooth
  <1>2. Phase(t.do) > 3
    BY DEF Phase
  <1>3. ~Has(todo', {"psize", "pg"})
    BY <1>1, <1>2, PhasesOver
  <1>4. ~Has(todo', {"pg"})
    BY <1>3 DEF Has
  <1>5. ~Has(todo, {"pg"}) /\ Has(todo, {"program"})
    BY <1>1, <1>4 DEF Follows
  <1>6. QED BY <1>1, <1>5 DEF Armed

LEMMA CalmStep ==
    ASSUME NEW t, Going(t)
    PROVE  Calm'
  <1>1. ActsOnStatus(t.do) /\ Follows(t) /\ Calm
    BY DEF Going, Acts, Smooth
  <1>2. SUFFICES ASSUME ~Has(todo', {"clearSr"}) PROVE ~err'
    BY DEF Calm
  <1>3. CASE t.do \in {"clearSr", "reset"}
    BY <1>1, <1>3 DEF ActsOnStatus
  <1>4. CASE t.do \notin {"clearSr", "reset"}
    <2>1. ~err
      BY <1>1, <1>2, <1>4 DEF Follows, Calm
    <2>2. t.do = "program" => cr.pg
      BY PgSet
    <2>3. QED BY <1>1, <1>4, <2>1, <2>2 DEF ActsOnStatus
  <1>5. QED BY <1>3, <1>4

LEMMA ArmedStep ==
    ASSUME NEW t, Going(t), Due(t.do)
    PROVE  Armed'
  <1>1. ActsOnCr(t) /\ Follows(t) /\ Passed(t) /\ Armed
    BY DEF Going, Acts, Smooth
  <1>2. SUFFICES ASSUME Has(todo', {"program"}), ~Has(todo', {"pg"})
        PROVE  cr'.pg /\ ~Has(todo', {"key1", "key2"})
    BY DEF Armed
  <1>3. CASE t.do = "pg"
    <2>1. cr'.pg
      BY <1>3, WritesCr DEF Writes
    <2>2. Phase(t.do) > 1
      BY <1>3 DEF Phase
    <2>3. ~Has(todo', {"key1", "key2", "unlocked", "clearSr"})
      BY <1>1, <2>2, PhasesOver
    <2>4. QED BY <2>1, <2>3 DEF Has
  <1>4. CASE t.do # "pg"
    <2>1. cr.pg /\ ~Has(todo, {"key1", "key2"})
      BY <1>1, <1>2, <1>4 DEF Follows, Armed
    <2>2. t.do \notin {"key1", "key2"} /\ ~Has(todo', {"key1", "key2"})
      BY <1>1, <2>1 DEF Follows
    <2>3. ~(Phase(t.do) > 4)
      BY <1>1, <1>2, PhasesOver
    <2>4. t.do \notin {"unpg", "lock", "reset"}
      BY <2>3 DEF Phase
    <2>5. CASE t.do \in Writes
      BY <2>1, <2>2, <2>4, <2>5, WritesCr
    <2>6. CASE t.do \notin Writes
      <3>1. cr' = cr
        BY <1>1, <2>2, <2>4, <2>6 DEF ActsOnCr
      <3>2. QED BY <2>1, <2>2, <3>1
    <2>7. QED BY <2>5, <2>6
  <1>5. QED BY <1>3, <1>4

LEMMA RestingStep ==
    ASSUME NEW t, Going(t), Due(t.do)
    PROVE  Resting'
  <1>1. ActsOnStatus(t.do) /\ Follows(t) /\ Passed(t) /\ Leading(t) /\ Resting
    BY DEF Going, Acts, Smooth
  <1>2. ASSUME busy' PROVE Has(todo', {"clearSr"}) \/ Due("busy")'
    <2>1. CASE t.do = "start"
      BY <1>1, <2>1 DEF Leading
    <2>2. CASE t.do # "start"
      <3>1. t.do # "reset" /\ busy /\ t.do \notin {"clearSr", "busy"}
        BY <1>1, <1>2, <2>2 DEF ActsOnStatus
      <3>2. ~Due("busy")
        BY <3>1 DEF Due
      <3>3. QED BY <1>1, <3>1, <3>2 DEF Resting, Follows
    <2>3. QED BY <2>1, <2>2
  <1>3. ASSUME Due("busy")' PROVE ~Has(todo', {"clearSr"})
    <2>1. t.do \in {"start", "program"}
      BY <1>1, <1>3 DEF Leading, Led, Before
    <2>2. Phase(t.do) > 1
      BY <2>1 DEF Phase
    <2>3. ~Has(todo', {"key1", "key2", "unlocked", "clearSr"})
      BY <1>1, <2>2, PhasesOver
    <2>4. QED BY <2>3 DEF Has
  <1>4. QED BY <1>2, <1>3 DEF Resting

-----------------------------------------------------------------------------
(* What becomes of the words of the image *)

Of(w) == req.img[w - req.at + 1]

\* An erase of sector s has been told, and not begun; or is under way.
Pending(s) == cr.ser /\ cr.snb = s /\ (Due("start") \/ (Due("readCr") /\ Leads(todo, 1, "start")))
Running(s) == busy /\ cr.snb = s /\ Due("busy")

\* A word is programmed when its sector has been erased, and stays afterwards.
Clean(w) ==
    cells[w] = "ff" \/ \E s \in Sectors : w \in Sector(s) /\ (Selected(todo, s) \/ Pending(s) \/ Running(s))
There(w) ==
    cells[w] = Of(w) /\ ~Covered(todo, "program", w) /\ ~Has(todo, {"select", "start"}) /\ ~busy
Placed(w) == There(w) \/ ((Covered(todo, "program", w) \/ Of(w) = "ff") /\ Clean(w))
Placing == \A w \in Area(req) : Placed(w)

\* A word that the transfer does not program or reset keeps its value.
LEMMA CellStays ==
    ASSUME NEW t, Going(t), NEW w \in Words,
           ~(t.do = "program" /\ w \in t.at..(t.at + t.n - 1)), t.do = "reset" => ~busy
    PROVE  cells'[w] = cells[w]
  <1>1. ActsOnCells(t)
    BY DEF Going, Acts
  <1>2. CASE t.do = "program"
    <2>1. cells' = Written(t)
      BY <1>1, <1>2, PgSet DEF ActsOnCells
    <2>2. QED BY <1>2, <2>1 DEF Written
  <1>3. CASE t.do # "program"
    BY <1>1, <1>3 DEF ActsOnCells
  <1>4. QED BY <1>2, <1>3

LEMMA ResetRests ==
    ASSUME NEW t, Going(t), Due(t.do), t.do = "reset"
    PROVE  ~busy
  <1>1. Resting /\ Follows(t) /\ Passed(t)
    BY DEF Going, Smooth
  <1>2. ~Due("busy")
    BY DEF Due
  <1>3. Phase(t.do) > 1 /\ t.do \notin {"key1", "key2", "unlocked", "clearSr"}
    BY DEF Phase
  <1>4. ~Has(todo, {"clearSr"})
    BY <1>1, <1>3, PhasesOver
  <1>5. QED BY <1>1, <1>2, <1>4 DEF Resting

\* An erase goes on.
LEMMA CleanStep ==
    ASSUME NEW t, Going(t), Due(t.do), NEW w \in Words,
           Clean(w), ~(t.do = "program" /\ w \in t.at..(t.at + t.n - 1))
    PROVE  Clean(w)'
  <1>1. ActsOnCr(t) /\ ActsOnStatus(t.do) /\ Follows(t) /\ Leading(t)
    BY DEF Going, Acts, Smooth
  <1>2. CASE cells[w] = "ff"
    <2>1. cells'[w] = cells[w]
      BY CellStays, ResetRests
    <2>2. QED BY <1>2, <2>1 DEF Clean
  <1>3. ASSUME NEW s \in Sectors, w \in Sector(s), Selected(todo, s) \/ Pending(s) \/ Running(s)
        PROVE  Selected(todo', s) \/ Pending(s)' \/ Running(s)'
    <2>1. CASE Selected(todo, s)
      <3>1. CASE t.do = "select" /\ t.at = s
        <4>1. cr'.ser /\ cr'.snb = s
          BY <3>1, WritesCr DEF Writes
        <4>2. Due("readCr")' /\ Leads(todo', 1, "start")
          BY <1>1, <3>1 DEF Leading
        <4>3. QED BY <4>1, <4>2 DEF Pending
      <3>2. CASE Selected(todo', s)
        BY <3>2
      <3>3. QED BY <1>1, <2>1, <3>1, <3>2 DEF Follows
    <2>2. CASE Pending(s)
      <3>1. t.do = "start" \/ (t.do = "readCr" /\ Leads(todo, 1, "start"))
        BY <2>2 DEF Pending, Due
      <3>2. CASE t.do = "start"
        <4>1. cr' = cr /\ seen = cr /\ ~cr'.lock
          BY <3>2, WritesCr DEF Writes
        <4>2. busy' /\ Due("busy")'
          BY <1>1, <2>2, <3>2, <4>1 DEF ActsOnStatus, Leading, Pending
        <4>3. QED BY <2>2, <4>1, <4>2 DEF Pending, Running
      <3>3. CASE t.do = "readCr" /\ Leads(todo, 1, "start")
        <4>1. t.do \notin Writes \cup {"lock", "key1", "key2", "reset"}
          BY <3>3 DEF Writes
        <4>2. cr' = cr /\ Due("start")'
          BY <1>1, <3>3, <4>1 DEF ActsOnCr, Leading
        <4>3. QED BY <2>2, <4>2 DEF Pending
      <3>4. QED BY <3>1, <3>2, <3>3
    <2>3. CASE Running(s)
      BY <1>1, <2>3 DEF Running, Due, ActsOnStatus
    <2>4. QED BY <1>3, <2>1, <2>2, <2>3
  <1>4. ASSUME NEW s \in Sectors, w \in Sector(s), Selected(todo, s) \/ Pending(s) \/ Running(s)
        PROVE  Clean(w)'
    BY <1>3, <1>4 DEF Clean
  <1>5. QED BY <1>2, <1>4 DEF Clean

\* A due block finds its words erased.
LEMMA ErasedNow ==
    ASSUME NEW t, Going(t), Due(t.do), t.do \in {"program", "verify"}, NEW w, Clean(w)
    PROVE  cells[w] = "ff"
  <1>1. Follows(t) /\ Passed(t) /\ Phase(t.do) > 2
    BY DEF Going, Phase
  <1>2. ~Has(todo', {"select", "start"})
    BY <1>1, PhasesOver
  <1>3. ASSUME NEW s PROVE ~Selected(todo, s)
    <2>1. ~Selected(todo', s)
      BY <1>2 DEF Selected, Has
    <2>2. QED BY <1>1, <2>1 DEF Follows
  <1>4. \A s : ~Pending(s) /\ ~Running(s)
    BY DEF Pending, Running, Due
  <1>5. QED BY <1>3, <1>4 DEF Clean

LEMMA PlacedStep ==
    ASSUME NEW t, Going(t), Due(t.do), NEW w \in Words,
           Apart(todo), todo' = Tail(todo), todo \in Seq(Work("flash")), req' = req, t = Head(todo),
           Placed(w)
    PROVE  Placed(w)'
  <1>1. ActsOnStatus(t.do) /\ Follows(t) /\ Passed(t)
    BY DEF Going, Acts, Smooth
  <1>2. Of(w)' = Of(w)
    BY DEF Of
  <1>3. CASE t.do = "program" /\ w \in t.at..(t.at + t.n - 1)
    <2>1. Phase(t.do) > 2
      BY <1>3 DEF Phase
    <2>2. ~Has(todo', {"select", "start"})
      BY <1>1, <2>1, PhasesOver
    <2>3. ~busy'
      BY <1>1, <1>3 DEF ActsOnStatus
    <2>4. Covered(todo, "program", w)
      BY <1>1, <1>3 DEF Follows
    <2>5. cells[w] = "ff"
      BY <1>3, <2>4, ErasedNow DEF Placed, There
    <2>6. cells' = Written(t)
      <3>1. ActsOnCells(t)
        BY DEF Going, Acts
      <3>2. QED BY <1>3, <3>1, PgSet DEF ActsOnCells
    <2>7. cells'[w] = Programmed("ff", Of(w))
      BY <1>3, <2>5, <2>6 DEF Written, Of
    <2>8. cells'[w] = Of(w)
      BY <2>7 DEF Programmed
    <2>9. ~Covered(todo', "program", w)
      <3>1. PICK q : q = todo
        OBVIOUS
      <3>2. PICK r : r = Tail(q)
        OBVIOUS
      <3>3. /\ q \in Seq(Work("flash")) /\ q # <<>> /\ t = q[1] /\ 1 \in DOMAIN q
            /\ \A i \in DOMAIN r : i + 1 \in DOMAIN q /\ r[i] = q[i + 1] /\ 1 < i + 1
        BY <3>1, <3>2, TailAt DEF Due
      <3>4. ASSUME NEW i \in DOMAIN q PROVE q[i].at \in Int /\ q[i].n \in Int
        <4>1. q[i] \in Work("flash")
          BY <3>3, ElementAt
        <4>2. QED BY <4>1 DEF Work, Made
      <3>5. \A i \in DOMAIN r : r[i].do = "program" => t.at + t.n <= r[i].at
        BY <1>3, <3>1, <3>3 DEF Apart
      <3>6. t.at \in Int /\ t.n \in Int /\ \A i \in DOMAIN r : r[i].at \in Int /\ r[i].n \in Int
        BY <3>3, <3>4
      <3>7. ~Covered(r, "program", w)
        BY <1>3, <3>5, <3>6 DEF Covered
      <3>8. QED BY <3>1, <3>2, <3>7
    <2>10. There(w)'
      BY <1>2, <2>2, <2>3, <2>8, <2>9 DEF There
    <2>11. QED BY <2>10 DEF Placed
  <1>4. CASE ~(t.do = "program" /\ w \in t.at..(t.at + t.n - 1)) /\ There(w)
    <2>1. ~busy /\ t.do \notin {"select", "start"} /\ ~Has(todo', {"select", "start"})
          /\ ~Covered(todo', "program", w)
      BY <1>1, <1>4 DEF There, Follows
    <2>2. ~busy'
      BY <1>1, <2>1 DEF ActsOnStatus
    <2>3. cells'[w] = cells[w]
      BY <1>4, <2>1, CellStays
    <2>4. There(w)'
      BY <1>2, <1>4, <2>1, <2>2, <2>3 DEF There
    <2>5. QED BY <2>4 DEF Placed
  <1>5. CASE ~(t.do = "program" /\ w \in t.at..(t.at + t.n - 1)) /\ ~There(w)
    <2>1. (Covered(todo, "program", w) \/ Of(w) = "ff") /\ Clean(w)
      BY <1>5 DEF Placed
    <2>2. Covered(todo', "program", w) \/ Of(w)' = "ff"
      BY <1>1, <1>2, <1>5, <2>1 DEF Follows
    <2>3. Clean(w)'
      BY <1>5, <2>1, CleanStep
    <2>4. QED BY <2>2, <2>3 DEF Placed
  <1>6. QED BY <1>3, <1>4, <1>5

\* What is read back is there: whatever has disturbed the board since.
Compared(w) ==
    Covered(todo, "verify", w) \/ (cells[w] = Of(w) /\ ~Has(todo, {"start", "program"}) /\ ~busy)
Comparing == op = "flash" /\ ok /\ req.verify => \A w \in Area(req) : Compared(w)

\* A flash operation gives up, undisturbed, only for a jammed unlock sequence.
Jams == op = "flash" /\ ~ok /\ undisturbed /\ failed.by # "fault" => keys = "jammed"

\* The image is the file's, in the window.
FromFile ==
    op = "flash" =>
        /\ req.headers \in Headers /\ Loaded(req.headers) # {}
        /\ req.at = ElfToImage(req.headers).at /\ req.img = ElfToImage(req.headers).img
        /\ Area(req) \subseteq Window

Flashing ==
    /\ Typed /\ faults \in Nat /\ Shape /\ (Working => Smooth /\ Placing)
    /\ Comparing /\ Jams /\ FromFile

LEMMA InArea ==
    ASSUME NEW r, IsImage(r), InWindow(r)
    PROVE  Area(r) \subseteq Window
  <1>1. r.at \in Nat /\ Len(r.img) \in Nat \ {0} /\ Total \in Nat
    BY Layout DEF IsImage
  <1>2. r.at \in 0..(Total - 1) /\ r.at + Len(r.img) - 1 \in 0..(Total - 1)
    BY DEF InWindow, Window
  <1>3. ASSUME NEW w \in r.at..(r.at + Len(r.img) - 1) PROVE w \in 0..(Total - 1)
    BY <1>1, <1>2
  <1>4. QED BY <1>3 DEF Area, Window

LEMMA WindowWords == Window \subseteq Words
  <1>1. Total \in Nat /\ Bank2 \in Nat
    BY Layout, FlashAssumption
  <1>2. 0..(Total - 1) \subseteq 0..(Total + Bank2 - 1)
    BY <1>1
  <1>3. QED BY <1>2 DEF Window, Words

\* A flash operation that begins.
Fresh ==
    /\ op' = "flash" /\ ok' /\ IsImage(req') /\ FromFile'
    /\ Shape' /\ Complete(todo', req') /\ \A d \in Led : ~Due(d)'
    /\ UNCHANGED controller

LEMMA FlashStarts ==
    ASSUME NEW file \in Files, Flash(file)
    PROVE  Fresh
  <1>1. PICK image : image = ElfToImage(file.headers)
    OBVIOUS
  <1>2. PICK r : r = [at |-> image.at, img |-> image.img, headers |-> file.headers, verify |-> file.verify]
    OBVIOUS
  <1>3. r.at = image.at /\ r.img = image.img /\ r.headers = file.headers
    BY <1>2
  <1>4. IsImage(r) /\ r.headers \in Headers /\ Loaded(r.headers) # {} /\ Flashes(r)
    BY <1>1, <1>2, <1>3, FileRight DEF Flash
  <1>5. InWindow(r) /\ Starts("flash", FlashScript(r)) /\ req' = r /\ UNCHANGED controller
    BY <1>4 DEF Flashes, Begin
  <1>6. op' = "flash" /\ todo' = FlashScript(r) /\ ok'
    BY <1>5 DEF Starts
  <1>7. Area(r) \subseteq Window
    BY <1>4, <1>5, InArea
  <1>8. FromFile'
    BY <1>1, <1>3, <1>4, <1>5, <1>7 DEF FromFile
  <1>9. PICK q : q = FlashScript(r)
    OBVIOUS
  <1>10. Piece(q, 1, 8) /\ Apart(q) /\ Complete(q, r)
    BY <1>4, <1>9, FlashPiece
  <1>11. q \in Seq(Work("flash")) /\ Chained(q) /\ Sorted(q)
    BY <1>10 DEF Piece
  <1>12. Linked(q)
    BY <1>11 DEF Linked, Chained
  <1>13. Shape'
    BY <1>6, <1>9, <1>10, <1>11, <1>12 DEF Shape
  <1>14. ASSUME NEW d \in Led, Due(d)' PROVE FALSE
    <2>1. q # <<>> /\ Head(q).do = d
      BY <1>6, <1>9, <1>14 DEF Due
    <2>2. 1 \in DOMAIN q /\ q[1].do = d
      BY <1>11, <2>1, TailAt
    <2>3. QED BY <1>11, <1>14, <2>2 DEF Chained
  <1>15. QED BY <1>4, <1>5, <1>6, <1>8, <1>9, <1>10, <1>13, <1>14 DEF Fresh

LEMMA FreshSmooth ==
    ASSUME Fresh
    PROVE  Smooth'
  <1>1. /\ \A d \in Led : ~Due(d)'
        /\ Has(todo', {"unlocked"}) /\ Has(todo', {"clearSr"}) /\ Has(todo', {"pg"})
    BY DEF Fresh, Complete
  <1>2. Held'
    BY <1>1 DEF Held, Led
  <1>3. JustRead'
    BY <1>1 DEF JustRead, Led
  <1>4. Open' /\ Calm' /\ Armed'
    BY <1>1 DEF Open, Calm, Armed
  <1>5. Resting'
    BY <1>1 DEF Resting, Led
  <1>6. QED BY <1>2, <1>3, <1>4, <1>5 DEF Smooth

\* Two spans with a common word.
LEMMA Meeting ==
    ASSUME NEW a \in Nat, NEW m \in Nat, NEW b \in Nat, NEW n \in Nat,
           NEW w, w \in b..(b + n - 1), w \in a..(a + m - 1)
    PROVE  a < b + n /\ a + m > b
  OBVIOUS

LEMMA FreshPlaces ==
    ASSUME Fresh
    PROVE  Placing' /\ Comparing'
  <1>1. PICK r : r = req'
    OBVIOUS
  <1>2. IsImage(r) /\ Area(r) \subseteq Window /\ Complete(todo', r)
    BY <1>1 DEF Fresh, FromFile
  <1>3. ASSUME NEW w \in Area(r) PROVE Placed(w)'
    <2>1. PICK s \in Sectors : w \in Sector(s)
      BY <1>2, <1>3, InSector
    <2>2. w \in Start[s]..(Start[s] + Sizes[s + 1] - 1) /\ w \in r.at..(r.at + Len(r.img) - 1)
      BY <1>3, <2>1 DEF Sector, Area
    <2>3. Start[s] \in Nat /\ Sizes[s + 1] \in Nat /\ r.at \in Nat /\ Len(r.img) \in Nat
      BY <1>2, Layout DEF IsImage
    <2>4. r.at < Start[s] + Sizes[s + 1] /\ r.at + Len(r.img) > Start[s]
      BY <2>2, <2>3, Meeting
    <2>5. Overlaps(s, r.at, Len(r.img))
      BY <2>4 DEF Overlaps
    <2>6. Selected(todo', s)
      BY <1>2, <2>5 DEF Complete
    <2>7. Clean(w)'
      BY <2>1, <2>6 DEF Clean
    <2>8. r.img[w - r.at + 1] = "ff" \/ Covered(todo', "program", w)
      BY <1>2, <1>3 DEF Complete
    <2>9. QED BY <1>1, <2>7, <2>8 DEF Placed, Of
  <1>4. r.verify => \A w \in Area(r) : Covered(todo', "verify", w)
    BY <1>2 DEF Complete
  <1>5. Comparing'
    BY <1>1, <1>4 DEF Comparing, Compared
  <1>6. QED BY <1>1, <1>3, <1>5 DEF Placing

\* The erase ends, the board is reset, or nothing happens.
LEMMA AsideKeeps ==
    ASSUME EraseEnds \/ BoardResets \/ UNCHANGED vars
    PROVE  /\ UNCHANGED <<op, todo, ok, failed, req>>
           /\ undisturbed' => UNCHANGED <<undisturbed, core, catching, seen, cr, keys, err>>
           /\ busy' => busy
           /\ ~busy => cells' = cells
  <1>1. CASE EraseEnds
    BY <1>1 DEF EraseEnds, cortexVars, cpu, host
  <1>2. CASE BoardResets
    BY <1>2 DEF BoardResets, ResetFlash
  <1>3. CASE UNCHANGED vars
    BY <1>3 DEF vars, cortexVars, cpu, host, controller
  <1>4. QED BY <1>1, <1>2, <1>3

LEMMA ShapeStep ==
    ASSUME Typed, faults \in Nat, Shape, [Next]_vars
    PROVE  Shape'
  <1>1. SUFFICES ASSUME op' = "flash", ok' PROVE Shape'
    BY DEF Shape
  <1>2. CASE \E file \in Files : Flash(file)
    BY <1>2, FlashStarts DEF Fresh
  <1>3. CASE op = "flash" /\ ok /\ Advances
    BY <1>3, TurnLeads
  <1>4. CASE EraseEnds \/ BoardResets \/ UNCHANGED vars
    <2>1. UNCHANGED <<op, todo, ok>>
      BY <1>4, AsideKeeps
    <2>2. QED BY <2>1 DEF Shape
  <1>5. QED BY <1>1, <1>2, <1>3, <1>4, Turns

LEMMA Goings ==
    ASSUME Flashing, Working, Turn, NEW t, t = Head(todo)
    PROVE  /\ Going(t) /\ Due(t.do)
           /\ Apart(todo) /\ todo' = Tail(todo) /\ todo \in Seq(Work("flash")) /\ req' = req
  <1>1. Typed /\ Shape /\ Smooth /\ op = "flash" /\ ok
    BY DEF Flashing, Working
  <1>2. Follows(t) /\ t \in Work("flash") /\ Leading(t) /\ Passed(t)
    BY <1>1, TurnFollows, TurnLeads DEF Advances
  <1>3. Acts(t) /\ Due(t.do) /\ todo' = Tail(todo) /\ req' = req
    BY DEF Turn, Due
  <1>4. QED BY <1>1, <1>2, <1>3 DEF Going, Shape, Typed

LEMMA AreaWords ==
    ASSUME Flashing, op = "flash"
    PROVE  Area(req) \subseteq Words
  BY WindowWords DEF Flashing, FromFile

LEMMA WorkingGoes ==
    ASSUME Flashing, Working, Turn
    PROVE  Smooth' /\ Placing'
  <1>1. PICK t : t = Head(todo)
    OBVIOUS
  <1>2. /\ Going(t) /\ Due(t.do)
        /\ Apart(todo) /\ todo' = Tail(todo) /\ todo \in Seq(Work("flash")) /\ req' = req
    BY <1>1, Goings
  <1>3. Held' /\ JustRead' /\ Open' /\ Calm' /\ Armed' /\ Resting'
    BY <1>2, HeldStep, JustReadStep, OpenStep, CalmStep, ArmedStep, RestingStep
  <1>4. ASSUME NEW w \in Area(req) PROVE Placed(w)'
    <2>1. w \in Words /\ Placed(w)
      BY <1>4, AreaWords DEF Flashing, Working, Placing
    <2>2. QED BY <1>1, <1>2, <2>1, PlacedStep
  <1>5. QED BY <1>2, <1>3, <1>4 DEF Smooth, Placing

\* The end of an erase clears the sector.
LEMMA WorkingWaits ==
    ASSUME Flashing, Working, EraseEnds \/ UNCHANGED vars
    PROVE  Smooth' /\ Placing'
  <1>1. UNCHANGED <<op, todo, ok, req, core, catching, seen, cr, keys, err>> /\ (busy' => busy)
    <2>1. CASE EraseEnds
      BY <2>1 DEF EraseEnds, cortexVars, cpu, host
    <2>2. CASE UNCHANGED vars
      BY <2>2 DEF vars, cortexVars, cpu, host, controller
    <2>3. QED BY <2>1, <2>2
  <1>2. Smooth /\ Placing
    BY DEF Flashing
  <1>3. Held' /\ JustRead'
    BY <1>1, <1>2 DEF Smooth, Held, JustRead, Due
  <1>4. Open' /\ Calm' /\ Armed' /\ Resting'
    BY <1>1, <1>2 DEF Smooth, Open, Calm, Armed, Resting, Due
  <1>5. ASSUME NEW w \in Area(req) PROVE Placed(w)'
    <2>1. w \in Words /\ Placed(w)
      BY <1>2, <1>5, AreaWords DEF Working, Placing
    <2>2. CASE There(w)
      <3>1. ~busy
        BY <2>2 DEF There
      <3>2. cells' = cells /\ ~busy'
        BY <1>1, <3>1, AsideKeeps
      <3>3. There(w)'
        BY <1>1, <2>2, <3>2 DEF There, Of
      <3>4. QED BY <3>3 DEF Placed
    <2>3. CASE ~There(w)
      <3>1. (Covered(todo, "program", w) \/ Of(w) = "ff") /\ Clean(w)
        BY <2>1, <2>3 DEF Placed
      <3>2. ASSUME cells[w] = "ff" PROVE Clean(w)'
        <4>1. cells'[w] = "ff"
          <5>1. CASE EraseEnds
            BY <2>1, <3>2, <5>1 DEF EraseEnds, Erased
          <5>2. CASE UNCHANGED vars
            BY <3>2, <5>2 DEF vars, controller
          <5>3. QED BY <5>1, <5>2
        <4>2. QED BY <4>1 DEF Clean
      <3>3. ASSUME NEW s \in Sectors, w \in Sector(s), Selected(todo, s) \/ Pending(s) \/ Running(s)
            PROVE  Clean(w)'
        <4>1. CASE Selected(todo, s)
          BY <1>1, <3>3, <4>1 DEF Clean
        <4>2. CASE Pending(s)
          <5>1. Pending(s)'
            BY <1>1, <4>2 DEF Pending, Due
          <5>2. QED BY <3>3, <5>1 DEF Clean
        <4>3. CASE Running(s) /\ EraseEnds
          <5>1. cells'[w] = "ff"
            BY <2>1, <3>3, <4>3 DEF Running, EraseEnds, Erased
          <5>2. QED BY <5>1 DEF Clean
        <4>4. CASE Running(s) /\ UNCHANGED vars
          <5>1. Running(s)'
            BY <4>4 DEF Running, Due, vars, cortexVars, host, controller
          <5>2. QED BY <3>3, <5>1 DEF Clean
        <4>5. QED BY <3>3, <4>1, <4>2, <4>3, <4>4
      <3>4. Clean(w)'
        BY <3>1, <3>2, <3>3 DEF Clean
      <3>5. QED BY <1>1, <3>1, <3>4 DEF Placed, Of
    <2>4. QED BY <2>2, <2>3
  <1>6. QED BY <1>1, <1>3, <1>4, <1>5 DEF Smooth, Placing

LEMMA WorkingStep ==
    ASSUME Flashing, [Next]_vars, Working'
    PROVE  Smooth' /\ Placing'
  <1>1. Typed /\ faults \in Nat /\ op' = "flash" /\ ok' /\ undisturbed' /\ failed'.by # "fault"
    BY DEF Flashing, Working, Alone
  <1>2. CASE \E file \in Files : Flash(file)
    BY <1>2, FlashStarts, FreshSmooth, FreshPlaces
  <1>3. CASE op = "flash" /\ ok /\ Turn
    <2>1. Working
      BY <1>1, <1>3 DEF Turn, Working, Alone
    <2>2. QED BY <1>3, <2>1, WorkingGoes
  <1>4. CASE EraseEnds \/ UNCHANGED vars
    <2>1. Working
      <3>1. UNCHANGED <<op, ok, undisturbed, failed>>
        BY <1>1, <1>4, AsideKeeps
      <3>2. QED BY <1>1, <3>1 DEF Working, Alone
    <2>2. QED BY <1>4, <2>1, WorkingWaits
  <1>5. CASE BoardResets
    BY <1>1, <1>5 DEF BoardResets
  <1>6. ~Misses
    BY <1>1 DEF Misses
  <1>7. QED BY <1>1, <1>2, <1>3, <1>4, <1>5, <1>6, Turns DEF Advances

LEMMA ComparingStep ==
    ASSUME Flashing, [Next]_vars
    PROVE  Comparing'
  <1>1. SUFFICES ASSUME op' = "flash", ok' PROVE Comparing'
    BY DEF Comparing
  <1>2. Typed /\ faults \in Nat /\ Shape /\ Comparing
    BY DEF Flashing
  <1>3. CASE \E file \in Files : Flash(file)
    BY <1>3, FlashStarts, FreshPlaces
  <1>4. ASSUME op = "flash", ok, Turn, req'.verify, NEW w \in Area(req') PROVE Compared(w)'
    <2>1. PICK t : t = Head(todo)
      OBVIOUS
    <2>2. Follows(t) /\ Passed(t) /\ Acts(t) /\ req' = req
      BY <1>2, <1>4, <2>1, TurnFollows, TurnLeads DEF Advances, Turn
    <2>3. ActsOnStatus(t.do) /\ ActsOnCells(t) /\ Of(w)' = Of(w)
      BY <2>2 DEF Acts, Of
    <2>4. Compared(w)
      BY <1>2, <1>4, <2>2 DEF Comparing
    <2>5. CASE t.do = "verify" /\ w \in t.at..(t.at + t.n - 1)
      <3>1. ~Has(todo', Writes \cup {"program"})
        <4>1. Phase("verify") > 5
          BY DEF Phase
        <4>2. QED BY <2>2, <2>5, <4>1, PhasesOver
      <3>2. ~Has(todo', {"start", "program"})
        BY <3>1 DEF Has, Writes
      <3>3. cells[w] = Of(w) /\ cells' = cells /\ ~busy'
        BY <2>3, <2>5 DEF ActsOnCells, ActsOnStatus, Equal, Of
      <3>4. QED BY <2>3, <3>2, <3>3 DEF Compared
    <2>6. CASE Covered(todo', "verify", w)
      BY <2>6 DEF Compared
    <2>7. CASE ~Covered(todo, "verify", w)
      <3>1. cells[w] = Of(w) /\ ~Has(todo, {"start", "program"}) /\ ~busy
        BY <2>4, <2>7 DEF Compared
      <3>2. t.do \notin {"start", "program"} /\ ~Has(todo', {"start", "program"})
        BY <2>2, <3>1 DEF Follows
      <3>3. cells' = cells /\ ~busy'
        BY <2>3, <3>1, <3>2 DEF ActsOnCells, ActsOnStatus
      <3>4. QED BY <2>3, <3>1, <3>2, <3>3 DEF Compared
    <2>8. QED BY <2>2, <2>5, <2>6, <2>7 DEF Follows
  <1>5. CASE op = "flash" /\ ok /\ Turn
    BY <1>4, <1>5 DEF Comparing
  <1>6. ASSUME EraseEnds \/ BoardResets \/ UNCHANGED vars, req'.verify, NEW w \in Area(req')
        PROVE  Compared(w)'
    <2>1. UNCHANGED <<op, todo, ok, req>> /\ (busy' => busy) /\ (~busy => cells' = cells)
      BY <1>6, AsideKeeps
    <2>2. Compared(w) /\ Of(w)' = Of(w)
      BY <1>1, <1>2, <1>6, <2>1 DEF Comparing, Of
    <2>3. QED BY <2>1, <2>2 DEF Compared
  <1>7. CASE EraseEnds \/ BoardResets \/ UNCHANGED vars
    BY <1>6, <1>7 DEF Comparing
  <1>8. ASSUME op = "flash", ok, Misses, req'.verify, NEW w \in Area(req') PROVE Compared(w)'
    <2>1. PICK t : t = Head(todo)
      OBVIOUS
    <2>2. Follows(t) /\ t.do = "program" /\ req' = req /\ Of(w)' = Of(w)
      BY <1>2, <1>8, <2>1, TurnFollows DEF Advances, Misses, Of
    <2>3. Compared(w)
      BY <1>2, <1>8, <2>2 DEF Comparing
    <2>4. Has(todo, {"start", "program"})
      BY <2>2 DEF Follows
    <2>5. Covered(todo, "verify", w)
      BY <2>3, <2>4 DEF Compared
    <2>6. Covered(todo', "verify", w)
      BY <2>2, <2>5 DEF Follows
    <2>7. QED BY <2>6 DEF Compared
  <1>9. CASE op = "flash" /\ ok /\ Misses
    BY <1>8, <1>9 DEF Comparing
  <1>10. QED BY <1>1, <1>2, <1>3, <1>5, <1>7, <1>9, Turns DEF Advances

LEMMA FromFileStep ==
    ASSUME FromFile, [Next]_vars
    PROVE  FromFile'
  <1>1. CASE \E file \in Files : Flash(file)
    BY <1>1, FlashStarts DEF Fresh
  <1>2. CASE op' # "flash" \/ (op' = op /\ req' = req)
    BY <1>2 DEF FromFile
  <1>3. QED BY <1>1, <1>2, OnlyFlashClaims

\* The words that are read back are those of the image.
LEMMA VerifyFinds ==
    ASSUME Flashing, Working, NEW t, t = Head(todo), todo # <<>>, t.do = "verify", ~busy
    PROVE  Equal(t)
  <1>1. /\ Typed /\ Shape /\ Placing /\ op = "flash" /\ ok
        /\ todo \in Seq(Work("flash")) /\ IsImage(req) /\ Sorted(todo)
    BY DEF Flashing, Working, Typed, Shape
  <1>2. 1 \in DOMAIN todo /\ todo[1] = t /\ DOMAIN todo = 1..Len(todo)
    BY <1>1, TailAt
  <1>3. Fits(req, t)
    BY <1>1, <1>2 DEF Typed
  <1>4. t.at \in Nat /\ t.n \in Nat /\ t.at >= req.at /\ t.at + t.n <= req.at + Len(req.img)
    BY <1>3 DEF Fits
  <1>5. Phase("verify") = 6 /\ Phase("program") = 4 /\ Phase("select") = 2
    BY DEF Phase
  <1>6. ASSUME NEW d \in {"program", "select"} PROVE ~Has(todo, {d})
    <2>1. SUFFICES ASSUME NEW i \in DOMAIN todo, todo[i].do = d PROVE FALSE
      BY DEF Has
    <2>2. i # 1
      BY <1>2, <2>1
    <2>3. 1 < i
      BY <1>2, <2>2
    <2>4. Phase("verify") <= Phase(d)
      BY <1>1, <1>2, <1>5, <2>1, <2>3 DEF Sorted
    <2>5. QED BY <1>5, <2>4
  <1>7. ASSUME NEW w \in t.at..(t.at + t.n - 1) PROVE cells[w] = Of(w)
    <2>1. w \in Area(req)
      <3>1. req.at \in Nat /\ Len(req.img) \in Nat
        BY <1>1 DEF IsImage
      <3>2. \A a, n \in Nat : t.at >= a /\ t.at + t.n <= a + n => w \in a..(a + n - 1)
        BY <1>4, <1>7
      <3>3. QED BY <1>4, <3>1, <3>2 DEF Area
    <2>2. Placed(w)
      BY <1>1, <2>1 DEF Placing
    <2>3. CASE ~There(w)
      <3>1. Of(w) = "ff" /\ Clean(w)
        BY <1>6, <2>2, <2>3 DEF Placed, Covered, Has
      <3>2. \A s : ~Selected(todo, s) /\ ~Pending(s) /\ ~Running(s)
        BY <1>6 DEF Selected, Has, Pending, Running, Due
      <3>3. QED BY <3>1, <3>2 DEF Clean
    <2>4. QED BY <2>3 DEF There
  <1>8. QED BY <1>7 DEF Equal, Of

LEMMA JamsStep ==
    ASSUME Flashing, [Next]_vars
    PROVE  Jams'
  <1>1. SUFFICES ASSUME op' = "flash", ~ok', undisturbed', failed'.by # "fault" PROVE keys' = "jammed"
    BY DEF Jams
  <1>2. Typed
    BY DEF Flashing
  <1>3. CASE Mending
    BY <1>1, <1>3 DEF Mending, Flashing, Jams
  <1>4. CASE Stopping
    <2>1. PICK t : t = Head(todo)
      OBVIOUS
    <2>2. Working /\ todo # <<>> /\ keys' = keys /\ Finds(t) /\ Due(t.do)
      BY <1>1, <1>4, <2>1 DEF Stopping, Working, Alone, Due
    <2>3. Smooth
      BY <2>2 DEF Flashing
    <2>4. ~(t.do = "halted" /\ core = "run")
      BY <2>2, <2>3 DEF Smooth, Held
    <2>5. t.do = "unlocked" /\ cr.lock => keys = "jammed"
      BY <2>2, <2>3 DEF Smooth, JustRead
    <2>6. ~(t.do = "busy" /\ ~busy /\ err)
      BY <2>2, <2>3 DEF Smooth, Resting, Calm
    <2>7. ~(t.do = "verify" /\ ~busy /\ ~Equal(t))
      BY <2>1, <2>2, VerifyFinds
    <2>8. QED BY <2>2, <2>4, <2>5, <2>6, <2>7 DEF Finds
  <1>5. QED BY <1>1, <1>2, <1>3, <1>4, Stops

LEMMA FlashingInit ==
    ASSUME Init
    PROVE  Flashing
  <1>1. Typed
    BY TypedInit
  <1>2. op = "none" /\ faults = 0
    BY DEF Init, CortexInit
  <1>3. QED BY <1>1, <1>2 DEF Flashing, Shape, Working, Comparing, Jams, FromFile

\* Behind every transfer of a flash operation, each word of the image is right, or is
\* yet to be erased and programmed, or to be read back.
THEOREM FlashingAlways == Spec => []Flashing
  <1>1. Flashing /\ [Next]_vars => Flashing'
    <2>1. SUFFICES ASSUME Flashing, [Next]_vars PROVE Flashing'
      OBVIOUS
    <2>2. Typed /\ faults \in Nat /\ Shape /\ FromFile
      BY <2>1 DEF Flashing
    <2>3. Typed' /\ faults' \in Nat /\ Shape' /\ FromFile'
      BY <2>1, <2>2, TypedStep, FaultsCounted, ShapeStep, FromFileStep
    <2>4. Comparing' /\ Jams' /\ (Working' => Smooth' /\ Placing')
      BY <2>1, ComparingStep, JamsStep, WorkingStep
    <2>5. QED BY <2>3, <2>4 DEF Flashing
  <1>2. Init => Flashing
    BY FlashingInit
  <1>3. QED BY <1>1, <1>2, PTL DEF Spec

LEMMA WordsRight ==
    ASSUME Flashing, Ended, ok, op = "flash", req.verify \/ Alone, NEW w \in Area(req)
    PROVE  cells[w] = Of(w)
  <1>1. todo = <<>> /\ ~Has(todo, {"program", "select", "verify"})
    BY DEF Ended, Has
  <1>2. /\ \A d \in {"program", "verify"} : ~Covered(todo, d, w)
        /\ \A s : ~Selected(todo, s) /\ ~Pending(s) /\ ~Running(s)
    BY <1>1 DEF Covered, Selected, Pending, Running, Due
  <1>3. CASE req.verify
    BY <1>2, <1>3 DEF Flashing, Comparing, Compared
  <1>4. CASE Alone
    <2>1. Placed(w)
      BY <1>4 DEF Flashing, Working, Placing
    <2>2. QED BY <1>2, <2>1 DEF Placed, There, Clean
  <1>5. QED BY <1>3, <1>4

\* A flash operation that reports success has put the file's segments where they
\* belong, although the controller ignores without a word what it is told after a
\* reset, and nobody asks whether a write was refused: if neither happened, or if the
\* image was read back.
THEOREM FlashedRightAlways == Spec => []FlashedRight
  <1>1. Flashing => FlashedRight
    <2>1. SUFFICES ASSUME Flashing, Ended, ok, op = "flash", req.verify \/ Alone,
                          NEW h, h = req.headers, NEW i \in Loaded(h),
                          NEW w \in h[i].at..(Behind(h[i]) - 1),
                          \A k \in Loaded(h) : Covers(h[k], w) => NotAfter(h, k, i)
                   PROVE  cells[w] = h[i].data[w - h[i].at + 1]
      BY DEF FlashedRight
    <2>2. PICK image : image = ElfToImage(h)
      OBVIOUS
    <2>3. h \in Headers /\ Loaded(h) # {} /\ req.at = image.at /\ req.img = image.img
      BY <2>1, <2>2 DEF Flashing, FromFile
    <2>4. h[i].at \in Nat /\ Len(h[i].data) \in Nat /\ Behind(h[i]) = h[i].at + Len(h[i].data)
      BY <2>3, HeaderAt
    <2>5. w \in Nat /\ Covers(h[i], w)
      BY <2>4 DEF Covers
    <2>6. /\ image.at \in Nat /\ Len(image.img) \in Nat /\ DOMAIN image.img = 1..Len(image.img)
          /\ w - image.at + 1 \in DOMAIN image.img
          /\ image.img[w - image.at + 1] = h[i].data[w - h[i].at + 1]
      BY <2>1, <2>2, <2>3, <2>5, ImageRight
    <2>7. w \in Area(req)
      BY <2>3, <2>5, <2>6 DEF Area
    <2>8. cells[w] = Of(w)
      BY <2>1, <2>7, WordsRight
    <2>9. QED BY <2>3, <2>6, <2>8 DEF Of
  <1>2. QED BY <1>1, FlashingAlways, PTL

\* Nothing that earlier operations have left behind makes one fail that nothing
\* disturbs, but half an unlock sequence.
THEOREM FreshStartAlways == Spec => []FreshStart
  <1>1. Flashing => FreshStart
    BY DEF Flashing, Jams, FreshStart, Alone
  <1>2. QED BY <1>1, FlashingAlways, PTL
=============================================================================
