---------------------------- MODULE ChecksProofs ----------------------------
(***************************************************************************)
(* Proofs about the course loader and the checks that run on what it       *)
(* loads, for every collection of packs and every history of events: which *)
(* courses there are, what a verdict says, and that no answer is lost.     *)
(***************************************************************************)
EXTENDS Checks, FiniteSetTheorems, SequenceTheorems, WellFoundedInduction, TLAPS

-----------------------------------------------------------------------------
(* Induction up to a number, and the loader's fold *)

\* Natural numbers have a smallest one among them.
LEMMA Smallest ==
    ASSUME NEW N \in SUBSET Nat, N # {}
    PROVE  \E m \in N : \A n \in N : m <= n
  <1>1. PICK m \in N : \A n \in N : ~ (<<n, m>> \in OpToRel(<, Nat))
    BY WFMin, NatLessThanWellFounded
  <1>2. \A n \in N : ~ (n < m)
    BY <1>1 DEF OpToRel
  <1>3. QED BY <1>2

\* What holds of 0 and of the next number, as long as there is one, holds up to n.
LEMMA UpTo ==
    ASSUME NEW n \in Nat, NEW G, 0 \in G, \A k \in G : k \in 0..(n - 1) => k + 1 \in G
    PROVE  0..n \subseteq G
  <1> DEFINE N == (0..n) \ G
  <1>1. SUFFICES ASSUME N # {} PROVE FALSE
    OBVIOUS
  <1>2. PICK m \in N : \A k \in N : m <= k
    <2>1. N \in SUBSET Nat
      OBVIOUS
    <2> HIDE DEF N
    <2> QED BY <1>1, <2>1, Smallest
  <1>3. m \in 1..n /\ m - 1 \in 0..(n - 1) /\ m - 1 \notin N
    BY <1>2
  <1>4. m - 1 \in G
    BY <1>3
  <1>5. m \in Int /\ (m - 1) + 1 = m /\ m \notin G
    BY <1>2
  <1> HIDE DEF N
  <1>6. (m - 1) + 1 \in G
    BY <1>3, <1>4
  <1> QED BY <1>5, <1>6

MaxOf(t) == CHOOSE x \in t : \A y \in t : x >= y
LEMMA MaxIs ==
    ASSUME NEW n \in Nat, NEW t \in SUBSET (1..n), n \in t
    PROVE  MaxOf(t) = n
  <1>1. n \in t /\ \A y \in t : n >= y
    OBVIOUS
  <1>2. MaxOf(t) \in t /\ \A y \in t : MaxOf(t) >= y
    BY <1>1 DEF MaxOf
  <1>3. MaxOf(t) \in 1..n /\ MaxOf(t) >= n
    BY <1>2
  <1> QED BY <1>3

Nothing == [courses |-> <<>>, seen |-> {}, diagnostics |-> {}]
Taken(packs) == FoldLeft(Take, Nothing, packs)
\* f folds any of the first n packs.
Takes(f, n, packs) ==
  f = [t \in SUBSET (1..n) |-> IF t = {} THEN Nothing
                               ELSE Take(f[t \ {MaxOf(t)}], packs[MaxOf(t)])]

LEMMA TakesExists ==
    ASSUME NEW n \in Nat, NEW packs
    PROVE  \E f : Takes(f, n, packs)
  <1> DEFINE N == {m \in Nat : ~\E f : Takes(f, m, packs)}
  <1>1. SUFFICES ASSUME N # {} PROVE FALSE
    OBVIOUS
  <1>2. PICK m \in N : \A k \in N : m <= k
    <2>1. N \in SUBSET Nat
      OBVIOUS
    <2> HIDE DEF N
    <2> QED BY <1>1, <2>1, Smallest
  <1>3. m \in Nat /\ ~\E f : Takes(f, m, packs)
    BY <1>2
  <1>4. m # 0
    <2>1. Takes([t \in SUBSET (1..0) |-> Nothing], 0, packs)
      BY DEF Takes
    <2>2. QED BY <1>3, <2>1
  <1>5. PICK f : Takes(f, m - 1, packs)
    <2>1. m - 1 \in Nat /\ m - 1 \notin N
      BY <1>2, <1>3, <1>4
    <2>2. QED BY <2>1
  <1> DEFINE S == SUBSET (1..m)
             g == [t \in S |-> IF m \in t THEN Take(f[t \ {m}], packs[m]) ELSE f[t]]
  <1>6. \A t \in S : g[t] = IF t = {} THEN Nothing
                            ELSE Take(g[t \ {MaxOf(t)}], packs[MaxOf(t)])
    <2> TAKE t \in S
    <2>1. CASE m \in t
      <3>1. MaxOf(t) = m /\ t # {} /\ t \ {m} \in S /\ m \notin t \ {m}
        BY <1>3, <2>1, MaxIs
      <3>2. g[t] = Take(f[t \ {m}], packs[m]) /\ g[t \ {m}] = f[t \ {m}]
        BY <2>1, <3>1
      <3> QED BY <3>1, <3>2
    <2>2. CASE m \notin t
      <3>1. t \in SUBSET (1..m - 1)
        BY <1>3, <1>4, <2>2
      <3>2. g[t] = f[t]
        BY <2>2
      <3>3. CASE t = {}
        BY <3>1, <3>2, <3>3, <1>5 DEF Takes
      <3>4. CASE t # {}
        <4> DEFINE u == t \ {MaxOf(t)}
        <4>1. u \in S /\ m \notin u
          BY <2>2
        <4>2. g[u] = f[u]
          BY <4>1
        <4>3. f[t] = Take(f[u], packs[MaxOf(t)])
          BY <3>1, <3>4, <1>5 DEF Takes
        <4> QED BY <3>2, <3>4, <4>2, <4>3
      <3> QED BY <3>3, <3>4
    <2> QED BY <2>1, <2>2
  <1>7. Takes(g, m, packs)
    <2> HIDE DEF g
    <2>1. g = [t \in S |-> g[t]]
      BY DEF g
    <2>2. [t \in S |-> g[t]] = [t \in S |-> IF t = {} THEN Nothing
                            ELSE Take(g[t \ {MaxOf(t)}], packs[MaxOf(t)])]
      BY <1>6
    <2> QED BY <2>1, <2>2 DEF Takes
  <1> QED BY <1>3, <1>7

LEMMA TakenIs ==
    ASSUME NEW S, NEW packs \in Seq(S)
    PROVE  \E f : Takes(f, Len(packs), packs) /\ Taken(packs) = f[1..Len(packs)]
  <1>0. DOMAIN packs = 1..Len(packs) /\ Len(packs) \in Nat
    OBVIOUS
  <1> DEFINE f == CHOOSE f : Takes(f, Len(packs), packs)
  <1>1. Takes(f, Len(packs), packs)
    BY <1>0, TakesExists
  <1>2. Taken(packs) = f[1..Len(packs)]
    BY <1>0 DEF Taken, Takes, FoldLeft, MapThenFoldSet, MaxOf, Max
  <1> QED BY <1>1, <1>2

\* Pack by pack
LEMMA TakenSteps ==
    ASSUME NEW S, NEW packs \in Seq(S)
    PROVE  \E F : /\ F[0] = Nothing /\ F[Len(packs)] = Taken(packs)
                  /\ \A n \in 1..Len(packs) : F[n] = Take(F[n - 1], packs[n])
  <1> DEFINE L == Len(packs)
  <1>0. L \in Nat
    OBVIOUS
  <1>1. PICK f : Takes(f, L, packs) /\ Taken(packs) = f[1..L]
    BY TakenIs
  <1> DEFINE F == [n \in 0..L |-> f[1..n]]
  <1>2. F[0] = Nothing
    <2>1. 1..0 = {}
      OBVIOUS
    <2>2. f[{}] = Nothing
      BY <1>0, <1>1 DEF Takes
    <2> QED BY <1>0, <2>1, <2>2
  <1>3. \A n \in 1..L : F[n] = Take(F[n - 1], packs[n])
    <2> TAKE n \in 1..L
    <2>0. n \in Nat /\ 1 <= n /\ n <= L
      BY <1>0
    <2>1. 1..n \in SUBSET (1..L) /\ 1..n # {} /\ n \in Nat /\ n \in 1..n
      <3>1. \A i \in 1..n : i \in 1..L
        BY <1>0, <2>0
      <3>2. n \in 1..n
        BY <2>0
      <3> QED BY <2>0, <3>1, <3>2
    <2>2. MaxOf(1..n) = n
      BY <2>1, MaxIs
    <2>3. (1..n) \ {n} = 1..(n - 1) /\ n - 1 \in 0..L /\ n \in 0..L
      BY <1>0
    <2>4. f[1..n] = Take(f[(1..n) \ {MaxOf(1..n)}], packs[MaxOf(1..n)])
      BY <1>1, <2>1 DEF Takes
    <2> QED BY <2>2, <2>3, <2>4
  <1>4. F[L] = Taken(packs)
    BY <1>0, <1>1
  <1> QED BY <1>2, <1>3, <1>4

-----------------------------------------------------------------------------
(* The first copies *)

Made(packs, i) == LoadCoursePack(packs[i]).course
FirstOf(packs, n) ==
  {i \in 1..n : /\ Made(packs, i) # None
                /\ \A j \in 1..(i - 1) : Made(packs, j) # None => Made(packs, j).id # Made(packs, i).id}
AllMade(packs) == {Made(packs, i) : i \in 1..Len(packs)}
\* What the loader has made of the first n packs.
TookFirst(acc, packs, n) ==
  /\ acc.courses \in Seq(AllMade(packs) \ {None})
  /\ Range(acc.courses) = {Made(packs, i) : i \in FirstOf(packs, n)}
  /\ Len(acc.courses) = Cardinality(FirstOf(packs, n))
  /\ acc.seen = {Made(packs, i).id : i \in {k \in 1..n : Made(packs, k) # None}}

LEMMA FirstStep ==
    ASSUME NEW packs, NEW n \in Nat
    PROVE  LET m == Made(packs, n + 1)
               seen == {Made(packs, i).id : i \in {k \in 1..n : Made(packs, k) # None}}
           IN  FirstOf(packs, n + 1) = IF m = None \/ m.id \in seen THEN FirstOf(packs, n)
                                       ELSE FirstOf(packs, n) \cup {n + 1}
  <1> DEFINE m == Made(packs, n + 1)
             seen == {Made(packs, i).id : i \in {k \in 1..n : Made(packs, k) # None}}
  <1>1. 1..(n + 1) = (1..n) \cup {n + 1} /\ (n + 1) - 1 = n
    OBVIOUS
  <1>2. m.id \notin seen <=> \A j \in 1..n : Made(packs, j) # None => Made(packs, j).id # m.id
    OBVIOUS
  <1> QED BY <1>1, <1>2 DEF FirstOf

LEMMA AppendRange ==
    ASSUME NEW S, NEW q \in Seq(S), NEW e \in S
    PROVE  /\ Append(q, e) \in Seq(S) /\ Len(Append(q, e)) = Len(q) + 1
           /\ Range(Append(q, e)) = Range(q) \cup {e}
  <1>1. /\ Append(q, e) \in Seq(S) /\ Len(Append(q, e)) = Len(q) + 1
        /\ DOMAIN q = 1..Len(q) /\ DOMAIN Append(q, e) = 1..(Len(q) + 1) /\ Len(q) \in Nat
    OBVIOUS
  <1>2. \A i \in 1..Len(q) : Append(q, e)[i] = q[i]
    OBVIOUS
  <1>3. Append(q, e)[Len(q) + 1] = e
    OBVIOUS
  <1>4. 1..(Len(q) + 1) = (1..Len(q)) \cup {Len(q) + 1}
    BY <1>1
  <1> QED BY <1>1, <1>2, <1>3, <1>4 DEF Range

LEMMA TakesFirst ==
    ASSUME NEW S, NEW packs \in Seq(S), NEW n \in 0..(Len(packs) - 1), NEW acc,
           TookFirst(acc, packs, n)
    PROVE  TookFirst(Take(acc, packs[n + 1]), packs, n + 1)
  <1> DEFINE m == Made(packs, n + 1)
             seen == {Made(packs, i).id : i \in {k \in 1..n : Made(packs, k) # None}}
             next == Take(acc, packs[n + 1])
             shadowed == m # None /\ m.id \in seen
  <1>0. n \in Nat /\ n + 1 \in 1..Len(packs) /\ 1..(n + 1) = (1..n) \cup {n + 1}
    OBVIOUS
  <1>1. acc.seen = seen
    BY DEF TookFirst
  <1>2. /\ next.courses = IF m = None \/ shadowed THEN acc.courses ELSE Append(acc.courses, m)
        /\ next.seen = seen \cup IF m = None THEN {} ELSE {m.id}
    BY <1>1 DEF Take, Made
  <1>3. FirstOf(packs, n + 1) = IF m = None \/ m.id \in seen THEN FirstOf(packs, n)
                                ELSE FirstOf(packs, n) \cup {n + 1}
    BY <1>0, FirstStep
  <1>4. next.seen = {Made(packs, i).id : i \in {k \in 1..(n + 1) : Made(packs, k) # None}}
    BY <1>0, <1>2
  <1>5. IsFiniteSet(FirstOf(packs, n)) /\ n + 1 \notin FirstOf(packs, n)
    <2>1. FirstOf(packs, n) \subseteq 1..n /\ n + 1 \notin 1..n
      BY <1>0 DEF FirstOf
    <2>2. IsFiniteSet(1..n)
      BY <1>0, FS_Interval
    <2> QED BY <2>1, <2>2, FS_Subset
  <1>6. ASSUME m = None \/ shadowed PROVE TookFirst(next, packs, n + 1)
    BY <1>2, <1>3, <1>4, <1>6 DEF TookFirst
  <1>7. ASSUME ~(m = None \/ shadowed) PROVE TookFirst(next, packs, n + 1)
    <2>1. next.courses = Append(acc.courses, m) /\ FirstOf(packs, n + 1) = FirstOf(packs, n) \cup {n + 1}
      BY <1>2, <1>3, <1>7
    <2>2. m \in AllMade(packs) \ {None}
      BY <1>0, <1>7 DEF AllMade
    <2>3. Cardinality(FirstOf(packs, n + 1)) = Cardinality(FirstOf(packs, n)) + 1
      BY <1>5, <2>1, FS_AddElement
    <2>4. /\ next.courses \in Seq(AllMade(packs) \ {None})
          /\ Len(next.courses) = Len(acc.courses) + 1
          /\ Range(next.courses) = Range(acc.courses) \cup {m}
      BY <2>1, <2>2, AppendRange DEF TookFirst
    <2>5. {Made(packs, i) : i \in FirstOf(packs, n + 1)} = {Made(packs, i) : i \in FirstOf(packs, n)} \cup {m}
      BY <2>1
    <2> HIDE DEF next, m
    <2> QED BY <1>4, <2>3, <2>4, <2>5 DEF TookFirst
  <1>8. TookFirst(next, packs, n + 1)
    BY <1>6, <1>7
  <1> QED BY <1>8

\* The loader takes the first copies, whatever it is given.
LEMMA TakesAll ==
    ASSUME NEW S, NEW packs \in Seq(S)
    PROVE  TookFirst(Taken(packs), packs, Len(packs))
  <1> DEFINE L == Len(packs)
  <1>0. L \in Nat
    OBVIOUS
  <1>1. PICK F : /\ F[0] = Nothing /\ F[L] = Taken(packs)
                 /\ \A n \in 1..L : F[n] = Take(F[n - 1], packs[n])
    BY TakenSteps
  <1> DEFINE G == {n \in 0..L : TookFirst(F[n], packs, n)}
  <1>2. 0 \in G
    <2>1. 1..0 = {} /\ 0 \in 0..L
      BY <1>0
    <2>2. FirstOf(packs, 0) = {} /\ Cardinality({}) = 0
      BY <2>1, FS_EmptySet DEF FirstOf
    <2>3. TookFirst(Nothing, packs, 0)
      <3>1. Nothing.courses = <<>> /\ Nothing.seen = {}
        BY DEF Nothing
      <3>2. {Made(packs, i) : i \in FirstOf(packs, 0)} = {} /\ Range(<<>>) = {}
        BY <2>2 DEF Range
      <3>3. {Made(packs, i).id : i \in {k \in 1..0 : Made(packs, k) # None}} = {}
        BY <2>1
      <3>4. Nothing.courses \in Seq(AllMade(packs) \ {None}) /\ Len(Nothing.courses) = 0
        BY <3>1
      <3> HIDE DEF L, G
      <3> QED BY <2>2, <3>1, <3>2, <3>3, <3>4 DEF TookFirst
    <2> QED BY <1>1, <2>1, <2>3
  <1>3. \A n \in G : n \in 0..(L - 1) => n + 1 \in G
    <2> SUFFICES ASSUME NEW n \in G, n \in 0..(L - 1) PROVE n + 1 \in G
      OBVIOUS
    <2>1. n + 1 \in 1..L /\ (n + 1) - 1 = n /\ n + 1 \in 0..L
      BY <1>0
    <2>2. F[n + 1] = Take(F[n], packs[n + 1])
      BY <1>1, <2>1
    <2>3. TookFirst(F[n], packs, n)
      OBVIOUS
    <2> QED BY <2>1, <2>2, <2>3, TakesFirst
  <1>4. L \in G
    <2> HIDE DEF G
    <2>1. 0..L \subseteq G
      BY <1>0, <1>2, <1>3, UpTo
    <2> QED BY <1>0, <2>1
  <1> QED BY <1>1, <1>4

Packs(f) == UNION {Range(PackDirsIn(f[o])) : o \in DOMAIN f}

LEMMA ConcatType ==
    ASSUME NEW S, NEW p \in Seq(S), NEW q \in Seq(S)
    PROVE  p \o q \in Seq(S)
  OBVIOUS

LEMMA SourcesType ==
    ASSUME NEW f \in Found
    PROVE  CollectSources(f) \in Seq(Packs(f)) /\ \A pack \in Packs(f) : IsPack(pack)
  <1> DEFINE From(origin) == IF origin \in DOMAIN f THEN PackDirsIn(f[origin]) ELSE <<>>
  <1>1. ASSUME NEW o PROVE From(o) \in Seq(Packs(f))
    <2>1. CASE o \in DOMAIN f
      <3> DEFINE packs == PackDirsIn(f[o])
      <3>1. packs \in Seq(Range(packs)) /\ Range(packs) \subseteq Packs(f)
        BY <2>1, ChecksAssumption DEF Packs
      <3>2. packs \in Seq(Packs(f))
        <4> HIDE DEF packs
        <4> QED BY <3>1
      <3> QED BY <2>1, <3>2
    <2>2. CASE o \notin DOMAIN f
      BY <2>2
    <2> QED BY <2>1, <2>2
  <1>2. CollectSources(f) = From("extension") \o From("image") \o From("user") \o From("workspace")
                            \o From("setting")
    BY DEF CollectSources
  <1>3. \A pack \in Packs(f) : IsPack(pack)
    BY ChecksAssumption DEF Packs
  <1> HIDE DEF From
  <1>4. /\ From("extension") \in Seq(Packs(f)) /\ From("image") \in Seq(Packs(f))
        /\ From("user") \in Seq(Packs(f)) /\ From("workspace") \in Seq(Packs(f))
        /\ From("setting") \in Seq(Packs(f))
    BY <1>1
  <1>5. From("extension") \o From("image") \o From("user") \o From("workspace") \o From("setting")
          \in Seq(Packs(f))
    BY <1>4, ConcatType
  <1> QED BY <1>2, <1>3, <1>5

\* The courses are the first copies that load.
LEMMA FirstLoaded ==
    ASSUME NEW f \in Found
    PROVE  TookFirst(Taken(CollectSources(f)), CollectSources(f), Len(CollectSources(f)))
           /\ LoadCourses(f).courses = Taken(CollectSources(f)).courses
  <1>1. TookFirst(Taken(CollectSources(f)), CollectSources(f), Len(CollectSources(f)))
    BY SourcesType, TakesAll
  <1>2. LoadCourses(f).courses = Taken(CollectSources(f)).courses
    BY DEF LoadCourses, Taken, Nothing
  <1> QED BY <1>1, <1>2

-----------------------------------------------------------------------------
(* What the loader lets through *)

\* A step of a course that loads is in a file that is valid.
LEMMA StepsValid ==
    ASSUME NEW pack, IsPack(pack), LoadCoursePack(pack).course # None,
           NEW s \in DOMAIN LoadCoursePack(pack).course.steps
    PROVE  \E f \in DOMAIN pack.files :
             /\ LoadCoursePack(pack).course.steps[s] = pack.files[f]
             /\ ValidateStep(pack.files[f], f[1])
  <1> DEFINE course == LoadCoursePack(pack).course
             m == pack.manifest
             listed == Range(ListedIn(m.modules))
             valid == {f \in DOMAIN pack.files : ValidateStep(pack.files[f], f[1])}
             steps == {f[1] : f \in valid} \cap listed
             english == {u \in steps : <<u, "en">> \in valid}
             lang(u) == IF u \in english THEN "en" ELSE "de"
  <1>1. ValidateManifest(m) /\ steps # {}
    BY DEF LoadCoursePack
  <1>2. course.steps = [u \in steps |-> pack.files[<<u, lang(u)>>]]
    BY <1>1 DEF LoadCoursePack
  <1>3. s \in steps /\ course.steps[s] = pack.files[<<s, lang(s)>>]
    BY <1>2
  <1>4. PICK f \in valid : f[1] = s
    BY <1>3
  <1>5. f = <<s, f[2]>> /\ f[2] \in {"en", "de"}
    BY <1>4 DEF IsPack
  <1>6. <<s, lang(s)>> \in valid
    BY <1>3, <1>4, <1>5
  <1> QED BY <1>3, <1>6

\* The checks of what has been loaded are trees that the loader has found valid.
LEMMA ChecksLoaded ==
    ASSUME NEW f \in Found, NEW t \in Tasks(LoadCourses(f).courses)
    PROVE  IsTree(t.check) /\ ValidateCheck(t.check)
  <1> DEFINE packs == CollectSources(f)
             courses == LoadCourses(f).courses
  <1>1. PICK i \in DOMAIN courses : t \in UNION {Range(courses[i].steps[s].tasks) : s \in DOMAIN courses[i].steps}
    BY DEF Tasks
  <1>2. PICK s \in DOMAIN courses[i].steps : t \in Range(courses[i].steps[s].tasks)
    BY <1>1
  <1>3. courses[i] \in AllMade(packs) \ {None}
    <2>1. courses \in Seq(AllMade(packs) \ {None})
      BY FirstLoaded DEF TookFirst
    <2> HIDE DEF courses
    <2> QED BY <2>1
  <1>4. PICK k \in 1..Len(packs) : courses[i] = LoadCoursePack(packs[k]).course
    BY <1>3 DEF AllMade, Made
  <1>5. IsPack(packs[k])
    <2>1. packs \in Seq(Packs(f)) /\ \A pack \in Packs(f) : IsPack(pack)
      BY SourcesType
    <2> HIDE DEF packs
    <2> QED BY <2>1
  <1> DEFINE pack == packs[k]
  <1>6. PICK g \in DOMAIN pack.files : /\ courses[i].steps[s] = pack.files[g]
                                       /\ ValidateStep(pack.files[g], g[1])
    BY <1>2, <1>3, <1>4, <1>5, StepsValid
  <1>7. PICK j \in DOMAIN pack.files[g].tasks : t = pack.files[g].tasks[j]
    BY <1>2, <1>6 DEF Range
  <1> QED BY <1>5, <1>6, <1>7 DEF ValidateStep, IsPack

-----------------------------------------------------------------------------
(* Types *)

Trees == {t.check : t \in UNION {Tasks(LoadCourses(f).courses) : f \in Found}}
Paths == Seq(Nat \ {0})
FactsType == [exit : {None, "expected", "other"}, heard : BOOLEAN, stopped : BOOLEAN, late : BOOLEAN]
RunType ==
  [pc : {"idle", "step", "ended", "looking", "grading", "sending", "waiting"},
   whole : Trees \cup {None}, path : Paths, status : Statuses \cup {None}, step : Nat,
   waits : BOOLEAN, got : {None, "yes", "no"}, task : {None, "running", "exited", "none"},
   ended : BOOLEAN, facts : FactsType,
   passed : SUBSET Paths, sawUnavailable : SUBSET Paths, verdict : Statuses \cup {None},
   threw : BOOLEAN]
StopType == [place : Places \cup {None}, at : Nat]

LoadedInv == found \in Found /\ loaded \in {None, LoadCourses(found)}

\* What the run waits for, and what of it has come.
Answered(x, b) ==
  LET type == Part(x).type
  IN  /\ x.pc \in {"idle", "step"} => x.facts = NoFacts
      /\ x.pc \notin {"sending", "waiting"} => ~x.waits /\ x.got = None /\ x.task = None /\ ~x.ended
      /\ x.pc = "looking" => type = "symbolInElf"
      /\ x.pc = "grading" => type = "question"
      /\ x.pc = "sending" => type = "serialExpect"
      /\ x.pc = "waiting" => type \in {"serialExpect", "debugStop", "task", "build"}
      /\ x.pc \in {"sending", "waiting"} /\ type = "serialExpect" =>
           /\ b /\ x.waits
           /\ x.facts.late <=> x.got = "no"
           /\ x.facts.heard <=> x.got = "yes"
      /\ x.task # None => type \in {"task", "build"}
      /\ x.pc = "waiting" /\ type \in {"task", "build"} =>
           /\ x.waits /\ x.task # None
           /\ x.facts.late => x.got = "no"
           /\ x.facts.exit # None => x.task = "exited"
           /\ x.got = "yes" => x.facts.exit = "expected"
           /\ x.got = "no" => x.facts.late \/ x.facts.exit # "expected"
      /\ x.pc = "ended" /\ type \in {"task", "build"} /\ ~x.facts.late =>
           (x.status = "passed" <=> x.facts.exit = "expected")
      /\ x.pc = "ended" /\ type = "serialExpect" /\ b => (x.status = "passed" <=> x.facts.heard)

StopTold(x) ==
  /\ x.pc = "waiting" /\ Part(x).type = "debugStop" =>
       x.waits /\ (x.facts.late <=> x.got = "no") /\ (x.facts.stopped <=> x.got = "yes")
  /\ x.pc = "ended" /\ Part(x).type = "debugStop" => (x.status = "passed" <=> x.facts.stopped)

\* Of two places, q comes before p; q is above p; q is p or below it.
Before(q, p) == \E k \in 1..Len(q) : k <= Len(p) /\ q[k] < p[k] /\ \A j \in 1..(k - 1) : q[j] = p[j]
Above(q, p) == Len(q) < Len(p) /\ \A j \in 1..Len(q) : q[j] = p[j]
Within(q, p) == Len(p) <= Len(q) /\ \A j \in 1..Len(p) : q[j] = p[j]

\* The all or any at q has come out as its parts have.
Agrees(c, passed, q) ==
  LET Parts == {Append(q, i) : i \in 1..c[q].parts}
  IN  /\ c[q].type = "all" => (q \in passed <=> Parts # {} /\ Parts \subseteq passed)
      /\ c[q].type = "any" => (q \in passed <=> Parts \cap passed # {})

\* Where a run has been: what passed is behind it, the parts that its alls and anys have
\* left behind let them go on, and whatever is not open agrees with its parts.
Walked(x) ==
  LET c == x.whole
  IN  /\ IsTree(c) /\ ValidateCheck(c) /\ x.path \in DOMAIN c
      /\ \A q \in x.passed : Before(q, x.path) \/ (x.pc = "ended" /\ Within(q, x.path))
      /\ \A q \in DOMAIN c : Above(q, x.path) =>
           \A j \in 1..(x.path[Len(q) + 1] - 1) : Append(q, j) \in x.passed <=> c[q].type = "all"
      /\ \A q \in DOMAIN c : Above(q, x.path) \/ (q = x.path /\ x.pc # "ended") \/ Agrees(c, x.passed, q)
      /\ x.pc = "ended" => x.status \in Statuses /\ (x.path \in x.passed <=> x.status = "passed")

Judged(x) ==
  /\ x.pc # "idle" => x.verdict = None /\ ~x.threw /\ Walked(x)
  /\ x.pc = "idle" /\ x.verdict # None /\ ~x.threw =>
       /\ x.verdict = "passed" <=> <<>> \in x.passed
       /\ \A q \in DOMAIN x.whole : Agrees(x.whole, x.passed, q)

OneDebugger == \A d, e \in Debuggers : d = e

RunGood(x, b) == x \in RunType /\ Answered(x, b) /\ (OneDebugger => StopTold(x)) /\ Judged(x)
RunsGood == run \in [Runs -> RunType] /\ \A r \in Runs : RunGood(run[r], bridge)

\* With one debugger the tracker has seen every stop.
StopsSeen ==
  /\ shown \in Seq(StopType)
  /\ debugger \in [Debuggers -> [at : Places \cup {None}, new : BOOLEAN]]
  /\ OneDebugger =>
       stops = Latest(shown) /\ \A d \in Debuggers : debugger[d].at # None => (pending <=> debugger[d].new)

StepsOpened == startedAt \in Seq(Nat) /\ open \in DOMAIN startedAt

Inv == LoadedInv /\ RunsGood /\ StopsSeen /\ bridge \in BOOLEAN /\ now \in Nat /\ StepsOpened

-----------------------------------------------------------------------------
(* Places in a check *)

LEMMA PathAppend ==
    ASSUME NEW p \in Paths, NEW i \in Nat \ {0}
    PROVE  /\ Append(p, i) \in Paths /\ Len(p) \in Nat /\ Len(Append(p, i)) = Len(p) + 1
           /\ \A j \in 1..Len(p) : Append(p, i)[j] = p[j]
           /\ Append(p, i)[Len(p) + 1] = i
  BY DEF Paths

LEMMA PathAt ==
    ASSUME NEW p \in Paths
    PROVE  /\ Len(p) \in Nat /\ DOMAIN p = 1..Len(p)
           /\ \A j \in 1..Len(p) : p[j] \in Nat \ {0}
  BY DEF Paths

LEMMA StopsEqual ==
    ASSUME NEW S, NEW p \in Seq(S), NEW q \in Seq(S), Len(p) = Len(q), \A j \in 1..Len(p) : p[j] = q[j]
    PROVE  p = q
  OBVIOUS

LEMMA PathEqual ==
    ASSUME NEW p \in Paths, NEW q \in Paths, Len(p) = Len(q), \A j \in 1..Len(p) : p[j] = q[j]
    PROVE  p = q
  BY DEF Paths

\* a is p and one step i further.
Extends(a, p, i) ==
  /\ Len(a) = Len(p) + 1 /\ a[Len(p) + 1] = i /\ \A j \in 1..Len(p) : a[j] = p[j]
IsPath(p) == Len(p) \in Nat /\ \A j \in 1..Len(p) : p[j] \in Nat

LEMMA PathExtends ==
    ASSUME NEW p \in Paths, NEW i \in Nat \ {0}
    PROVE  IsPath(p) /\ Append(p, i) \in Paths /\ Extends(Append(p, i), p, i)
  BY PathAppend, PathAt DEF Extends, IsPath

LEMMA SubSeqFirst ==
    ASSUME NEW S, NEW s, NEW n \in Nat, \A j \in 1..n : s[j] \in S
    PROVE  /\ SubSeq(s, 1, n) \in Seq(S) /\ Len(SubSeq(s, 1, n)) = n
           /\ \A j \in 1..n : SubSeq(s, 1, n)[j] = s[j]
  <1>1. 1 \in Int /\ n \in Int
    OBVIOUS
  <1>2. /\ SubSeq(s, 1, n) \in Seq(S)
        /\ Len(SubSeq(s, 1, n)) = IF 1 <= n THEN n - 1 + 1 ELSE 0
        /\ \A i \in 1..(n - 1 + 1) : SubSeq(s, 1, n)[i] = s[1 + i - 1]
    <2>1. PICK one \in Int : one = 1
      BY <1>1
    <2>2. \A j \in one..n : s[j] \in S
      BY <2>1
    <2>3. /\ SubSeq(s, one, n) \in Seq(S)
          /\ Len(SubSeq(s, one, n)) = IF one <= n THEN n - one + 1 ELSE 0
          /\ \A i \in 1..(n - one + 1) : SubSeq(s, one, n)[i] = s[one + i - 1]
      BY ONLY n \in Int, <2>2, SubSeqProperties
    <2> QED BY <2>1, <2>3, Zenon
  <1>3. PICK f : f = SubSeq(s, 1, n)
    OBVIOUS
  <1>4. Len(f) = (IF 1 <= n THEN n - 1 + 1 ELSE 0)
    BY <1>2, <1>3
  <1>5. \A i \in 1..(n - 1 + 1) : f[i] = s[1 + i - 1]
    BY <1>2, <1>3
  <1>6. Len(f) = n /\ \A j \in 1..n : f[j] = s[j]
    BY <1>4, <1>5
  <1> QED BY <1>2, <1>3, <1>6

LEMMA PathFront ==
    ASSUME NEW p \in Paths, p # <<>>
    PROVE  /\ Front(p) \in Paths /\ Last(p) \in Nat \ {0} /\ p = Append(Front(p), Last(p))
  <1>1. Len(p) \in Nat \ {0}
    BY DEF Paths
  <1>2. Front(p) \in Paths /\ Len(Front(p)) = Len(p) - 1 /\ \A j \in 1..(Len(p) - 1) : Front(p)[j] = p[j]
    <2>1. PICK n \in Nat : n = Len(p) - 1
      BY <1>1
    <2>2. \A j \in 1..n : p[j] \in Nat \ {0}
      BY <1>1, <2>1, PathAt
    <2>3. /\ SubSeq(p, 1, n) \in Seq(Nat \ {0}) /\ Len(SubSeq(p, 1, n)) = n
          /\ \A j \in 1..n : SubSeq(p, 1, n)[j] = p[j]
      BY <2>2, SubSeqFirst
    <2> QED BY <2>1, <2>3, Zenon DEF Paths, Front
  <1>3. Last(p) \in Nat \ {0} /\ Last(p) = p[Len(p)]
    BY <1>1, PathAt DEF Last
  <1>4. PICK f \in Paths : f = Front(p) /\ Len(f) = Len(p) - 1 /\ \A j \in 1..(Len(p) - 1) : f[j] = p[j]
    BY <1>2
  <1>5. PICK i \in Nat \ {0} : i = Last(p) /\ i = p[Len(p)]
    BY <1>3
  <1>6. PICK a \in Paths : a = Append(f, i) /\ Extends(a, f, i)
    BY PathExtends
  <1>7. Len(a) = Len(p) /\ \A j \in 1..Len(p) : p[j] = a[j]
    BY <1>1, <1>4, <1>5, <1>6 DEF Extends
  <1>8. p = a
    BY <1>7, PathEqual
  <1> QED BY <1>2, <1>3, <1>4, <1>5, <1>6, <1>8

LEMMA PartOf ==
    ASSUME NEW p \in Paths, NEW i \in Nat \ {0}
    PROVE  Above(p, Append(p, i)) /\ Append(p, i)[Len(p) + 1] = i
  <1>1. PICK a : a = Append(p, i) /\ Extends(a, p, i) /\ Len(p) \in Nat
    BY PathExtends DEF IsPath
  <1>2. Above(p, a) /\ a[Len(p) + 1] = i
    BY <1>1 DEF Extends, Above
  <1> QED BY <1>1, <1>2

LEMMA AboveExtends ==
    ASSUME NEW p \in Paths, NEW q \in Paths, NEW a, NEW i, Extends(a, p, i)
    PROVE  /\ Above(q, a) <=> Above(q, p) \/ q = p
           /\ Above(q, p) => a[Len(q) + 1] = p[Len(q) + 1]
           /\ ~Above(p, p)
  <1>2. Len(p) \in Nat /\ Len(q) \in Nat
    BY PathAt
  <1>3. Above(q, a) => Above(q, p) \/ q = p
    <2> SUFFICES ASSUME Above(q, a) PROVE Above(q, p) \/ q = p
      OBVIOUS
    <2>1. Len(q) <= Len(p) /\ \A j \in 1..Len(q) : q[j] = p[j]
      BY <1>2 DEF Above, Extends
    <2>2. CASE Len(q) = Len(p)
      BY <2>1, <2>2, PathEqual
    <2>3. CASE Len(q) < Len(p)
      BY <2>1, <2>3 DEF Above
    <2> QED BY <1>2, <2>1, <2>2, <2>3
  <1>4. Above(q, p) \/ q = p => Above(q, a)
    BY <1>2 DEF Extends, Above
  <1>5. Above(q, p) => a[Len(q) + 1] = p[Len(q) + 1]
    BY <1>2 DEF Extends, Above
  <1>6. ~Above(p, p)
    BY <1>2 DEF Above
  <1> QED BY <1>3, <1>4, <1>5, <1>6

\* a and b are two parts of p, a the earlier one.
LEMMA BeforeExtends ==
    ASSUME NEW p, NEW q, NEW a, NEW b, NEW i \in Nat \ {0},
           IsPath(p), IsPath(q), Extends(a, p, i), Extends(b, p, i + 1)
    PROVE  /\ Before(q, p) => Before(q, a)
           /\ Before(q, a) => Before(q, p) \/ Within(q, p)
           /\ Within(q, a) => Within(q, p)
           /\ Before(q, a) => Before(q, b)
           /\ Within(q, a) => Before(q, b)
           /\ ~Before(p, a) /\ ~Within(p, a) /\ Within(p, p)
  <1>0. i + 1 \in Nat \ {0} /\ Len(p) \in Nat /\ Len(q) \in Nat
    BY DEF IsPath
  <1>1. Before(q, p) => Before(q, a)
    BY <1>0 DEF Before, Extends
  <1>2. ASSUME NEW k \in 1..Len(q), k <= Len(a), q[k] < a[k], \A j \in 1..(k - 1) : q[j] = a[j]
        PROVE  (Before(q, p) \/ Within(q, p)) /\ Before(q, b)
    <2>1. \A j \in 1..(k - 1) : j \in 1..Len(p) /\ q[j] = p[j] /\ q[j] = b[j]
      BY <1>0, <1>2 DEF Extends
    <2>2. CASE k <= Len(p)
      <3>1. k \in 1..Len(p) /\ q[k] < p[k] /\ b[k] = p[k] /\ k <= Len(b)
        BY <1>0, <1>2, <2>2 DEF Extends
      <3> QED BY <2>1, <3>1 DEF Before
    <2>3. CASE k = Len(p) + 1
      <3>1. Within(q, p)
        BY <1>0, <2>1, <2>3 DEF Within
      <3>2. q[k] < i /\ q[k] \in Nat
        BY <1>0, <1>2, <2>3 DEF Extends, IsPath
      <3>3. q[k] < b[k] /\ k <= Len(b)
        BY <1>0, <2>3, <3>2 DEF Extends
      <3> QED BY <2>1, <3>1, <3>3 DEF Before
    <2>4. k <= Len(p) \/ k = Len(p) + 1
      BY <1>0, <1>2 DEF Extends
    <2> QED BY <2>2, <2>3, <2>4
  <1>3. Before(q, a) => (Before(q, p) \/ Within(q, p)) /\ Before(q, b)
    BY <1>2 DEF Before
  <1>4. Within(q, a) => Within(q, p) /\ Before(q, b)
    <2> SUFFICES ASSUME Within(q, a) PROVE Within(q, p) /\ Before(q, b)
      OBVIOUS
    <2>1. Len(p) + 1 <= Len(q) /\ q[Len(p) + 1] = i /\ \A j \in 1..Len(p) : q[j] = p[j]
      BY <1>0 DEF Within, Extends
    <2>2. \A j \in 1..Len(p) : q[j] = b[j]
      BY <1>0, <2>1 DEF Extends
    <2>3. Before(q, b)
      <3>1. Len(p) + 1 \in 1..Len(q) /\ (Len(p) + 1) - 1 = Len(p)
        BY <1>0, <2>1
      <3>2. q[Len(p) + 1] < b[Len(p) + 1] /\ Len(p) + 1 <= Len(b)
        BY <1>0, <2>1 DEF Extends
      <3> QED BY <2>2, <3>1, <3>2 DEF Before
    <2> QED BY <1>0, <2>1, <2>3 DEF Within
  <1>5. ~Before(p, a)
    BY <1>0 DEF Before, Extends, IsPath
  <1>6. ~Within(p, a) /\ Within(p, p)
    BY <1>0 DEF Within, Extends
  <1> QED BY <1>1, <1>3, <1>4, <1>5, <1>6

LEMMA BeforeAppend ==
    ASSUME NEW p \in Paths, NEW q \in Paths, NEW i \in Nat \ {0}
    PROVE  /\ Before(q, p) => Before(q, Append(p, i))
           /\ Before(q, Append(p, i)) => Before(q, p) \/ Within(q, p)
           /\ Within(q, Append(p, i)) => Within(q, p)
           /\ Before(q, Append(p, i)) => Before(q, Append(p, i + 1))
           /\ Within(q, Append(p, i)) => Before(q, Append(p, i + 1))
           /\ ~Before(p, Append(p, i)) /\ ~Within(p, Append(p, i)) /\ Within(p, p)
  <1>1. PICK a : a = Append(p, i) /\ Extends(a, p, i)
    BY PathExtends
  <1>2. PICK b : b = Append(p, i + 1) /\ Extends(b, p, i + 1)
    <2>1. i + 1 \in Nat \ {0}
      OBVIOUS
    <2> QED BY <2>1, PathExtends
  <1>3. IsPath(p) /\ IsPath(q)
    BY PathExtends
  <1>4. /\ Before(q, p) => Before(q, a)
        /\ Before(q, a) => Before(q, p) \/ Within(q, p)
        /\ Within(q, a) => Within(q, p)
        /\ Before(q, a) => Before(q, b)
        /\ Within(q, a) => Before(q, b)
        /\ ~Before(p, a) /\ ~Within(p, a) /\ Within(p, p)
    <2>1. Extends(a, p, i) /\ Extends(b, p, i + 1)
      BY <1>1, <1>2
    <2> QED BY <1>3, <2>1, BeforeExtends, Zenon
  <1> QED BY <1>1, <1>2, <1>4

LEMMA BeforeItself ==
    ASSUME NEW p \in Paths
    PROVE  ~Before(p, p)
  BY PathAt DEF Before

\* A later part is not behind an earlier one.
LEMMA LaterPart ==
    ASSUME NEW p \in Paths, NEW i \in Nat \ {0}, NEW j \in Nat \ {0}, i < j
    PROVE  ~Before(Append(p, j), Append(p, i)) /\ ~Within(Append(p, j), Append(p, i))
  <1>1. PICK a : a = Append(p, i) /\ Extends(a, p, i)
    BY PathExtends
  <1>2. PICK b : b = Append(p, j) /\ Extends(b, p, j)
    BY PathExtends
  <1>3. Len(p) \in Nat /\ \A k \in 1..Len(p) : p[k] \in Nat
    BY PathAt
  <1>4. \A k \in 1..(Len(p) + 1) : ~(b[k] < a[k])
    <2> TAKE k \in 1..(Len(p) + 1)
    <2>1. k \in 1..Len(p) \/ k = Len(p) + 1
      BY <1>3
    <2>2. CASE k \in 1..Len(p)
      BY <1>1, <1>2, <1>3, <2>2 DEF Extends
    <2>3. CASE k = Len(p) + 1
      BY <1>1, <1>2, <2>3 DEF Extends
    <2> QED BY <2>1, <2>2, <2>3
  <1>5. ~Before(b, a)
    BY <1>1, <1>2, <1>3, <1>4 DEF Before, Extends
  <1>6. ~Within(b, a)
    BY <1>1, <1>2, <1>3 DEF Within, Extends
  <1> QED BY <1>1, <1>2, <1>5, <1>6

-----------------------------------------------------------------------------
(* Where a run is *)

\* All but what is at p and above it has come out.
Reached(c, passed, p) ==
  /\ IsTree(c) /\ ValidateCheck(c) /\ p \in DOMAIN c
  /\ p \notin passed /\ \A q \in passed : Before(q, p) \/ Within(q, p)
  /\ \A q \in DOMAIN c : Above(q, p) =>
       \A j \in 1..(p[Len(q) + 1] - 1) : Append(q, j) \in passed <=> c[q].type = "all"
  /\ \A q \in DOMAIN c : Above(q, p) \/ q = p \/ Agrees(c, passed, q)

LEMMA TreePaths ==
    ASSUME NEW c, IsTree(c)
    PROVE  DOMAIN c \subseteq Paths
  BY DEF IsTree, Paths

LEMMA StepReached ==
    ASSUME NEW x \in RunType, Walked(x), x.pc # "ended"
    PROVE  Reached(x.whole, x.passed, x.path)
  <1>1. x.path \in Paths
    BY DEF RunType
  <1>2. x.path \notin x.passed
    BY <1>1, BeforeItself DEF Walked
  <1> QED BY <1>2 DEF Walked, Reached

\* A place that comes out as its parts have
LEMMA EndsWalked ==
    ASSUME NEW x \in RunType, Reached(x.whole, x.passed, x.path), NEW status \in Statuses,
           Agrees(x.whole, Ends(x, status).passed, x.path)
    PROVE  Walked(Ends(x, status))
  <1>1. PICK c, p, old, new : /\ c = x.whole /\ p = x.path /\ old = x.passed
                              /\ new = IF status = "passed" THEN old \cup {p} ELSE old
    OBVIOUS
  <1>2. /\ Ends(x, status).whole = c /\ Ends(x, status).path = p /\ Ends(x, status).passed = new
        /\ Ends(x, status).pc = "ended" /\ Ends(x, status).status = status
    BY <1>1 DEF RunType, Ends
  <1>3. Reached(c, old, p) /\ Agrees(c, new, p) /\ p \in Paths /\ DOMAIN c \subseteq Paths
    BY <1>1, <1>2, TreePaths DEF Reached, RunType
  <1>4. \A q \in new : Before(q, p) \/ Within(q, p)
    <2>1. Within(p, p)
      BY <1>3, PathAt DEF Within
    <2> QED BY <1>1, <1>3, <2>1 DEF Reached
  <1>5. ASSUME NEW q \in DOMAIN c, Above(q, p), NEW j \in 1..(p[Len(q) + 1] - 1)
        PROVE  Append(q, j) \in new <=> c[q].type = "all"
    <2>1. Len(q) \in Nat /\ p[Len(q) + 1] \in Nat \ {0}
      BY <1>3, <1>5, PathAt DEF Above
    <2>2. j \in Nat \ {0} /\ j # p[Len(q) + 1]
      BY <2>1
    <2>3. Append(q, j) # p
      BY <1>3, <2>2, PartOf
    <2> QED BY <1>1, <1>3, <1>5, <2>3 DEF Reached
  <1>6. ASSUME NEW q \in DOMAIN c, ~Above(q, p) PROVE Agrees(c, new, q)
    <2>1. CASE q = p
      BY <1>3, <2>1
    <2>2. CASE q # p
      <3>1. Agrees(c, old, q)
        BY <1>3, <1>6, <2>2 DEF Reached
      <3>2. ASSUME NEW i \in 1..c[q].parts PROVE Append(q, i) # p
        <4>1. c[q].parts \in Nat
          BY <1>3 DEF Reached, IsTree
        <4>2. i \in Nat \ {0}
          BY <4>1
        <4> QED BY <1>3, <1>6, <4>2, PartOf
      <3> QED BY <1>1, <2>2, <3>1, <3>2 DEF Agrees
    <2> QED BY <2>1, <2>2
  <1>7. p \in new <=> status = "passed"
    BY <1>1, <1>3 DEF Reached
  <1> QED BY <1>2, <1>3, <1>4, <1>5, <1>6, <1>7 DEF Walked, Reached

LEMMA EndsType ==
    ASSUME NEW x \in RunType, NEW status \in Statuses
    PROVE  Ends(x, status) \in RunType
  <1>1. x.passed \in SUBSET Paths /\ x.path \in Paths
    BY DEF RunType
  <1>2. PICK new \in SUBSET Paths : new = IF status = "passed" THEN x.passed \cup {x.path} ELSE x.passed
    BY <1>1
  <1>3. Ends(x, status) = [x EXCEPT !.pc = "ended", !.status = status, !.waits = FALSE, !.got = None,
                                    !.task = None, !.ended = FALSE, !.passed = new]
    BY <1>2 DEF Ends
  <1>4. [x EXCEPT !.pc = "ended", !.status = status, !.waits = FALSE, !.got = None,
                  !.task = None, !.ended = FALSE, !.passed = new] \in RunType
    BY DEF RunType
  <1> QED BY <1>3, <1>4

LEMMA LeafEnds ==
    ASSUME NEW x \in RunType, Judged(x), x.pc \notin {"idle", "ended"}, Part(x).type \notin Composite,
           NEW status \in Statuses
    PROVE  Judged(Ends(x, status))
  <1>1. Reached(x.whole, x.passed, x.path)
    BY StepReached DEF Judged
  <1>2. Agrees(x.whole, Ends(x, status).passed, x.path)
    BY DEF Agrees, Part, Composite
  <1>3. Walked(Ends(x, status))
    BY <1>1, <1>2, EndsWalked
  <1>4. /\ Ends(x, status).pc = "ended" /\ Ends(x, status).verdict = x.verdict
        /\ Ends(x, status).threw = x.threw
    BY DEF RunType, Ends
  <1> QED BY <1>3, <1>4 DEF Judged

\* What a run still waits for and is told of says nothing of its place.
LEMMA JudgedSame ==
    ASSUME NEW x \in RunType, NEW y \in RunType, Judged(x), x.pc \notin {"idle", "ended"},
           y.pc \notin {"idle", "ended"}, y.whole = x.whole, y.path = x.path, y.passed = x.passed,
           y.verdict = x.verdict, y.threw = x.threw
    PROVE  Judged(y)
  BY DEF Judged, Walked

\* The part at path has ended: what is above it is reached, and its own parts are as it has them.
LEMMA PartEnded ==
    ASSUME NEW x \in RunType, Walked(x), x.pc = "ended", NEW p \in Paths, NEW i \in Nat \ {0},
           x.path = Append(p, i)
    PROVE  /\ Reached(x.whole, x.passed, p) /\ i \in 1..x.whole[p].parts
           /\ x.whole[p].type \in Composite /\ x.whole[p].parts \in Nat
           /\ \A j \in 1..(i - 1) : Append(p, j) \in x.passed <=> x.whole[p].type = "all"
           /\ Append(p, i) \in x.passed <=> x.status = "passed"
           /\ \A j \in 1..x.whole[p].parts : i < j => Append(p, j) \notin x.passed
  <1>1. PICK c, old, a : c = x.whole /\ old = x.passed /\ a = Append(p, i) /\ x.path = a
                      /\ a \in Paths /\ Extends(a, p, i) /\ IsPath(p)
    BY PathExtends DEF RunType
  <1>2. IsTree(c) /\ a \in DOMAIN c /\ DOMAIN c \subseteq Paths /\ old \subseteq Paths
    BY <1>1, TreePaths DEF Walked, RunType
  <1>3. Front(a) = p /\ Last(a) = i /\ a # <<>>
    <2>0. Extends(a, p, i) /\ Len(p) \in Nat
      BY <1>1, PathExtends DEF IsPath
    <2>1. a # <<>> /\ Len(p) \in Nat
      BY <2>0 DEF Extends
    <2>2. PICK f, l : /\ f = Front(a) /\ l = Last(a) /\ a = Append(f, l)
                      /\ f \in Paths /\ l \in Nat \ {0}
      BY <1>1, <2>1, PathFront
    <2>3. Extends(a, p, i) /\ Extends(a, f, l) /\ Len(f) \in Nat
      BY <1>1, <2>2, PathExtends DEF IsPath
    <2>4. Len(f) = Len(p) /\ \A j \in 1..Len(f) : f[j] = p[j]
      BY <2>1, <2>3 DEF Extends
    <2>5. f = p
      BY <2>2, <2>4, PathEqual
    <2>6. l = i
      BY <2>3, <2>5 DEF Extends
    <2> QED BY <2>1, <2>2, <2>5, <2>6
  <1>4. p \in DOMAIN c /\ i \in 1..c[p].parts /\ c[p].parts \in Nat
    BY <1>2, <1>3 DEF IsTree
  <1>5. c[p].type \in Composite
    BY <1>2, <1>4 DEF IsTree
  <1>6. Above(p, a) /\ a[Len(p) + 1] = i
    BY <1>1, PartOf
  <1>7. /\ \A q \in old : Before(q, a) \/ Within(q, a)
        /\ \A q \in DOMAIN c : Above(q, a) =>
             \A j \in 1..(a[Len(q) + 1] - 1) : Append(q, j) \in old <=> c[q].type = "all"
        /\ \A q \in DOMAIN c : Above(q, a) \/ Agrees(c, old, q)
        /\ a \in old <=> x.status = "passed"
    BY <1>1 DEF Walked
  <1>8. p \notin old /\ \A q \in old : Before(q, p) \/ Within(q, p)
    <2>1. ASSUME NEW q \in old PROVE q # p /\ (Before(q, p) \/ Within(q, p))
      <3>1. q \in Paths
        BY <1>2
      <3> QED BY <1>1, <1>7, <3>1, BeforeAppend
    <2> QED BY <2>1
  <1>9. \A q \in DOMAIN c :
          (Above(q, a) <=> Above(q, p) \/ q = p)
          /\ (Above(q, p) => a[Len(q) + 1] = p[Len(q) + 1])
    <2> TAKE q \in DOMAIN c
    <2>1. q \in Paths
      BY <1>2
    <2> QED BY <1>1, <2>1, AboveExtends
  <1>10. Reached(c, old, p)
    BY <1>1, <1>2, <1>4, <1>7, <1>8, <1>9 DEF Reached, Walked
  <1>11. ASSUME NEW j \in 1..c[p].parts, i < j PROVE Append(p, j) \notin old
    <2>1. j \in Nat \ {0}
      BY <1>4
    <2> QED BY <1>1, <1>7, <1>11, <2>1, LaterPart
  <1> QED BY <1>1, <1>4, <1>5, <1>6, <1>7, <1>10, <1>11

LEMMA DescendsWalked ==
    ASSUME NEW x \in RunType, Judged(x), x.pc = "step", Part(x).type \in Composite
    PROVE  /\ Part(x).parts # 0 /\ [x EXCEPT !.path = Append(@, 1)] \in RunType
           /\ Judged([x EXCEPT !.path = Append(@, 1)])
  <1> DEFINE y == [x EXCEPT !.path = Append(@, 1)]
  <1>1. PICK c, p, old : c = x.whole /\ p = x.path /\ old = x.passed /\ p \in Paths
    BY DEF RunType
  <1>2. PICK a : a = Append(p, 1) /\ a \in Paths /\ Extends(a, p, 1) /\ IsPath(p)
    <2>1. 1 \in Nat \ {0}
      OBVIOUS
    <2> QED BY <1>1, <2>1, PathExtends
  <1>3. y = [x EXCEPT !.path = a]
    BY <1>1, <1>2
  <1> HIDE DEF y
  <1>4. y \in RunType /\ y.whole = c /\ y.path = a /\ y.passed = old /\ y.pc = "step"
        /\ y.verdict = x.verdict /\ y.threw = x.threw
    <2>1. a \in Paths
      BY <1>2
    <2> QED BY <1>1, <1>3, <2>1 DEF RunType
  <1>5. Reached(c, old, p) /\ \A q \in old : Before(q, p)
    BY <1>1, StepReached DEF Judged, Walked
  <1>6. IsTree(c) /\ ValidateCheck(c) /\ DOMAIN c \subseteq Paths /\ old \subseteq Paths
    BY <1>1, <1>5, TreePaths DEF Reached, RunType
  <1>7. c[p].parts # 0 /\ a \in DOMAIN c
    <2>1. p \in DOMAIN c /\ c[p].type \in Composite /\ c[p].parts \in Nat
      BY <1>1, <1>5, <1>6 DEF Reached, Part, IsTree
    <2>2. c[p].parts # 0
      BY <1>6, <2>1 DEF ValidateCheck
    <2>3. 1 \in 1..c[p].parts
      BY <2>1, <2>2
    <2> QED BY <1>2, <1>6, <2>1, <2>2, <2>3 DEF IsTree
  <1>8. \A q \in old : Before(q, a)
    <2> TAKE q \in old
    <2>1. q \in Paths /\ 1 \in Nat \ {0}
      BY <1>6
    <2> QED BY <1>1, <1>2, <1>5, <2>1, BeforeAppend
  <1>9. \A q \in DOMAIN c :
          (Above(q, a) <=> Above(q, p) \/ q = p)
          /\ (Above(q, p) => a[Len(q) + 1] = p[Len(q) + 1])
    <2> TAKE q \in DOMAIN c
    <2>1. q \in Paths
      BY <1>6
    <2> QED BY <1>1, <1>2, <2>1, AboveExtends
  <1>10. a[Len(p) + 1] - 1 = 0
    <2>1. a[Len(p) + 1] = 1
      BY <1>2, PartOf
    <2> QED BY <2>1
  <1>11. \A q \in DOMAIN c : Above(q, a) =>
           \A j \in 1..(a[Len(q) + 1] - 1) : Append(q, j) \in old <=> c[q].type = "all"
    BY <1>5, <1>9, <1>10 DEF Reached
  <1>12. \A q \in DOMAIN c : Above(q, a) \/ Agrees(c, old, q)
    BY <1>5, <1>9 DEF Reached
  <1>13. Walked(y)
    BY <1>4, <1>6, <1>7, <1>8, <1>11, <1>12 DEF Walked
  <1>14. Judged(y)
    BY <1>4, <1>13 DEF Judged
  <1> QED BY <1>1, <1>4, <1>7, <1>14 DEF Part, y

LEMMA OpensWalked ==
    ASSUME NEW x \in RunType, Walked(x), x.pc = "ended", NEW p \in Paths, NEW i \in Nat \ {0},
           x.path = Append(p, i), ~EndsEarly(x.whole[p].type, x.status), i < x.whole[p].parts,
           NEW y \in RunType, y.whole = x.whole, y.passed = x.passed, y.pc = "step",
           y.path = Append(p, i + 1)
    PROVE  Walked(y)
  <1>1. PICK c, old, a : c = x.whole /\ old = x.passed /\ a = Append(p, i) /\ x.path = a
                      /\ a \in Paths /\ Extends(a, p, i) /\ IsPath(p)
    BY PathExtends DEF RunType
  <1>2. PICK b : b = Append(p, i + 1) /\ y.path = b /\ b \in Paths /\ Extends(b, p, i + 1)
    <2>1. i + 1 \in Nat \ {0}
      OBVIOUS
    <2> QED BY <2>1, PathExtends
  <1>3. /\ Reached(c, old, p) /\ c[p].type \in Composite /\ c[p].parts \in Nat
        /\ \A j \in 1..(i - 1) : Append(p, j) \in old <=> c[p].type = "all"
        /\ a \in old <=> x.status = "passed"
    BY <1>1, PartEnded
  <1>4. IsTree(c) /\ ValidateCheck(c) /\ DOMAIN c \subseteq Paths /\ old \subseteq Paths /\ p \in DOMAIN c
    BY <1>1, <1>3, TreePaths DEF Reached, RunType
  <1>5. b \in DOMAIN c
    <2>1. i + 1 \in 1..c[p].parts
      BY <1>1, <1>3
    <2> QED BY <1>2, <1>4, <2>1 DEF IsTree
  <1>6. \A q \in old : Before(q, b)
    <2> TAKE q \in old
    <2>1. q \in Paths
      BY <1>4
    <2>2. Before(q, a) \/ Within(q, a)
      BY <1>1 DEF Walked
    <2> QED BY <1>1, <1>2, <2>1, <2>2, BeforeAppend
  <1>7. i + 1 \in Nat \ {0}
    OBVIOUS
  <1>8. \A q \in DOMAIN c :
          (Above(q, b) <=> Above(q, p) \/ q = p)
          /\ (Above(q, p) => b[Len(q) + 1] = p[Len(q) + 1])
    <2> TAKE q \in DOMAIN c
    <2>1. q \in Paths
      BY <1>4
    <2>2. Extends(b, p, i + 1)
      BY <1>2
    <2> QED BY <2>1, <2>2, AboveExtends, Zenon
  <1>9. b[Len(p) + 1] = i + 1
    BY <1>2, <1>7, PartOf
  <1>10. \A j \in 1..i : Append(p, j) \in old <=> c[p].type = "all"
    <2>1. a \in old <=> c[p].type = "all"
      BY <1>1, <1>3 DEF EndsEarly, Composite
    <2> TAKE j \in 1..i
    <2>2. j \in 1..(i - 1) \/ j = i
      OBVIOUS
    <2> QED BY <1>1, <1>3, <2>1, <2>2
  <1>11. ASSUME NEW q \in DOMAIN c, Above(q, b), NEW j \in 1..(b[Len(q) + 1] - 1)
         PROVE  Append(q, j) \in old <=> c[q].type = "all"
    <2>1. CASE q = p
      <3>1. j \in 1..i
        BY <1>9, <1>11, <2>1
      <3> QED BY <1>10, <2>1, <3>1
    <2>2. CASE q # p
      BY <1>3, <1>8, <1>11, <2>2 DEF Reached
    <2> QED BY <2>1, <2>2
  <1>12. \A q \in DOMAIN c : Above(q, b) \/ Agrees(c, old, q)
    BY <1>3, <1>8 DEF Reached
  <1> QED BY <1>1, <1>2, <1>4, <1>5, <1>6, <1>11, <1>12 DEF Walked

\* An all or any comes out as its parts have, early or after the last one.
LEMMA PartsAgree ==
    ASSUME NEW x \in RunType, Walked(x), x.pc = "ended", NEW p \in Paths, NEW i \in Nat \ {0},
           x.path = Append(p, i), NEW status \in Statuses,
           \/ EndsEarly(x.whole[p].type, x.status) /\ status = x.status
           \/ /\ ~EndsEarly(x.whole[p].type, x.status) /\ ~(i < x.whole[p].parts)
              /\ status = "passed" <=> x.whole[p].type = "all"
    PROVE  Agrees(x.whole, IF status = "passed" THEN x.passed \cup {p} ELSE x.passed, p)
  <1>1. PICK c, old, new : /\ c = x.whole /\ old = x.passed
                           /\ new = IF status = "passed" THEN old \cup {p} ELSE old
    OBVIOUS
  <1>2. /\ Reached(c, old, p) /\ i \in 1..c[p].parts
        /\ c[p].type \in Composite /\ c[p].parts \in Nat
        /\ \A j \in 1..(i - 1) : Append(p, j) \in old <=> c[p].type = "all"
        /\ Append(p, i) \in old <=> x.status = "passed"
        /\ \A j \in 1..c[p].parts : i < j => Append(p, j) \notin old
    BY <1>1, PartEnded
  <1>3. p \notin old
    BY <1>2 DEF Reached
  <1>4. \A j \in 1..c[p].parts : Append(p, j) \in new <=> Append(p, j) \in old
    <2> TAKE j \in 1..c[p].parts
    <2>1. j \in Nat \ {0}
      BY <1>2
    <2>2. Above(p, Append(p, j)) /\ ~Above(p, p)
      BY <2>1, PartOf, PathAt DEF Above
    <2>3. Append(p, j) # p
      BY <2>2
    <2> QED BY <1>1, <2>3
  <1>5. p \in new <=> status = "passed"
    BY <1>1, <1>3
  <1>6. CASE c[p].type = "all"
    <2>1. status = "passed" <=> \A j \in 1..c[p].parts : Append(p, j) \in old
      <3>1. CASE EndsEarly(c[p].type, x.status)
        BY <1>1, <1>2, <1>6, <3>1 DEF EndsEarly
      <3>2. CASE ~EndsEarly(c[p].type, x.status)
        <4>1. \A j \in 1..c[p].parts : j \in 1..(i - 1) \/ j = i
          BY <1>1, <1>2, <3>2
        <4> QED BY <1>1, <1>2, <1>6, <3>2, <4>1 DEF EndsEarly
      <3> QED BY <3>1, <3>2
    <2> QED BY <1>1, <1>2, <1>4, <1>5, <1>6, <2>1 DEF Agrees
  <1>7. CASE c[p].type = "any"
    <2>1. status = "passed" <=> \E j \in 1..c[p].parts : Append(p, j) \in old
      <3>1. CASE EndsEarly(c[p].type, x.status)
        BY <1>1, <1>2, <1>7, <3>1 DEF EndsEarly
      <3>2. CASE ~EndsEarly(c[p].type, x.status)
        <4>1. \A j \in 1..c[p].parts : j \in 1..(i - 1) \/ j = i
          BY <1>1, <1>2, <3>2
        <4> QED BY <1>1, <1>2, <1>7, <3>2, <4>1 DEF EndsEarly
      <3> QED BY <3>1, <3>2
    <2> QED BY <1>1, <1>2, <1>4, <1>5, <1>7, <2>1 DEF Agrees
  <1> QED BY <1>1, <1>2, <1>6, <1>7 DEF Composite

-----------------------------------------------------------------------------
(* One run takes a step *)

LEMMA RunSet ==
    ASSUME RunsGood, NEW r \in Runs, NEW y, RunGood(y, bridge), run' = [run EXCEPT ![r] = y],
           UNCHANGED bridge
    PROVE  RunsGood'
  <1>1. run' \in [Runs -> RunType]
    BY DEF RunsGood, RunGood
  <1>2. ASSUME NEW q \in Runs PROVE RunGood(run'[q], bridge)
    <2>1. run'[q] = IF q = r THEN y ELSE run[q]
      BY DEF RunsGood
    <2> QED BY <2>1 DEF RunsGood
  <1> QED BY <1>1, <1>2 DEF RunsGood, RunGood, Answered, StopTold, Judged, Walked

LEMMA RunsSet ==
    ASSUME \A r \in Runs : RunGood(run'[r], bridge), run' = [r \in Runs |-> run'[r]], UNCHANGED bridge
    PROVE  RunsGood'
  <1>1. \A r \in Runs : run'[r] \in RunType
    BY DEF RunGood
  <1>2. run' \in [Runs -> RunType]
    BY <1>1
  <1> QED BY <1>2 DEF RunsGood, RunGood, Answered, StopTold, Judged, Walked

LEMMA Throws ==
    ASSUME RunsGood, NEW r \in Runs, Throw(r), UNCHANGED bridge
    PROVE  RunsGood'
  <1> DEFINE y == [Idle EXCEPT !.verdict = "failed", !.threw = TRUE]
  <1>1. y \in RunType
    <2>1. {} \in SUBSET Paths /\ <<>> \in Paths
      BY DEF Paths
    <2> QED BY <2>1 DEF RunType, FactsType, Idle, NoFacts, Statuses
  <1>2. Answered(y, bridge) /\ StopTold(y) /\ Judged(y)
    BY DEF Answered, StopTold, Judged, Idle
  <1> HIDE DEF y
  <1>3. run' = [run EXCEPT ![r] = y]
    BY DEF Throw, y
  <1> QED BY <1>1, <1>2, <1>3, RunSet DEF RunGood

\* What a part that ends must have been told.
MayEnd(x, status, b) ==
  /\ Part(x).type \notin Composite
  /\ Part(x).type \in {"task", "build"} /\ ~x.facts.late =>
       (status = "passed" <=> x.facts.exit = "expected")
  /\ Part(x).type = "serialExpect" /\ b => (status = "passed" <=> x.facts.heard)
  /\ OneDebugger /\ Part(x).type = "debugStop" => (status = "passed" <=> x.facts.stopped)

LEMMA EndsAnswered ==
    ASSUME NEW x \in RunType, NEW b, NEW status \in Statuses,
           MayEnd(x, status, b) \/ Part(x).type \in Composite
    PROVE  Answered(Ends(x, status), b) /\ (OneDebugger => StopTold(Ends(x, status)))
  <1>1. PICK y : y = Ends(x, status)
    OBVIOUS
  <1>2. /\ y.pc = "ended" /\ y.whole = x.whole /\ y.path = x.path /\ y.status = status
        /\ ~y.waits /\ y.got = None /\ y.task = None /\ ~y.ended /\ y.facts = x.facts
    BY <1>1 DEF Ends, RunType
  <1>3. Part(y) = Part(x)
    BY <1>2 DEF Part
  <1>4. Answered(y, b)
    BY <1>2, <1>3 DEF Answered, MayEnd, Composite
  <1>5. OneDebugger => StopTold(y)
    BY <1>2, <1>3 DEF StopTold, MayEnd, Composite
  <1> QED BY <1>1, <1>4, <1>5

LEMMA AscendsGood ==
    ASSUME NEW x, NEW b, RunGood(x, b), x.pc = "ended", x.path # <<>>
    PROVE  RunGood(Ascends(x), b)
  <1>0. x \in RunType /\ Judged(x) /\ Answered(x, b)
    BY DEF RunGood
  <1>1. PICK p, i : p = Front(x.path) /\ i = Last(x.path) /\ x.path = Append(p, i)
                    /\ p \in Paths /\ i \in Nat \ {0}
    BY <1>0, PathFront DEF RunType
  <1>2. PICK sofar \in SUBSET Paths :
          sofar = IF x.status = "unavailable" THEN x.sawUnavailable \cup {p} ELSE x.sawUnavailable
    BY <1>0, <1>1 DEF RunType
  <1> DEFINE up == [x EXCEPT !.path = Front(@), !.facts = NoFacts,
                             !.sawUnavailable = IF x.status = "unavailable"
                                                THEN @ \cup {Front(x.path)} ELSE @]
  <1>3. up = [x EXCEPT !.path = p, !.facts = NoFacts, !.sawUnavailable = sofar]
    BY <1>1, <1>2
  <1>4. /\ up \in RunType /\ up.path = p /\ up.whole = x.whole /\ up.passed = x.passed
        /\ up.verdict = x.verdict /\ up.threw = x.threw /\ up.pc = "ended"
        /\ up.waits = x.waits /\ up.got = x.got /\ up.task = x.task /\ up.ended = x.ended
    <2>1. NoFacts \in FactsType
      BY DEF NoFacts, FactsType
    <2>2. p \in Paths
      BY <1>1
    <2> QED BY <1>0, <1>3, <2>1, <2>2 DEF RunType
  <1>5. Ascends(x) = IF EndsEarly(Part(up).type, x.status) THEN Ends(up, x.status)
                     ELSE IF Last(x.path) < Part(up).parts
                     THEN Opens(up, Append(up.path, Last(x.path) + 1))
                     ELSE Ends(up, IF Part(up).type = "all" THEN "passed" ELSE AnyFails(up))
    BY DEF Ascends
  <1> HIDE DEF up
  <1>6. PICK c : c = x.whole[p] /\ c = Part(up)
    BY <1>4 DEF Part
  <1>7. Ascends(x) = IF EndsEarly(c.type, x.status) THEN Ends(up, x.status)
                     ELSE IF i < c.parts THEN Opens(up, Append(p, i + 1))
                     ELSE Ends(up, IF c.type = "all" THEN "passed" ELSE AnyFails(up))
    BY <1>1, <1>4, <1>5, <1>6
  <1>8. Walked(x) /\ x.verdict = None /\ ~x.threw
    BY <1>0 DEF Judged
  <1>9. x.status \in Statuses
    BY <1>8 DEF Walked
  <1>10. Reached(up.whole, up.passed, up.path)
    <2>1. Reached(x.whole, x.passed, p)
      BY <1>0, <1>1, <1>8, PartEnded
    <2> QED BY <1>4, <2>1
  <1>11. ASSUME NEW status \in Statuses,
                Agrees(x.whole, IF status = "passed" THEN x.passed \cup {p} ELSE x.passed, p)
         PROVE  RunGood(Ends(up, status), b)
    <2>1. /\ Ends(up, status).pc = "ended" /\ Ends(up, status).verdict = up.verdict
          /\ Ends(up, status).threw = up.threw
          /\ Ends(up, status).passed = IF status = "passed" THEN up.passed \cup {up.path} ELSE up.passed
      BY <1>4 DEF Ends, RunType
    <2>2. Walked(Ends(up, status))
      BY <1>4, <1>10, <1>11, <2>1, EndsWalked
    <2>3. Part(up).type \in Composite
      <3>1. x.whole[p].type \in Composite
        BY <1>0, <1>1, <1>8, PartEnded
      <3> QED BY <1>4, <3>1 DEF Part
    <2>4. Answered(Ends(up, status), b) /\ (OneDebugger => StopTold(Ends(up, status)))
      BY <1>4, <2>3, EndsAnswered
    <2> QED BY <1>4, <1>8, <2>1, <2>2, <2>4, EndsType DEF Judged, RunGood
  <1>12. CASE EndsEarly(c.type, x.status)
    BY <1>0, <1>1, <1>6, <1>7, <1>8, <1>9, <1>11, <1>12, PartsAgree
  <1>13. CASE ~EndsEarly(c.type, x.status) /\ i < c.parts
    <2>1. PICK a : a = Append(p, i + 1) /\ a \in Paths
      <3>1. i + 1 \in Nat \ {0}
        BY <1>1
      <3> QED BY <1>1, <3>1, PathAppend
    <2>2. PICK y : y = Opens(up, a)
      OBVIOUS
    <2>3. /\ y \in RunType /\ y.whole = x.whole /\ y.passed = x.passed /\ y.pc = "step" /\ y.path = a
          /\ y.verdict = None /\ ~y.threw /\ y.facts = NoFacts
          /\ y.waits = x.waits /\ y.got = x.got /\ y.task = x.task /\ y.ended = x.ended
      <3>1. NoFacts \in FactsType
        BY DEF NoFacts, FactsType
      <3>2. a \in Paths /\ up \in RunType /\ y = [up EXCEPT !.pc = "step", !.path = a, !.status = None,
                                                        !.facts = NoFacts]
        BY <1>4, <2>1, <2>2 DEF Opens
      <3>3. /\ y \in RunType /\ y.whole = up.whole /\ y.passed = up.passed /\ y.pc = "step" /\ y.path = a
            /\ y.verdict = up.verdict /\ y.threw = up.threw /\ y.facts = NoFacts
            /\ y.waits = up.waits /\ y.got = up.got /\ y.task = up.task /\ y.ended = up.ended
        BY <3>1, <3>2 DEF RunType
      <3> QED BY <1>4, <1>8, <3>3
    <2>4. Walked(y)
      BY <1>0, <1>1, <1>6, <1>8, <1>13, <2>1, <2>3, OpensWalked
    <2>5. Answered(y, b) /\ StopTold(y)
      BY <1>0, <2>3 DEF Answered, StopTold
    <2> QED BY <1>7, <1>13, <2>1, <2>2, <2>3, <2>4, <2>5 DEF Judged, RunGood
  <1>14. CASE ~EndsEarly(c.type, x.status) /\ ~(i < c.parts)
    <2>1. PICK status : status = IF c.type = "all" THEN "passed" ELSE AnyFails(up)
      OBVIOUS
    <2>2. status \in Statuses /\ (status = "passed" <=> c.type = "all")
      BY <2>1 DEF AnyFails, Statuses
    <2>3. Agrees(x.whole, IF status = "passed" THEN x.passed \cup {p} ELSE x.passed, p)
      BY <1>0, <1>1, <1>6, <1>8, <1>14, <2>2, PartsAgree
    <2> QED BY <1>7, <1>11, <1>14, <2>1, <2>2, <2>3
  <1> QED BY <1>12, <1>13, <1>14

LEMMA Returns ==
    ASSUME RunsGood, NEW r \in Runs, NEW status \in Statuses, Return(r, status), UNCHANGED bridge,
           run[r].pc \notin {"idle", "ended"}, MayEnd(run[r], status, bridge)
    PROVE  RunsGood'
  <1>1. RunGood(run[r], bridge)
    BY DEF RunsGood
  <1>2. Ends(run[r], status) \in RunType /\ Judged(Ends(run[r], status))
    BY <1>1, EndsType, LeafEnds DEF RunGood, MayEnd
  <1>3. RunGood(Ends(run[r], status), bridge)
    BY <1>1, <1>2, EndsAnswered DEF RunGood
  <1>4. run' = [run EXCEPT ![r] = Ends(run[r], status)]
    BY DEF Return
  <1> QED BY <1>3, <1>4, RunSet

\* A step that only waits, or is told.
LEMMA Listens ==
    ASSUME RunsGood, NEW r \in Runs, NEW y \in RunType, run' = [run EXCEPT ![r] = y], UNCHANGED bridge,
           run[r].pc \notin {"idle", "ended"}, y.pc \notin {"idle", "ended"},
           y.whole = run[r].whole, y.path = run[r].path, y.passed = run[r].passed,
           y.verdict = run[r].verdict, y.threw = run[r].threw,
           Answered(y, bridge), OneDebugger => StopTold(y)
    PROVE  RunsGood'
  <1>1. run[r] \in RunType /\ Judged(run[r])
    BY DEF RunsGood, RunGood
  <1>2. Judged(y)
    BY <1>1, JudgedSame
  <1>3. RunGood(y, bridge)
    BY <1>2 DEF RunGood
  <1> QED BY <1>3, RunSet

LEMMA RunCheckStep ==
    ASSUME Inv, NEW r \in Runs, loaded # None, RunCheck(r)
    PROVE  RunsGood'
  <1>1. PICK t \in Tasks(loaded.courses) :
          run' = [run EXCEPT ![r] = [Idle EXCEPT !.pc = "step", !.whole = t.check, !.step = startedAt[open]]]
    BY DEF RunCheck
  <1>2. found \in Found /\ loaded = LoadCourses(found)
    BY DEF Inv, LoadedInv
  <1>3. IsTree(t.check) /\ ValidateCheck(t.check) /\ t.check \in Trees
    <2>1. t \in Tasks(LoadCourses(found).courses)
      BY <1>1, <1>2
    <2> QED BY <1>2, <2>1, ChecksLoaded DEF Trees
  <1>4. PICK c : c = t.check
    OBVIOUS
  <1>5. PICK y : y = [Idle EXCEPT !.pc = "step", !.whole = c, !.step = startedAt[open]]
    OBVIOUS
  <1>6. /\ y.pc = "step" /\ y.whole = c /\ y.path = <<>> /\ y.status = None /\ ~y.waits /\ y.got = None
        /\ y.task = None /\ ~y.ended /\ y.facts = NoFacts /\ y.passed = {} /\ y.verdict = None /\ ~y.threw
    BY <1>5 DEF Idle
  <1>7. y \in RunType
    <2>1. {} \in SUBSET Paths /\ <<>> \in Paths /\ startedAt[open] \in Nat /\ c \in Trees
      BY <1>3, <1>4 DEF Paths, Inv, StepsOpened
    <2> QED BY <1>5, <2>1 DEF RunType, FactsType, Idle, NoFacts, Statuses
  <1>8. Walked(y)
    <2>1. <<>> \in DOMAIN c /\ DOMAIN c \subseteq Paths
      BY <1>3, <1>4, TreePaths DEF IsTree
    <2>2. ASSUME NEW q \in DOMAIN c PROVE ~Above(q, <<>>) /\ Agrees(c, {}, q)
      <3>1. Len(q) \in Nat
        BY <2>1, PathAt
      <3>2. Len(<<>>) = 0
        BY EmptySeq
      <3> QED BY <3>1, <3>2 DEF Above, Agrees
    <2> QED BY <1>3, <1>4, <1>6, <2>1, <2>2 DEF Walked
  <1>9. RunGood(y, bridge)
    BY <1>6, <1>7, <1>8 DEF RunGood, Answered, StopTold, Judged
  <1>10. RunsGood /\ UNCHANGED bridge /\ run' = [run EXCEPT ![r] = y]
    BY <1>1, <1>4, <1>5 DEF Inv, RunCheck, Rest
  <1> QED BY <1>9, <1>10, RunSet

LEMMA DescendStep ==
    ASSUME Inv, NEW r \in Runs, Descend(r)
    PROVE  RunsGood'
  <1>1. RunGood(run[r], bridge) /\ RunsGood /\ UNCHANGED bridge
    BY DEF Inv, RunsGood, Descend, Rest
  <1>2. PICK x : x = run[r]
    OBVIOUS
  <1>3. x \in RunType /\ Judged(x) /\ x.pc = "step" /\ Part(x).type \in Composite
    BY <1>1, <1>2 DEF RunGood, Descend, Turn
  <1>4. PICK y : y = [x EXCEPT !.path = Append(@, 1)]
    OBVIOUS
  <1>5. Part(x).parts # 0 /\ y \in RunType /\ Judged(y)
    BY <1>3, <1>4, DescendsWalked
  <1>6. run' = [run EXCEPT ![r] = y]
    BY <1>2, <1>4, <1>5 DEF Descend
  <1>7. /\ y.pc = "step" /\ y.facts = x.facts /\ y.waits = x.waits /\ y.got = x.got /\ y.task = x.task
        /\ y.ended = x.ended
    BY <1>3, <1>4 DEF RunType
  <1>8. RunGood(y, bridge)
    BY <1>1, <1>2, <1>3, <1>5, <1>7 DEF RunGood, Answered, StopTold
  <1> QED BY <1>1, <1>6, <1>8, RunSet

LEMMA AscendStep ==
    ASSUME Inv, NEW r \in Runs, Ascend(r)
    PROVE  RunsGood'
  <1>1. RunGood(run[r], bridge) /\ RunsGood /\ UNCHANGED bridge
    BY DEF Inv, RunsGood, Ascend, Rest
  <1>2. PICK x : x = run[r] /\ x.pc = "ended"
    BY DEF Ascend
  <1>3. x \in RunType /\ Walked(x) /\ x.verdict = None /\ ~x.threw
    BY <1>1, <1>2 DEF RunGood, Judged
  <1>4. CASE x.path # <<>>
    <2>1. run' = [run EXCEPT ![r] = Ascends(x)]
      BY <1>2, <1>4 DEF Ascend
    <2>2. RunGood(Ascends(x), bridge)
      BY <1>1, <1>2, <1>4, AscendsGood
    <2> QED BY <1>1, <2>1, <2>2, RunSet
  <1>5. CASE x.path = <<>>
    <2>1. PICK y : y = [Idle EXCEPT !.whole = x.whole, !.passed = x.passed, !.verdict = x.status]
      OBVIOUS
    <2>2. /\ y.pc = "idle" /\ y.whole = x.whole /\ y.passed = x.passed /\ y.verdict = x.status
          /\ y.facts = NoFacts /\ ~y.waits /\ y.got = None /\ y.task = None /\ ~y.ended
      BY <2>1 DEF Idle
    <2>3. y \in RunType
      <3>1. <<>> \in Paths /\ x.passed \in SUBSET Paths /\ x.whole \in Trees \cup {None}
            /\ x.status \in Statuses \cup {None} /\ {} \in SUBSET Paths
        BY <1>3 DEF Paths, RunType
      <3> QED BY <2>1, <3>1 DEF RunType, FactsType, Idle, NoFacts
    <2>4. Judged(y)
      <3>1. x.status = "passed" <=> <<>> \in x.passed
        BY <1>2, <1>3, <1>5 DEF Walked
      <3>2. ASSUME NEW q \in DOMAIN x.whole PROVE Agrees(x.whole, x.passed, q)
        <4>1. q \in Paths
          BY <1>3, TreePaths DEF Walked
        <4>2. Len(q) \in Nat /\ Len(<<>>) = 0
          BY <4>1, PathAt, EmptySeq
        <4>3. ~Above(q, x.path)
          BY <1>5, <4>2 DEF Above
        <4> QED BY <1>2, <1>3, <4>3 DEF Walked
      <3> QED BY <2>2, <3>1, <3>2 DEF Judged
    <2>5. Answered(y, bridge) /\ StopTold(y)
      BY <2>2 DEF Answered, StopTold
    <2>6. run' = [run EXCEPT ![r] = y]
      BY <1>2, <1>5, <2>1 DEF Ascend
    <2> QED BY <1>1, <2>3, <2>4, <2>5, <2>6, RunSet DEF RunGood
  <1> QED BY <1>4, <1>5

\* Parts that wait for nothing
LEMMA PlainStep ==
    ASSUME Inv, NEW r \in Runs,
           \/ CheckFile(r) \/ LookupSymbol(r) \/ CheckBoard(r) \/ CheckFlash(r) \/ Manual(r)
           \/ \E v \in {"pass", "fail", "error", "manual"} : Graded(r, v)
    PROVE  RunsGood'
  <1>1. RunGood(run[r], bridge) /\ RunsGood /\ UNCHANGED bridge
    BY DEF Inv, RunsGood, CheckFile, LookupSymbol, CheckBoard, CheckFlash, Manual, Graded, Rest
  <1>2. /\ run[r].pc \notin {"idle", "ended"}
        /\ Part(run[r]).type \in {"fileMatches", "fileNotMatches", "symbolInElf", "board", "flash",
                                  "manual", "question"}
    BY <1>1 DEF RunGood, Answered, CheckFile, LookupSymbol, CheckBoard, CheckFlash, Manual, Graded, Turn
  <1>3. Throw(r) \/ \E status \in Statuses : Return(r, status)
    BY DEF CheckFile, LookupSymbol, CheckBoard, CheckFlash, Manual, Graded, Judge, Statuses
  <1>4. ASSUME NEW status PROVE MayEnd(run[r], status, bridge)
    BY <1>2 DEF MayEnd, Composite
  <1> QED BY <1>1, <1>2, <1>3, <1>4, Throws, Returns

\* Parts that wait for a symbol, a grade or a task
LEMMA AwaitStep ==
    ASSUME Inv, NEW r \in Runs, SymbolInElf(r) \/ Question(r) \/ Task(r)
    PROVE  RunsGood'
  <1>1. RunGood(run[r], bridge) /\ RunsGood /\ UNCHANGED bridge
    BY DEF Inv, RunsGood, SymbolInElf, Question, Task, Rest
  <1>2. PICK x : x = run[r] /\ x \in RunType /\ Answered(x, bridge) /\ x.pc = "step"
                 /\ Part(x).type \in {"symbolInElf", "question", "task", "build"}
    BY <1>1 DEF RunGood, SymbolInElf, Question, Task, Turn
  <1>3. \/ Throw(r) \/ (Part(x).type = "question" /\ Return(r, "failed"))
        \/ \E pc \in {"looking", "grading"} :
             /\ Part(x).type = IF pc = "looking" THEN "symbolInElf" ELSE "question"
             /\ run' = [run EXCEPT ![r] = [x EXCEPT !.pc = pc]]
        \/ /\ Part(x).type \in {"task", "build"}
           /\ run' = [run EXCEPT ![r] = [x EXCEPT !.pc = "waiting", !.waits = TRUE, !.task = "running"]]
    BY <1>2 DEF SymbolInElf, Question, Task, Turn, Await
  <1>4. ASSUME Part(x).type = "question", Return(r, "failed") PROVE RunsGood'
    <2>1. MayEnd(x, "failed", bridge)
      BY <1>4 DEF MayEnd, Composite
    <2> QED BY <1>1, <1>2, <1>4, <2>1, Returns DEF Statuses
  <1>5. ASSUME NEW pc \in {"looking", "grading"},
               Part(x).type = IF pc = "looking" THEN "symbolInElf" ELSE "question",
               run' = [run EXCEPT ![r] = [x EXCEPT !.pc = pc]]
        PROVE  RunsGood'
    <2>1. PICK y : y = [x EXCEPT !.pc = pc]
      OBVIOUS
    <2>2. /\ y \in RunType /\ y.pc = pc /\ y.whole = x.whole /\ y.path = x.path /\ y.passed = x.passed
          /\ y.verdict = x.verdict /\ y.threw = x.threw /\ y.waits = x.waits /\ y.got = x.got
          /\ y.task = x.task /\ y.ended = x.ended /\ Part(y) = Part(x)
      BY <1>2, <2>1 DEF RunType, Part
    <2>3. Answered(y, bridge) /\ StopTold(y)
      BY <1>2, <1>5, <2>2 DEF Answered, StopTold
    <2> QED BY <1>1, <1>2, <1>5, <2>1, <2>2, <2>3, Listens
  <1>6. ASSUME Part(x).type \in {"task", "build"},
               run' = [run EXCEPT ![r] = [x EXCEPT !.pc = "waiting", !.waits = TRUE, !.task = "running"]]
        PROVE  RunsGood'
    <2>1. PICK y : y = [x EXCEPT !.pc = "waiting", !.waits = TRUE, !.task = "running"]
      OBVIOUS
    <2>2. /\ y \in RunType /\ y.pc = "waiting" /\ y.whole = x.whole /\ y.path = x.path /\ y.passed = x.passed
          /\ y.verdict = x.verdict /\ y.threw = x.threw /\ y.waits /\ y.got = x.got
          /\ y.task = "running" /\ y.facts = x.facts /\ Part(y) = Part(x)
      BY <1>2, <2>1 DEF RunType, Part
    <2>3. /\ y.got = None /\ y.facts = NoFacts
      BY <1>2, <2>2 DEF Answered
    <2>4. Answered(y, bridge) /\ StopTold(y)
      BY <1>6, <2>2, <2>3, ChecksAssumption DEF Answered, StopTold, NoFacts
    <2> QED BY <1>1, <1>2, <1>6, <2>1, <2>2, <2>4, Listens
  <1> QED BY <1>1, <1>3, <1>4, <1>5, <1>6, Throws

LEMMA SerialStep ==
    ASSUME Inv, NEW r \in Runs, SerialExpect(r) \/ \E ok \in BOOLEAN : Sent(r, ok)
    PROVE  RunsGood'
  <1>1. RunGood(run[r], bridge) /\ RunsGood /\ UNCHANGED bridge
    BY DEF Inv, RunsGood, SerialExpect, Sent, Rest
  <1>2. PICK x : x = run[r] /\ x \in RunType /\ Answered(x, bridge) /\ x.pc \in {"step", "sending"}
                 /\ Part(x).type = "serialExpect"
    BY <1>1 DEF RunGood, Answered, SerialExpect, Sent, Turn
  <1>3. \/ Throw(r) \/ (~bridge /\ Return(r, "unavailable"))
        \/ \E pc \in {"sending", "waiting"} :
             /\ bridge /\ run' = [run EXCEPT ![r] = [x EXCEPT !.pc = pc, !.waits = TRUE]]
    <2>1. x.pc = "sending" => bridge
      BY <1>2 DEF Answered
    <2> QED BY <1>2, <2>1 DEF SerialExpect, Sent, Turn, WaitThenSend
  <1>4. ASSUME ~bridge, Return(r, "unavailable") PROVE RunsGood'
    <2>1. MayEnd(x, "unavailable", bridge)
      BY <1>2, <1>4 DEF MayEnd, Composite
    <2> QED BY <1>1, <1>2, <1>4, <2>1, Returns DEF Statuses
  <1>5. ASSUME NEW pc \in {"sending", "waiting"}, bridge,
               run' = [run EXCEPT ![r] = [x EXCEPT !.pc = pc, !.waits = TRUE]]
        PROVE  RunsGood'
    <2>1. PICK y : y = [x EXCEPT !.pc = pc, !.waits = TRUE]
      OBVIOUS
    <2>2. /\ y \in RunType /\ y.pc = pc /\ y.whole = x.whole /\ y.path = x.path /\ y.passed = x.passed
          /\ y.verdict = x.verdict /\ y.threw = x.threw /\ y.waits /\ y.got = x.got
          /\ y.task = x.task /\ y.facts = x.facts /\ Part(y) = Part(x)
      BY <1>2, <2>1 DEF RunType, Part
    <2>3. y.task = None /\ (y.facts.late <=> y.got = "no") /\ (y.facts.heard <=> y.got = "yes")
      <3>1. CASE x.pc = "step"
        BY <1>2, <2>2, <3>1, ChecksAssumption DEF Answered, NoFacts
      <3>2. CASE x.pc = "sending"
        BY <1>2, <2>2, <3>2 DEF Answered
      <3> QED BY <1>2, <3>1, <3>2
    <2>4. Answered(y, bridge) /\ StopTold(y)
      BY <1>2, <1>5, <2>2, <2>3 DEF Answered, StopTold
    <2> QED BY <1>1, <1>2, <1>5, <2>1, <2>2, <2>4, Listens
  <1> QED BY <1>1, <1>3, <1>4, <1>5, Throws

LEMMA DebugStopStep ==
    ASSUME Inv, NEW r \in Runs, DebugStop(r)
    PROVE  RunsGood'
  <1>1. RunGood(run[r], bridge) /\ RunsGood /\ UNCHANGED bridge /\ StopsSeen
    BY DEF Inv, RunsGood, DebugStop, Rest
  <1>2. PICK x : x = run[r] /\ x \in RunType /\ Answered(x, bridge) /\ x.pc = "step"
                 /\ Part(x).type = "debugStop"
    BY <1>1 DEF RunGood, DebugStop, Turn
  <1>3. PICK there \in BOOLEAN : there = Recently(x, Latest(shown))
    BY DEF Recently
  <1>0. PICK facts \in FactsType : facts = [x.facts EXCEPT !.stopped = there]
    BY <1>2, <1>3 DEF RunType, FactsType
  <1>4. PICK z : z = [x EXCEPT !.facts.stopped = there] /\ z = [x EXCEPT !.facts = facts]
    BY <1>0
  <1>5. OneDebugger => (Recently(x, stops) <=> there)
    BY <1>1, <1>3 DEF StopsSeen
  <1>6. run' = [run EXCEPT ![r] = IF Recently(x, stops) THEN Ends(z, "passed")
                                  ELSE [z EXCEPT !.pc = "waiting", !.waits = TRUE]]
    BY <1>2, <1>3, <1>4 DEF DebugStop, LooksBackFirst
  <1>7. /\ z \in RunType /\ z.pc = "step" /\ z.whole = x.whole /\ z.path = x.path /\ z.passed = x.passed
        /\ z.verdict = x.verdict /\ z.threw = x.threw /\ z.waits = x.waits /\ z.got = x.got
        /\ z.task = x.task /\ z.facts.stopped = there /\ z.facts.late = x.facts.late /\ Part(z) = Part(x)
    <2>1. x.facts \in FactsType /\ z.facts = facts
      BY <1>2, <1>4 DEF RunType
    <2>2. z.facts.stopped = there /\ z.facts.late = x.facts.late
      BY <1>0, <2>1 DEF FactsType
    <2> QED BY <1>2, <1>4, <2>2 DEF RunType, Part
  <1>8. Judged(z)
    BY <1>1, <1>2, <1>7, JudgedSame DEF RunGood
  <1>9. CASE Recently(x, stops)
    <2>1. MayEnd(z, "passed", bridge)
      BY <1>2, <1>5, <1>7, <1>9 DEF MayEnd, Composite
    <2>2. "passed" \in Statuses
      BY DEF Statuses
    <2>3. RunGood(Ends(z, "passed"), bridge)
      BY <1>7, <1>8, <2>1, <2>2, LeafEnds, EndsType, EndsAnswered DEF RunGood, MayEnd
    <2> QED BY <1>1, <1>6, <1>9, <2>3, RunSet
  <1>10. CASE ~Recently(x, stops)
    <2>1. PICK y : y = [z EXCEPT !.pc = "waiting", !.waits = TRUE]
      OBVIOUS
    <2>2. /\ y \in RunType /\ y.pc = "waiting" /\ y.whole = x.whole /\ y.path = x.path /\ y.passed = x.passed
          /\ y.verdict = x.verdict /\ y.threw = x.threw /\ y.waits /\ y.got = x.got
          /\ y.task = x.task /\ y.facts.stopped = there /\ y.facts.late = x.facts.late
          /\ Part(y) = Part(x)
      BY <1>7, <2>1 DEF RunType, Part
    <2>3. y.got = None /\ y.task = None /\ ~y.facts.late /\ (OneDebugger => ~y.facts.stopped)
      BY <1>2, <1>5, <1>10, <2>2 DEF Answered, NoFacts
    <2>4. Answered(y, bridge) /\ (OneDebugger => StopTold(y))
      BY <1>2, <2>2, <2>3, ChecksAssumption DEF Answered, StopTold
    <2>5. run' = [run EXCEPT ![r] = y]
      BY <1>6, <1>10, <2>1
    <2> QED BY <1>1, <1>2, <2>2, <2>4, <2>5, Listens
  <1> QED BY <1>9, <1>10

Told(x, got, task, facts) == [x EXCEPT !.got = got, !.task = task, !.facts = facts]
LEMMA ToldType ==
    ASSUME NEW x \in RunType, NEW got \in {None, "yes", "no"},
           NEW task \in {None, "running", "exited", "none"}, NEW facts \in FactsType
    PROVE  Told(x, got, task, facts) \in RunType
  BY DEF RunType, Told
\* What a task, its process and the clock tell a run
LEMMA ToldStep ==
    ASSUME Inv, NEW r \in Runs, Executes(r) \/ Timeout(r)
    PROVE  RunsGood'
  <1>1. RunGood(run[r], bridge) /\ RunsGood /\ UNCHANGED bridge
    BY DEF Inv, RunsGood, Executes, ProcessExits, OnDidEndTaskProcess, OnDidEndTask, MomentIsOver,
           Timeout, Rest
  <1>2. PICK x : x = run[r] /\ x \in RunType /\ Answered(x, bridge) /\ (OneDebugger => StopTold(x))
                 /\ x.got = None
    BY <1>1 DEF RunGood, Executes, ProcessExits, OnDidEndTaskProcess, OnDidEndTask, MomentIsOver,
                Timeout, Executing
  <1>3. ASSUME NEW y \in RunType, y.pc = x.pc, y.whole = x.whole, y.path = x.path,
               x.pc \in {"sending", "waiting"}, y.passed = x.passed, y.verdict = x.verdict,
               y.threw = x.threw, Answered(y, bridge), OneDebugger => StopTold(y),
               run' = [run EXCEPT ![r] = y]
        PROVE  RunsGood'
    BY <1>1, <1>2, <1>3, Listens
  <1>4. ASSUME x.pc = "waiting", x.task = "running", NEW code \in {"expected", "other"},
               run' = [run EXCEPT ![r] = [x EXCEPT !.task = "exited", !.facts.exit = code]]
        PROVE  RunsGood'
    <2>1. PICK got \in {None, "yes", "no"}, task \in {None, "running", "exited", "none"} :
            got = (None) /\ task = ("exited")
      BY <1>2, <1>4 DEF RunType
    <2>2. PICK facts \in FactsType : facts = [x.facts EXCEPT !.exit = code]
      BY <1>2, <1>4 DEF RunType, FactsType
    <2>3. PICK y : y = Told(x, got, task, facts)
      OBVIOUS
    <2>4. run' = [run EXCEPT ![r] = y]
      <3>1. [x EXCEPT !.task = "exited", !.facts.exit = code] = y
        BY <1>2, <1>4, <2>1, <2>2, <2>3 DEF RunType, Told
      <3> QED BY <1>4, <3>1
    <2>5. /\ y \in RunType /\ y.pc = x.pc /\ y.whole = x.whole /\ y.path = x.path /\ y.passed = x.passed
          /\ y.verdict = x.verdict /\ y.threw = x.threw /\ y.waits = x.waits /\ Part(y) = Part(x)
          /\ y.status = x.status /\ y.got = got /\ y.task = task /\ y.facts = facts
      <3>1. y \in RunType
        BY <1>2, <2>1, <2>2, <2>3, ToldType
      <3>2. x \in RunType
        BY <1>2
      <3> QED BY <2>3, <3>1, <3>2 DEF Told, RunType, Part
    <2>6. x.pc \in {"sending", "waiting"} /\ (x.task # None => Part(x).type \in {"task", "build"})
      BY <1>2, <1>4 DEF Answered
    <2>7. Answered(y, bridge) /\ (OneDebugger => StopTold(y))
      <3>1. x.facts \in FactsType
        BY <1>2 DEF RunType
      <3>2. /\ facts.heard = x.facts.heard /\ facts.stopped = x.facts.stopped
            /\ facts.exit = code /\ facts.late = x.facts.late
        BY <2>2, <3>1 DEF FactsType
      <3>3. Answered(y, bridge)
        BY <1>2, <1>4, <2>1, <2>5, <2>6, <3>2, ChecksAssumption DEF Answered
      <3>4. OneDebugger => StopTold(y)
        BY <1>2, <1>4, <2>1, <2>5, <2>6, <3>2, ChecksAssumption DEF StopTold
      <3> QED BY <3>3, <3>4
    <2> QED BY <1>3, <2>4, <2>5, <2>6, <2>7
  <1>5. ASSUME x.pc = "waiting", x.task = "exited",
               run' = [run EXCEPT ![r] = [x EXCEPT !.got = IF x.facts.exit = "expected" THEN "yes" ELSE "no"]]
        PROVE  RunsGood'
    <2>1. PICK got \in {None, "yes", "no"}, task \in {None, "running", "exited", "none"} :
            got = (IF x.facts.exit = "expected" THEN "yes" ELSE "no") /\ task = (x.task)
      BY <1>2, <1>5 DEF RunType
    <2>2. PICK facts \in FactsType : facts = x.facts
      BY <1>2, <1>5 DEF RunType, FactsType
    <2>3. PICK y : y = Told(x, got, task, facts)
      OBVIOUS
    <2>4. run' = [run EXCEPT ![r] = y]
      <3>1. [x EXCEPT !.got = IF x.facts.exit = "expected" THEN "yes" ELSE "no"] = y
        BY <1>2, <1>5, <2>1, <2>2, <2>3 DEF RunType, Told
      <3> QED BY <1>5, <3>1
    <2>5. /\ y \in RunType /\ y.pc = x.pc /\ y.whole = x.whole /\ y.path = x.path /\ y.passed = x.passed
          /\ y.verdict = x.verdict /\ y.threw = x.threw /\ y.waits = x.waits /\ Part(y) = Part(x)
          /\ y.status = x.status /\ y.got = got /\ y.task = task /\ y.facts = facts
      <3>1. y \in RunType
        BY <1>2, <2>1, <2>2, <2>3, ToldType
      <3>2. x \in RunType
        BY <1>2
      <3> QED BY <2>3, <3>1, <3>2 DEF Told, RunType, Part
    <2>6. x.pc \in {"sending", "waiting"} /\ (x.task # None => Part(x).type \in {"task", "build"})
      BY <1>2, <1>5 DEF Answered
    <2>7. Answered(y, bridge) /\ (OneDebugger => StopTold(y))
      <3>1. x.facts \in FactsType
        BY <1>2 DEF RunType
      <3>2. /\ facts.heard = x.facts.heard /\ facts.stopped = x.facts.stopped
            /\ facts.exit = x.facts.exit /\ facts.late = x.facts.late
        BY <2>2, <3>1 DEF FactsType
      <3>3. Answered(y, bridge)
        BY <1>2, <1>5, <2>1, <2>5, <2>6, <3>2, ChecksAssumption DEF Answered
      <3>4. OneDebugger => StopTold(y)
        BY <1>2, <1>5, <2>1, <2>5, <2>6, <3>2, ChecksAssumption DEF StopTold
      <3> QED BY <3>3, <3>4
    <2> QED BY <1>3, <2>4, <2>5, <2>6, <2>7
  <1>6. ASSUME x.pc = "waiting", x.task # None,
               run' = [run EXCEPT ![r] = [x EXCEPT !.ended = TRUE,
                                               !.task = IF x.task = "running" THEN "none" ELSE x.task]]
        PROVE  RunsGood'
    <2>1. PICK got \in {None, "yes", "no"}, task \in {None, "running", "exited", "none"} :
            got = (None) /\ task = (IF x.task = "running" THEN "none" ELSE x.task)
      BY <1>2, <1>6 DEF RunType
    <2>2. PICK facts \in FactsType : facts = x.facts
      BY <1>2, <1>6 DEF RunType, FactsType
    <2>0. PICK z : z = [x EXCEPT !.ended = TRUE]
      OBVIOUS
    <2>9. /\ z \in RunType /\ z.pc = x.pc /\ z.whole = x.whole /\ z.path = x.path /\ z.passed = x.passed
          /\ z.verdict = x.verdict /\ z.threw = x.threw /\ z.waits = x.waits /\ Part(z) = Part(x)
          /\ z.status = x.status
      <3>1. x \in RunType
        BY <1>2
      <3>2. z \in RunType
        BY <2>0, <3>1 DEF RunType
      <3>3. /\ z.pc = x.pc /\ z.whole = x.whole /\ z.path = x.path /\ z.passed = x.passed
            /\ z.verdict = x.verdict /\ z.threw = x.threw /\ z.waits = x.waits /\ z.status = x.status
        BY <2>0, <3>1 DEF RunType
      <3>4. Part(z) = Part(x)
        BY <3>3 DEF Part
      <3> QED BY <3>2, <3>3, <3>4
    <2>3. PICK y : y = Told(z, got, task, facts)
      OBVIOUS
    <2>4. run' = [run EXCEPT ![r] = y]
      <3>1. [x EXCEPT !.ended = TRUE, !.task = IF x.task = "running" THEN "none" ELSE x.task] = y
        BY <1>2, <1>6, <2>0, <2>1, <2>2, <2>3 DEF RunType, Told
      <3> QED BY <1>6, <3>1
    <2>5. /\ y \in RunType /\ y.pc = x.pc /\ y.whole = x.whole /\ y.path = x.path /\ y.passed = x.passed
          /\ y.verdict = x.verdict /\ y.threw = x.threw /\ y.waits = x.waits /\ Part(y) = Part(x)
          /\ y.status = x.status /\ y.got = got /\ y.task = task /\ y.facts = facts
      <3>1. /\ y \in RunType /\ y.pc = z.pc /\ y.whole = z.whole /\ y.path = z.path /\ y.passed = z.passed
            /\ y.verdict = z.verdict /\ y.threw = z.threw /\ y.waits = z.waits /\ Part(y) = Part(z)
            /\ y.status = z.status /\ y.got = got /\ y.task = task /\ y.facts = facts
        <4>1. y \in RunType
          BY <2>1, <2>2, <2>3, <2>9, ToldType
        <4>2. z \in RunType
          BY <2>9
        <4> QED BY <2>3, <4>1, <4>2 DEF Told, RunType, Part
      <3> QED BY <2>9, <3>1
    <2>6. x.pc \in {"sending", "waiting"} /\ (x.task # None => Part(x).type \in {"task", "build"})
      BY <1>2, <1>6 DEF Answered
    <2>7. Answered(y, bridge) /\ (OneDebugger => StopTold(y))
      <3>1. x.facts \in FactsType
        BY <1>2 DEF RunType
      <3>2. /\ facts.heard = x.facts.heard /\ facts.stopped = x.facts.stopped
            /\ facts.exit = x.facts.exit /\ facts.late = x.facts.late
        BY <2>2, <3>1 DEF FactsType
      <3>3. Answered(y, bridge)
        BY <1>2, <1>6, <2>1, <2>5, <2>6, <3>2, ChecksAssumption DEF Answered
      <3>4. OneDebugger => StopTold(y)
        BY <1>2, <1>6, <2>1, <2>5, <2>6, <3>2, ChecksAssumption DEF StopTold
      <3> QED BY <3>3, <3>4
    <2> QED BY <1>3, <2>4, <2>5, <2>6, <2>7
  <1>7. ASSUME x.pc = "waiting", x.task \notin {None, "exited"},
               run' = [run EXCEPT ![r] = [x EXCEPT !.got = "no"]]
        PROVE  RunsGood'
    <2>1. PICK got \in {None, "yes", "no"}, task \in {None, "running", "exited", "none"} :
            got = ("no") /\ task = (x.task)
      BY <1>2, <1>7 DEF RunType
    <2>2. PICK facts \in FactsType : facts = x.facts
      BY <1>2, <1>7 DEF RunType, FactsType
    <2>3. PICK y : y = Told(x, got, task, facts)
      OBVIOUS
    <2>4. run' = [run EXCEPT ![r] = y]
      <3>1. [x EXCEPT !.got = "no"] = y
        BY <1>2, <1>7, <2>1, <2>2, <2>3 DEF RunType, Told
      <3> QED BY <1>7, <3>1
    <2>5. /\ y \in RunType /\ y.pc = x.pc /\ y.whole = x.whole /\ y.path = x.path /\ y.passed = x.passed
          /\ y.verdict = x.verdict /\ y.threw = x.threw /\ y.waits = x.waits /\ Part(y) = Part(x)
          /\ y.status = x.status /\ y.got = got /\ y.task = task /\ y.facts = facts
      <3>1. y \in RunType
        BY <1>2, <2>1, <2>2, <2>3, ToldType
      <3>2. x \in RunType
        BY <1>2
      <3> QED BY <2>3, <3>1, <3>2 DEF Told, RunType, Part
    <2>6. x.pc \in {"sending", "waiting"} /\ (x.task # None => Part(x).type \in {"task", "build"})
      BY <1>2, <1>7 DEF Answered
    <2>7. Answered(y, bridge) /\ (OneDebugger => StopTold(y))
      <3>1. x.facts \in FactsType
        BY <1>2 DEF RunType
      <3>2. /\ facts.heard = x.facts.heard /\ facts.stopped = x.facts.stopped
            /\ facts.exit = x.facts.exit /\ facts.late = x.facts.late
        BY <2>2, <3>1 DEF FactsType
      <3>3. Answered(y, bridge)
        BY <1>2, <1>7, <2>1, <2>5, <2>6, <3>2, ChecksAssumption DEF Answered
      <3>4. OneDebugger => StopTold(y)
        BY <1>2, <1>7, <2>1, <2>5, <2>6, <3>2, ChecksAssumption DEF StopTold
      <3> QED BY <3>3, <3>4
    <2> QED BY <1>3, <2>4, <2>5, <2>6, <2>7
  <1>8. ASSUME x.waits,
               run' = [run EXCEPT ![r] = [x EXCEPT !.got = "no", !.facts.late = TRUE]]
        PROVE  RunsGood'
    <2>1. PICK got \in {None, "yes", "no"}, task \in {None, "running", "exited", "none"} :
            got = ("no") /\ task = (x.task)
      BY <1>2, <1>8 DEF RunType
    <2>2. PICK facts \in FactsType : facts = [x.facts EXCEPT !.late = TRUE]
      BY <1>2, <1>8 DEF RunType, FactsType
    <2>3. PICK y : y = Told(x, got, task, facts)
      OBVIOUS
    <2>4. run' = [run EXCEPT ![r] = y]
      <3>1. [x EXCEPT !.got = "no", !.facts.late = TRUE] = y
        BY <1>2, <1>8, <2>1, <2>2, <2>3 DEF RunType, Told
      <3> QED BY <1>8, <3>1
    <2>5. /\ y \in RunType /\ y.pc = x.pc /\ y.whole = x.whole /\ y.path = x.path /\ y.passed = x.passed
          /\ y.verdict = x.verdict /\ y.threw = x.threw /\ y.waits = x.waits /\ Part(y) = Part(x)
          /\ y.status = x.status /\ y.got = got /\ y.task = task /\ y.facts = facts
      <3>1. y \in RunType
        BY <1>2, <2>1, <2>2, <2>3, ToldType
      <3>2. x \in RunType
        BY <1>2
      <3> QED BY <2>3, <3>1, <3>2 DEF Told, RunType, Part
    <2>6. x.pc \in {"sending", "waiting"} /\ (x.task # None => Part(x).type \in {"task", "build"})
      BY <1>2, <1>8 DEF Answered
    <2>7. Answered(y, bridge) /\ (OneDebugger => StopTold(y))
      <3>1. x.facts \in FactsType
        BY <1>2 DEF RunType
      <3>2. /\ facts.heard = x.facts.heard /\ facts.stopped = x.facts.stopped
            /\ facts.exit = x.facts.exit /\ facts.late = TRUE
        BY <2>2, <3>1 DEF FactsType
      <3>3. Answered(y, bridge)
        BY <1>2, <1>8, <2>1, <2>5, <2>6, <3>2, ChecksAssumption DEF Answered
      <3>4. OneDebugger => StopTold(y)
        BY <1>2, <1>8, <2>1, <2>5, <2>6, <3>2, ChecksAssumption DEF StopTold
      <3> QED BY <3>3, <3>4
    <2> QED BY <1>3, <2>4, <2>5, <2>6, <2>7
  <1>9. CASE Timeout(r)
    BY <1>2, <1>8, <1>9 DEF Timeout
  <1>10. CASE \E code \in {"expected", "other"} : ProcessExits(r, code)
    BY <1>2, <1>4, <1>10 DEF ProcessExits, Executing
  <1>11. CASE OnDidEndTaskProcess(r)
    BY <1>2, <1>5, <1>11 DEF OnDidEndTaskProcess, Executing
  <1>12. CASE OnDidEndTask(r)
    BY <1>2, <1>6, <1>12 DEF OnDidEndTask, Executing, GivesAMoment
  <1>13. CASE MomentIsOver(r)
    BY <1>2, <1>7, <1>13 DEF MomentIsOver, Executing
  <1> QED BY <1>9, <1>10, <1>11, <1>12, <1>13 DEF Executes

LEMMA AnswerStep ==
    ASSUME Inv, NEW r \in Runs, Answer(r)
    PROVE  RunsGood'
  <1>1. RunGood(run[r], bridge) /\ RunsGood /\ UNCHANGED bridge
    BY DEF Inv, RunsGood, Answer, Rest
  <1>2. PICK x : x = run[r] /\ x \in RunType /\ Answered(x, bridge) /\ (OneDebugger => StopTold(x))
                 /\ x.pc = "waiting" /\ x.got \in {"yes", "no"}
    BY <1>1 DEF RunGood, Answer, RunType
  <1>3. PICK status \in Statuses : status = Judge(x.got = "yes") /\ Return(r, status)
    BY <1>2 DEF Answer, Judge, Statuses
  <1>4. (status = "passed" <=> x.got = "yes") /\ (x.got = "no" <=> x.got # "yes")
    BY <1>2, <1>3 DEF Judge
  <1>5. Part(x).type \notin Composite
    BY <1>2 DEF Answered, Composite
  <1>6. MayEnd(x, status, bridge)
    BY <1>2, <1>4, <1>5 DEF MayEnd, Answered, StopTold
  <1> QED BY <1>1, <1>2, <1>3, <1>6, Returns

-----------------------------------------------------------------------------
(* What happens while every run waits *)

-----------------------------------------------------------------------------
(* What happens while every run waits *)

LEMMA ToldJudged ==
    ASSUME NEW x \in RunType, Judged(x), NEW got \in {None, "yes", "no"}, NEW facts \in FactsType, NEW y,
           y = Told(x, got, x.task, facts)
    PROVE  y \in RunType /\ Judged(y)
  <1>1. y \in RunType
    <2>1. x.task \in {None, "running", "exited", "none"}
      BY DEF RunType
    <2> QED BY <2>1, ToldType
  <1>2. /\ y.pc = x.pc /\ y.waits = x.waits /\ Part(y) = Part(x) /\ y.status = x.status /\ y.task = x.task
        /\ y.ended = x.ended /\ y.got = got /\ y.facts = facts
    BY DEF Told, RunType, Part
  <1>3. y.whole = x.whole /\ y.path = x.path /\ y.passed = x.passed /\ y.verdict = x.verdict /\ y.threw = x.threw
    BY DEF Told, RunType
  <1>4. Judged(y)
    BY <1>2, <1>3 DEF Judged, Walked
  <1> QED BY <1>1, <1>2, <1>4

LEMMA SerialLineStep ==
    ASSUME Inv, SerialLine
    PROVE  RunsGood'
  <1>1. RunsGood /\ UNCHANGED bridge /\ bridge /\ \A r \in Runs : Waiting(run[r])
    BY DEF Inv, SerialLine, Event
  <1>2. ASSUME NEW r \in Runs PROVE RunGood(run'[r], bridge)
    <2>1. PICK x : x = run[r] /\ RunGood(x, bridge) /\ Waiting(x) /\ x \in RunType /\ Judged(x)
      BY <1>1 DEF RunsGood, RunGood
    <2>2. PICK listens :
            listens = (x.pc \in {"sending", "waiting"} /\ Part(x).type = "serialExpect" /\ ~x.facts.late)
      OBVIOUS
    <2>3. PICK got \in {None, "yes", "no"} : got = IF Waits(x, "serialExpect") THEN "yes" ELSE x.got
      BY <2>1 DEF RunType
    <2>4. PICK facts \in FactsType : facts = [x.facts EXCEPT !.heard = IF listens THEN TRUE ELSE @]
      BY <2>1 DEF RunType, FactsType
    <2>5. /\ facts.heard = IF listens THEN TRUE ELSE x.facts.heard
          /\ facts.stopped = x.facts.stopped /\ facts.late = x.facts.late /\ facts.exit = x.facts.exit
      <3>1. x.facts \in FactsType
        BY <2>1 DEF RunType
      <3> QED BY <2>4, <3>1 DEF FactsType
    <2>6. PICK y : y = Told(x, got, x.task, facts)
      OBVIOUS
    <2>7. run'[r] = y
      <3>1. run'[r] = [x EXCEPT !.got = got, !.facts.heard = IF listens THEN TRUE ELSE @]
        BY <2>1, <2>2, <2>3 DEF SerialLine
      <3>2. PICK z : z = [x EXCEPT !.got = got, !.facts = facts]
        OBVIOUS
      <3>3. z = y
        BY <2>1, <2>6, <3>2 DEF Told, RunType
      <3>4. [x EXCEPT !.got = got].facts = x.facts
        BY <2>1 DEF RunType
      <3>5. run'[r] = [[x EXCEPT !.got = got] EXCEPT !.facts = facts]
        BY <2>4, <3>1, <3>4
      <3> QED BY <3>2, <3>3, <3>5
    <2>8. /\ y \in RunType /\ Judged(y) /\ y.pc = x.pc /\ y.waits = x.waits /\ Part(y) = Part(x)
          /\ y.status = x.status /\ y.task = x.task /\ y.ended = x.ended /\ y.got = got /\ y.facts = facts
      <3>1. y \in RunType /\ Judged(y)
        BY <2>1, <2>3, <2>4, <2>6, ToldJudged
      <3>2. /\ y.pc = x.pc /\ y.waits = x.waits /\ Part(y) = Part(x) /\ y.status = x.status
            /\ y.task = x.task /\ y.ended = x.ended /\ y.got = got /\ y.facts = facts
        BY <2>1, <2>6 DEF Told, RunType, Part
      <3> QED BY <3>1, <3>2
    <2>9. CASE x.pc \in {"sending", "waiting"} /\ Part(x).type = "serialExpect"
      <3>1. Answered(x, bridge)
        BY <2>1 DEF RunGood
      <3>2. y.facts.late <=> y.got = "no"
        BY <2>3, <2>5, <2>8, <2>9, <3>1, ChecksAssumption DEF Answered, Waits
      <3>3. y.facts.heard <=> y.got = "yes"
        BY <2>2, <2>3, <2>5, <2>8, <2>9, <3>1, ChecksAssumption DEF Answered, Waits
      <3>4. Answered(y, bridge) /\ StopTold(y)
        BY <2>1, <2>8, <2>9, <3>1, <3>2, <3>3 DEF Answered, StopTold, Waiting
      <3> QED BY <2>7, <2>8, <3>4 DEF RunGood
    <2>10. CASE ~(x.pc \in {"sending", "waiting"} /\ Part(x).type = "serialExpect")
      <3>1. Answered(x, bridge) /\ (OneDebugger => StopTold(x))
        BY <2>1 DEF RunGood
      <3>2. got = x.got /\ ~listens
        BY <2>2, <2>3, <2>10, <3>1 DEF Answered, Waits
      <3>3. facts = x.facts
        BY <2>1, <2>4, <3>2 DEF RunType, FactsType
      <3>4. Answered(y, bridge) /\ (OneDebugger => StopTold(y))
        BY <2>8, <3>1, <3>2, <3>3 DEF Answered, StopTold
      <3> QED BY <2>7, <2>8, <3>4 DEF RunGood
    <2> QED BY <2>9, <2>10
  <1>3. run' = [r \in Runs |-> run'[r]]
    BY DEF SerialLine
  <1> QED BY <1>1, <1>2, <1>3, RunsSet

\* A stop reaches every run that waits for one like it.
LEMMA TellStep ==
    ASSUME Inv, NEW pushed, NEW real, run' = Tell(pushed, real), UNCHANGED bridge,
           \A r \in Runs : Waiting(run[r]), OneDebugger => pushed = real
    PROVE  RunsGood'
  <1>1. RunsGood
    BY DEF Inv
  <1>2. ASSUME NEW r \in Runs PROVE RunGood(run'[r], bridge)
    <2>1. PICK x : x = run[r] /\ RunGood(x, bridge) /\ Waiting(x) /\ x \in RunType /\ Judged(x)
      BY <1>1 DEF RunsGood, RunGood
    <2> DEFINE of(s) == x.pc = "waiting" /\ Part(x).type = "debugStop" /\ \E p \in s : Matches(Part(x), p)
    <2>2. PICK got \in {None, "yes", "no"} : got = IF of(pushed) /\ x.got = None THEN "yes" ELSE x.got
      BY <2>1 DEF RunType
    <2>3. PICK facts \in FactsType :
            facts = IF of(real) /\ ~x.facts.late THEN [x.facts EXCEPT !.stopped = TRUE] ELSE x.facts
      BY <2>1 DEF RunType, FactsType
    <2>4. /\ facts.stopped = IF of(real) /\ ~x.facts.late THEN TRUE ELSE x.facts.stopped
          /\ facts.heard = x.facts.heard /\ facts.late = x.facts.late /\ facts.exit = x.facts.exit
      <3>1. x.facts \in FactsType
        BY <2>1 DEF RunType
      <3> HIDE DEF of
      <3> QED BY <2>3, <3>1 DEF FactsType
    <2>5. PICK y : y = Told(x, got, x.task, facts)
      OBVIOUS
    <2>6. run'[r] = y
      <3>1. PICK told : told = IF of(pushed) /\ x.got = None THEN [x EXCEPT !.got = "yes"] ELSE x
        OBVIOUS
      <3>2. run'[r] = IF of(real) /\ ~x.facts.late THEN [told EXCEPT !.facts.stopped = TRUE] ELSE told
        BY <2>1, <3>1 DEF Tell
      <3> HIDE DEF of
      <3>3. told = [x EXCEPT !.got = got] /\ told.facts = x.facts
        BY <2>1, <2>2, <3>1 DEF RunType
      <3>4. told = [told EXCEPT !.facts = told.facts]
        BY <2>1, <3>3 DEF RunType
      <3>5. run'[r] = [told EXCEPT !.facts = facts]
        BY <2>3, <3>2, <3>3, <3>4
      <3>6. [told EXCEPT !.facts = facts] = y
        BY <2>1, <2>5, <3>3 DEF Told, RunType
      <3> QED BY <3>5, <3>6
    <2>7. /\ y \in RunType /\ Judged(y) /\ y.pc = x.pc /\ y.waits = x.waits /\ Part(y) = Part(x)
          /\ y.status = x.status /\ y.task = x.task /\ y.ended = x.ended /\ y.got = got /\ y.facts = facts
      <3>1. y \in RunType /\ Judged(y)
        BY <2>1, <2>2, <2>3, <2>5, ToldJudged
      <3>2. /\ y.pc = x.pc /\ y.waits = x.waits /\ Part(y) = Part(x) /\ y.status = x.status
            /\ y.task = x.task /\ y.ended = x.ended /\ y.got = got /\ y.facts = facts
        BY <2>1, <2>5 DEF Told, RunType, Part
      <3> QED BY <3>1, <3>2
    <2>8. Answered(x, bridge) /\ (OneDebugger => StopTold(x))
      BY <2>1 DEF RunGood
    <2>9. CASE x.pc = "waiting" /\ Part(x).type = "debugStop"
      <3>1. Answered(y, bridge)
        BY <2>7, <2>8, <2>9 DEF Answered
      <3>2. OneDebugger => StopTold(y)
        <4>1. SUFFICES ASSUME OneDebugger PROVE StopTold(y)
          OBVIOUS
        <4>2. x.got = None /\ StopTold(x) /\ (of(pushed) <=> of(real))
          BY <2>1, <2>8, <2>9, <4>1 DEF Waiting
        <4> HIDE DEF of
        <4> QED BY <2>2, <2>4, <2>7, <2>9, <4>2, ChecksAssumption DEF StopTold
      <3> QED BY <2>6, <2>7, <3>1, <3>2 DEF RunGood
    <2>10. CASE ~(x.pc = "waiting" /\ Part(x).type = "debugStop")
      <3>1. got = x.got /\ facts = x.facts
        BY <2>2, <2>3, <2>10
      <3>2. Answered(y, bridge) /\ (OneDebugger => StopTold(y))
        BY <2>7, <2>8, <3>1 DEF Answered, StopTold
      <3> QED BY <2>6, <2>7, <3>2 DEF RunGood
    <2> QED BY <2>9, <2>10
  <1>3. run' = [r \in Runs |-> run'[r]]
    BY DEF Tell
  <1> QED BY <1>2, <1>3, RunsSet

-----------------------------------------------------------------------------
(* The history of stops *)

LEMMA AppendAt ==
    ASSUME NEW p \in Seq(StopType), NEW e \in StopType
    PROVE  /\ Append(p, e) \in Seq(StopType) /\ Len(Append(p, e)) = Len(p) + 1
           /\ Append(p, e)[Len(p) + 1] = e /\ \A j \in 1..Len(p) : Append(p, e)[j] = p[j]
  OBVIOUS

LEMMA LatestIs ==
    ASSUME NEW s \in Seq(StopType)
    PROVE  IF Len(s) <= HistoryCap THEN Latest(s) = s
           ELSE /\ Latest(s) \in Seq(StopType) /\ Len(Latest(s)) = HistoryCap
                /\ \A j \in 1..HistoryCap : Latest(s)[j] = s[Len(s) - HistoryCap + j]
  <1>1. HistoryCap \in Nat /\ Len(s) \in Nat /\ \A j \in 1..Len(s) : s[j] \in StopType
    BY ChecksAssumption
  <1>2. CASE Len(s) <= HistoryCap
    BY <1>1, <1>2 DEF Latest
  <1>3. CASE Len(s) > HistoryCap
    <2>1. PICK m \in Int, n \in Int : n = Len(s) /\ m = n - HistoryCap + 1
      BY <1>1
    <2>2. \A j \in m..n : s[j] \in StopType
      BY <1>1, <1>3, <2>1
    <2>3. /\ SubSeq(s, m, n) \in Seq(StopType)
          /\ Len(SubSeq(s, m, n)) = IF m <= n THEN n - m + 1 ELSE 0
          /\ \A j \in 1..(n - m + 1) : SubSeq(s, m, n)[j] = s[m + j - 1]
      BY ONLY <2>1, <2>2, SubSeqProperties
    <2>4. PICK l : l = Latest(s) /\ l = SubSeq(s, m, n)
      BY <1>3, <2>1 DEF Latest
    <2>5. /\ l \in Seq(StopType) /\ Len(l) = (IF m <= n THEN n - m + 1 ELSE 0)
          /\ \A j \in 1..(n - m + 1) : l[j] = s[m + j - 1]
      BY <2>3, <2>4
    <2>6. n - m + 1 = HistoryCap /\ (m <= n <=> HistoryCap # 0)
      BY <1>1, <2>1
    <2>7. Len(l) = HistoryCap /\ \A j \in 1..HistoryCap : l[j] = s[Len(s) - HistoryCap + j]
      <3>1. Len(l) = HistoryCap
        BY <1>1, <2>5, <2>6
      <3>2. ASSUME NEW j \in 1..HistoryCap PROVE l[j] = s[Len(s) - HistoryCap + j]
        <4>1. m + j - 1 = Len(s) - HistoryCap + j
          BY <1>1, <2>1
        <4> QED BY <2>5, <2>6, <4>1
      <3> QED BY <3>1, <3>2
    <2> QED BY <1>3, <2>4, <2>5, <2>7
  <1> QED BY <1>1, <1>2, <1>3

\* Cutting the history before an event is added to it makes no difference.
LEMMA LatestLatest ==
    ASSUME NEW s \in Seq(StopType), NEW e \in StopType
    PROVE  Latest(Append(Latest(s), e)) = Latest(Append(s, e))
  <1>1. HistoryCap \in Nat /\ Len(s) \in Nat
    BY ChecksAssumption
  <1>2. CASE Len(s) <= HistoryCap
    BY <1>2, LatestIs
  <1>3. CASE Len(s) > HistoryCap
    <2>1. PICK l : /\ l = Latest(s) /\ l \in Seq(StopType) /\ Len(l) = HistoryCap
                   /\ \A j \in 1..HistoryCap : l[j] = s[Len(s) - HistoryCap + j]
      BY <1>1, <1>3, LatestIs
    <2>2. PICK a : /\ a = Append(l, e) /\ a \in Seq(StopType) /\ Len(a) = HistoryCap + 1
                   /\ a[HistoryCap + 1] = e /\ \A j \in 1..HistoryCap : a[j] = l[j]
      <3>1. l \in Seq(StopType)
        BY <2>1
      <3>2. PICK a : a = Append(l, e)
        OBVIOUS
      <3>3. /\ a \in Seq(StopType) /\ Len(a) = Len(l) + 1 /\ a[Len(l) + 1] = e
            /\ \A j \in 1..Len(l) : a[j] = l[j]
        BY <3>1, <3>2, AppendAt
      <3> QED BY <2>1, <3>2, <3>3
    <2>3. PICK b : /\ b = Append(s, e) /\ b \in Seq(StopType) /\ Len(b) = Len(s) + 1
                   /\ b[Len(s) + 1] = e /\ \A j \in 1..Len(s) : b[j] = s[j]
      <3>1. PICK b : b = Append(s, e)
        OBVIOUS
      <3>2. /\ b \in Seq(StopType) /\ Len(b) = Len(s) + 1 /\ b[Len(s) + 1] = e
            /\ \A j \in 1..Len(s) : b[j] = s[j]
        BY <3>1, AppendAt
      <3> QED BY <3>1, <3>2
    <2>4. PICK x : /\ x = Latest(a) /\ x \in Seq(StopType) /\ Len(x) = HistoryCap
                   /\ \A j \in 1..HistoryCap : x[j] = a[Len(a) - HistoryCap + j]
      <3>1. a \in Seq(StopType) /\ ~(Len(a) <= HistoryCap)
        BY <1>1, <2>2
      <3>2. PICK x : x = Latest(a)
        OBVIOUS
      <3>3. /\ x \in Seq(StopType) /\ Len(x) = HistoryCap
            /\ \A j \in 1..HistoryCap : x[j] = a[Len(a) - HistoryCap + j]
        BY <3>1, <3>2, LatestIs
      <3> QED BY <3>2, <3>3
    <2>5. PICK y : /\ y = Latest(b) /\ y \in Seq(StopType) /\ Len(y) = HistoryCap
                   /\ \A j \in 1..HistoryCap : y[j] = b[Len(b) - HistoryCap + j]
      <3>1. b \in Seq(StopType) /\ ~(Len(b) <= HistoryCap)
        BY <1>1, <1>3, <2>3
      <3>2. PICK y : y = Latest(b)
        OBVIOUS
      <3>3. /\ y \in Seq(StopType) /\ Len(y) = HistoryCap
            /\ \A j \in 1..HistoryCap : y[j] = b[Len(b) - HistoryCap + j]
        BY <3>1, <3>2, LatestIs
      <3> QED BY <3>2, <3>3
    <2>6. ASSUME NEW j \in 1..HistoryCap PROVE x[j] = y[j]
      <3>1. x[j] = a[1 + j] /\ y[j] = b[Len(s) + 1 - HistoryCap + j]
        <4>1. /\ Len(a) - HistoryCap + j = 1 + j
              /\ Len(b) - HistoryCap + j = Len(s) + 1 - HistoryCap + j
          <5>1. Len(a) = HistoryCap + 1 /\ Len(b) = Len(s) + 1 /\ j \in Int
            BY <2>2, <2>3
          <5>2. PICK m, n : m = Len(a) /\ n = Len(b)
            OBVIOUS
          <5>3. m - HistoryCap + j = 1 + j /\ n - HistoryCap + j = Len(s) + 1 - HistoryCap + j
            BY <1>1, <5>1, <5>2
          <5> QED BY <5>2, <5>3
        <4> QED BY <2>4, <2>5, <4>1
      <3>2. CASE j = HistoryCap
        <4>1. 1 + j = HistoryCap + 1 /\ Len(s) + 1 - HistoryCap + j = Len(s) + 1
          BY <1>1, <3>2
        <4> QED BY <2>2, <2>3, <3>1, <4>1
      <3>3. CASE j # HistoryCap
        <4>1. PICK i \in 1..HistoryCap, k \in 1..Len(s) :
                i = 1 + j /\ k = Len(s) - HistoryCap + i /\ k = Len(s) + 1 - HistoryCap + j
          <5>1. /\ 1 + j \in 1..HistoryCap /\ Len(s) - HistoryCap + (1 + j) \in 1..Len(s)
                /\ Len(s) - HistoryCap + (1 + j) = Len(s) + 1 - HistoryCap + j
            BY <1>1, <1>3, <3>3
          <5> QED BY <5>1
        <4>2. a[i] = s[k] /\ b[k] = s[k]
          BY <2>1, <2>2, <2>3, <4>1
        <4> QED BY <3>1, <4>1, <4>2
      <3> QED BY <3>2, <3>3
    <2>7. x = y
      BY <1>1, <2>4, <2>5, <2>6, StopsEqual
    <2> QED BY <2>1, <2>2, <2>3, <2>4, <2>5, <2>7
  <1> QED BY <1>1, <1>2, <1>3

LEMMA PushedSeen ==
    ASSUME NEW s \in Seq(StopType), NEW e \in StopType, NEW history, history = Latest(s)
    PROVE  Append(s, e) \in Seq(StopType) /\ Latest(Append(history, e)) = Latest(Append(s, e))
  BY LatestLatest, AppendAt

LEMMA BridgeStopStep ==
    ASSUME Inv, BridgeStop
    PROVE  RunsGood' /\ StopsSeen'
  <1>1. PICK stop \in StopType :
          stop = [place |-> None, at |-> now] /\ stops' = Latest(Append(stops, stop))
          /\ shown' = Append(shown, stop) /\ run' = Tell({stop}, {stop})
    BY DEF Inv, BridgeStop, Push, StopType
  <1>2. /\ UNCHANGED <<bridge, pending, debugger>> /\ \A r \in Runs : Waiting(run[r])
    BY DEF BridgeStop, Event
  <1>3. RunsGood'
    BY <1>1, <1>2, TellStep
  <1>4. shown' \in Seq(StopType) /\ (OneDebugger => stops' = Latest(shown'))
    BY <1>1, PushedSeen DEF Inv, StopsSeen
  <1>5. StopsSeen'
    BY <1>2, <1>4 DEF Inv, StopsSeen, OneDebugger
  <1> QED BY <1>3, <1>5

LEMMA StackTraceStep ==
    ASSUME Inv, NEW d \in Debuggers, StackTrace(d)
    PROVE  RunsGood' /\ StopsSeen'
  <1>1. debugger[d] \in [at : Places \cup {None}, new : BOOLEAN] /\ StopsSeen
    BY DEF Inv, StopsSeen
  <1>2. PICK stop \in StopType :
          /\ stop = [place |-> debugger[d].at, at |-> now]
          /\ pending => stops' = Latest(Append(stops, stop))
          /\ shown' = IF debugger[d].new THEN Append(shown, stop) ELSE shown
          /\ run' = Tell(IF pending THEN {stop} ELSE {}, IF debugger[d].new THEN {stop} ELSE {})
    BY <1>1 DEF Inv, StackTrace, Push, StopType
  <1>3. UNCHANGED bridge /\ \A r \in Runs : Waiting(run[r])
    BY DEF StackTrace, Event
  <1>4. OneDebugger => pending /\ debugger[d].new
    BY <1>1 DEF StackTrace, StopsSeen
  <1>5. RunsGood'
    <2>1. OneDebugger => (IF pending THEN {stop} ELSE {}) = (IF debugger[d].new THEN {stop} ELSE {})
      BY <1>4
    <2> QED BY <1>2, <1>3, <2>1, TellStep
  <1>6. shown' \in Seq(StopType)
    BY <1>1, <1>2, AppendAt DEF StopsSeen
  <1>7. OneDebugger => stops' = Latest(shown')
    BY <1>1, <1>2, <1>4, PushedSeen DEF StopsSeen
  <1>8. debugger' = [debugger EXCEPT ![d].new = FALSE] /\ pending' = FALSE
    BY DEF StackTrace
  <1>9. debugger' \in [Debuggers -> [at : Places \cup {None}, new : BOOLEAN]] /\ ~debugger'[d].new
    BY <1>1, <1>8 DEF StopsSeen
  <1>10. StopsSeen'
    BY <1>6, <1>7, <1>8, <1>9 DEF StopsSeen, OneDebugger
  <1> QED BY <1>5, <1>10

LEMMA DebuggerStep ==
    ASSUME Inv, NEW d \in Debuggers, Stopped(d) \/ Continued(d)
    PROVE  StopsSeen'
  <1>1. PICK reported \in [at : Places \cup {None}, new : BOOLEAN] :
          /\ debugger' = [debugger EXCEPT ![d] = reported]
          /\ reported.at # None => reported.new /\ pending'
    <2>1. CASE Stopped(d)
      <3>1. PICK p \in Places : debugger' = [debugger EXCEPT ![d] = [at |-> p, new |-> TRUE]]
        BY <2>1 DEF Stopped
      <3> QED BY <2>1, <3>1 DEF Stopped
    <2>2. CASE Continued(d)
      <3>1. debugger' = [debugger EXCEPT ![d] = [at |-> None, new |-> FALSE]]
        BY <2>2 DEF Continued
      <3>2. [at |-> None, new |-> FALSE] \in [at : Places \cup {None}, new : BOOLEAN]
        OBVIOUS
      <3> QED BY <3>1, <3>2
    <2> QED BY <2>1, <2>2
  <1>2. UNCHANGED <<stops, shown>> /\ StopsSeen
    BY DEF Stopped, Continued, Inv
  <1>3. debugger' \in [Debuggers -> [at : Places \cup {None}, new : BOOLEAN]] /\ debugger'[d] = reported
    BY <1>1, <1>2 DEF StopsSeen
  <1>4. OneDebugger => \A e \in Debuggers : debugger'[e] = reported
    BY <1>3 DEF OneDebugger
  <1> QED BY <1>1, <1>2, <1>3, <1>4 DEF StopsSeen, OneDebugger

-----------------------------------------------------------------------------
(* The theorems *)

LEMMA InitInv ==
    ASSUME Init
    PROVE  Inv
  <1>1. RunGood(Idle, bridge)
    <2>1. <<>> \in Paths /\ {} \in SUBSET Paths
      BY DEF Paths
    <2>2. Idle \in RunType
      BY <2>1 DEF Idle, RunType, FactsType, NoFacts
    <2>3. Answered(Idle, bridge) /\ StopTold(Idle) /\ Judged(Idle)
      BY DEF Answered, StopTold, Judged, Idle
    <2> QED BY <2>2, <2>3 DEF RunGood
  <1>2. run \in [Runs -> RunType] /\ \A r \in Runs : run[r] = Idle
    BY <1>1 DEF Init, RunGood
  <1>3. RunsGood
    BY <1>1, <1>2 DEF RunsGood
  <1>4. LoadedInv
    BY DEF Init, LoadedInv
  <1>5. StopsSeen
    <2>1. shown = <<>> /\ stops = <<>> /\ shown \in Seq(StopType) /\ Len(shown) = 0
      BY DEF Init
    <2>2. Latest(shown) = shown
      <3>1. HistoryCap \in Nat
        BY ChecksAssumption
      <3>2. Len(shown) <= HistoryCap
        BY <2>1, <3>1
      <3> QED BY <2>1, <3>2, LatestIs
    <2>3. /\ debugger \in [Debuggers -> [at : Places \cup {None}, new : BOOLEAN]]
          /\ \A d \in Debuggers : debugger[d].at = None
      BY DEF Init
    <2> QED BY <2>1, <2>2, <2>3 DEF StopsSeen
  <1>6. bridge \in BOOLEAN /\ now \in Nat /\ StepsOpened
    BY DEF Init, StepsOpened
  <1> QED BY <1>3, <1>4, <1>5, <1>6 DEF Inv

LEMMA RunsSame ==
    ASSUME RunsGood, UNCHANGED <<run, bridge>>
    PROVE  RunsGood'
  BY DEF RunsGood, RunGood, Answered, StopTold, Judged, Walked

LEMMA RunStep ==
    ASSUME Inv, NEW r \in Runs, loaded # None,
           \/ RunCheck(r) \/ Evaluates(r) \/ Executes(r) \/ Timeout(r)
           \/ \E v \in {"pass", "fail", "error", "manual"} : Graded(r, v)
    PROVE  RunsGood' /\ Rest
  <1>1. Rest
    BY DEF RunCheck, Evaluates, Executes, Timeout, Graded, Descend, Ascend, CheckFile, SymbolInElf,
           LookupSymbol, CheckBoard, CheckFlash, Manual, Question, SerialExpect, DebugStop, Task, Answer,
           Sent, ProcessExits, OnDidEndTaskProcess, OnDidEndTask, MomentIsOver
  <1>2. CASE RunCheck(r)
    BY <1>1, <1>2, RunCheckStep
  <1>3. CASE Evaluates(r)
    BY <1>1, <1>3, DescendStep, AscendStep, PlainStep, AwaitStep, SerialStep, DebugStopStep, AnswerStep
       DEF Evaluates
  <1>4. CASE Executes(r) \/ Timeout(r)
    BY <1>1, <1>4, ToldStep
  <1>5. CASE \E v \in {"pass", "fail", "error", "manual"} : Graded(r, v)
    BY <1>1, <1>5, PlainStep
  <1> QED BY <1>1, <1>2, <1>3, <1>4, <1>5

LEMMA NextInv ==
    ASSUME Inv, [Next]_vars
    PROVE  Inv'
  <1>1. CASE UNCHANGED vars
    <2>1. RunsGood'
      BY <1>1, RunsSame DEF Inv, vars
    <2> QED BY <1>1, <2>1 DEF Inv, vars, tracker, world, opened, StepsOpened, LoadedInv, StopsSeen, OneDebugger
  <1>2. CASE ReloadCourses
    <2>1. RunsGood'
      BY <1>2, RunsSame DEF Inv, ReloadCourses
    <2> QED BY <1>2, <2>1 DEF Inv, ReloadCourses, tracker, world, opened, StepsOpened, LoadedInv, StopsSeen, OneDebugger
  <1>3. CASE \E r \in Runs : /\ loaded # None
                             /\ \/ RunCheck(r) \/ Evaluates(r) \/ Executes(r) \/ Timeout(r)
                                \/ \E v \in {"pass", "fail", "error", "manual"} : Graded(r, v)
    <2>1. RunsGood' /\ Rest
      BY <1>3, RunStep
    <2> QED BY <2>1 DEF Inv, Rest, tracker, world, opened, StepsOpened, LoadedInv, StopsSeen, OneDebugger
  <1>4. CASE Edits \/ BoardChanges \/ Flashes \/ AnswersOrConfirms \/ OpensStep
    <2>1. /\ UNCHANGED <<bridge, found, loaded, run, tracker>>
          /\ \/ UNCHANGED opened
             \/ now' = now + 1 /\ open' \in DOMAIN startedAt /\ UNCHANGED startedAt
             \/ now' = now + 1 /\ startedAt' = Append(startedAt, now') /\ open' = Len(startedAt')
      BY <1>4 DEF Edits, BoardChanges, Flashes, AnswersOrConfirms, OpensStep, Event
    <2>2. RunsGood'
      BY <2>1, RunsSame DEF Inv
    <2>3. now' \in Nat
      BY <2>1 DEF Inv, opened
    <2>4. StepsOpened'
      <3>1. startedAt \in Seq(Nat) /\ open \in DOMAIN startedAt
        BY DEF Inv, StepsOpened
      <3>2. CASE UNCHANGED <<startedAt, open>>
        BY <3>1, <3>2 DEF StepsOpened
      <3>3. CASE open' \in DOMAIN startedAt /\ UNCHANGED startedAt
        BY <3>1, <3>3 DEF StepsOpened
      <3>4. CASE startedAt' = Append(startedAt, now') /\ open' = Len(startedAt')
        BY <2>3, <3>1, <3>4 DEF StepsOpened
      <3> QED BY <2>1, <3>2, <3>3, <3>4 DEF opened
    <2> QED BY <2>1, <2>2, <2>3, <2>4 DEF Inv, tracker, LoadedInv, StopsSeen, OneDebugger
  <1>5. CASE SerialLine
    <2>1. UNCHANGED <<bridge, found, loaded, opened, tracker>>
      BY <1>5 DEF SerialLine, Event, world
    <2> QED BY <1>5, <2>1, SerialLineStep DEF Inv, opened, StepsOpened, tracker, LoadedInv, StopsSeen, OneDebugger
  <1>6. CASE BridgeStop
    <2>1. UNCHANGED <<bridge, found, loaded, opened>>
      BY <1>6 DEF BridgeStop, Event, world
    <2> QED BY <1>6, <2>1, BridgeStopStep DEF Inv, opened, StepsOpened, LoadedInv
  <1>7. ASSUME NEW d \in Debuggers, Stopped(d) \/ Continued(d) PROVE Inv'
    <2>1. UNCHANGED <<bridge, found, loaded, run, opened>>
      BY <1>7 DEF Stopped, Continued, Event, world
    <2>2. RunsGood'
      BY <2>1, RunsSame DEF Inv
    <2> QED BY <1>7, <2>1, <2>2, DebuggerStep DEF Inv, opened, StepsOpened, LoadedInv
  <1>8. ASSUME NEW d \in Debuggers, StackTrace(d) PROVE Inv'
    <2>1. UNCHANGED <<bridge, found, loaded, opened>>
      BY <1>8 DEF StackTrace, Event, world
    <2> QED BY <1>8, <2>1, StackTraceStep DEF Inv, opened, StepsOpened, LoadedInv
  <1> QED BY <1>1, <1>2, <1>3, <1>4, <1>5, <1>6, <1>7, <1>8 DEF Next

\* The inductive invariant: runs are where their checks have got them, and have been told what
\* really happened; with one debugger the tracker has its stops.
THEOREM ChecksInv == Spec => []Inv
  <1>1. Init => Inv
    BY InitInv
  <1>2. Inv /\ [Next]_vars => Inv'
    BY NextInv
  <1> QED BY <1>1, <1>2, PTL DEF Spec

\* Whatever packs there are, in whatever sources: the first copy of a course that loads is
\* taken, and one that does not hides none (loader.ts loadCourses).
THEOREM FirstCopyWinsAlways == Spec => []FirstCopyWins
  <1>1. Inv => FirstCopyWins
    <2> SUFFICES ASSUME Inv, loaded # None PROVE FirstCopyWins
      BY DEF FirstCopyWins
    <2>1. found \in Found /\ loaded = LoadCourses(found)
      BY DEF Inv, LoadedInv
    <2>2. PICK packs : packs = CollectSources(found)
      OBVIOUS
    <2>3. /\ DOMAIN packs = 1..Len(packs) /\ loaded.courses = Taken(packs).courses
          /\ TookFirst(Taken(packs), packs, Len(packs))
      <3>1. packs \in Seq(Packs(found))
        BY <2>1, <2>2, SourcesType
      <3> QED BY <2>1, <2>2, <3>1, FirstLoaded
    <2> QED BY <2>2, <2>3 DEF FirstCopyWins, TookFirst, FirstOf, Made
  <1> QED BY <1>1, ChecksInv, PTL

\* A verdict is what the parts of the check came out as, for checks of every depth and width,
\* whatever happens meanwhile (runner.ts all and any).
THEOREM VerdictRightAlways == Spec => []VerdictRight
  <1>1. Inv => VerdictRight
    BY DEF Inv, RunsGood, RunGood, RunType, Judged, VerdictRight, Agrees
  <1> QED BY <1>1, ChecksInv, PTL

\* What a task or the serial line tells a check is not lost, for any number of checks at a time.
THEOREM AnswerHeardAlways == Spec => []AnswerHeard
  <1>1. Inv => AnswerHeard
    BY DEF Inv, RunsGood, RunGood, Answered, AnswerHeard, ExitTold, ReplyHeard, Ended
  <1> QED BY <1>1, ChecksInv, PTL

\* With one debugger a check sees a stop exactly if one that counts was shown: before it asked,
\* however long the history, or while it waited (DebugStopTracker).
THEOREM StopSeenAlways ==
    ASSUME \A d, e \in Debuggers : d = e
    PROVE  Spec => []StopSeen
  <1>1. OneDebugger
    BY DEF OneDebugger
  <1>2. Inv => StopSeen
    BY <1>1 DEF Inv, RunsGood, RunGood, StopTold, StopSeen, Ended
  <1> QED BY <1>2, ChecksInv, PTL
=============================================================================
