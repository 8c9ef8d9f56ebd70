---------------------------- MODULE TutorProofs ----------------------------
(* Proofs about Tutor, for any courses, steps, tasks, checks and bounds.    *)
EXTENDS Tutor, FiniteSetTheorems, WellFoundedInduction, TLAPS

------------------------------------------------------------------------------
(* The rules of session.ts *)

\* A session in which what is kept apart agrees: a result is booked only for a
\* step that was started, so that all passed and started mean the same.  The tasks of K may lack
\* the hint their failures call for.
GoodBut(s, K) ==
  /\ s \in Sessions
  /\ \A k \in Keys : s.task[k].status # "pending" => k[1] \in s.started
  /\ \A st \in Steps : Range(Tasks[st]) # {} => (st \in s.completed <=> IsStepDone(s, st))
  /\ \A k \in Keys \ K : s.task[k].status = "failed" => s.task[k].tier >= s.task[k].failures

Good(s) == GoodBut(s, owed)

\* A session after a verdict, with the hint a failed task is offered.
Booked(s, k, v) ==
  LET s1 == RecordTaskResult(s, k, v)
  IN  IF v = "failed" THEN Escalated(s1, k) ELSE s1

LEMMA KeyParts ==
    ASSUME NEW k \in Keys
    PROVE  k = <<k[1], k[2]>> /\ k[1] \in Steps /\ k[2] \in Range(Tasks[k[1]])
  BY DEF Keys

LEMMA KeysOf ==
    ASSUME NEW st \in Steps, NEW t \in Range(Tasks[st]) PROVE <<st, t>> \in Keys
  BY DEF Keys

\* Natural numbers have a smallest one among them.
LEMMA Smallest ==
    ASSUME NEW N \in SUBSET Nat, N # {}
    PROVE  \E m \in N : \A n \in N : m <= n
  <1>1. PICK m \in N : \A n \in N : ~ (<<n, m>> \in OpToRel(<, Nat))
    BY WFMin, NatLessThanWellFounded
  <1>2. \A n \in N : ~ (n < m)
    BY <1>1 DEF OpToRel
  <1>3. QED BY <1>2

LEMMA StartType == DefaultStart \in Steps \cup {NoStep}
  <1> DEFINE there == {s \in Steps : CourseOf[s] \in known}
             n(s) == Cardinality(Prereq[CourseOf[s]])
             Earlier(a, b) == n(a) < n(b) \/ (n(a) = n(b) /\ Index(a) <= Index(b))
  <1>1. SUFFICES ASSUME there # {} PROVE \E s \in there : \A o \in there : Earlier(s, o)
    BY DEF DefaultStart
  <1>2. \A s \in Steps : n(s) \in Nat
    BY TutorAssumption, FS_CardinalityType
  <1>3. \A s \in Steps : Index(s) \in Nat
    BY TutorAssumption DEF Steps, Range, Index
  <1>4. PICK s1 \in there : \A o \in there : n(s1) <= n(o)
    <2>1. PICK m \in {n(s) : s \in there} : \A i \in {n(s) : s \in there} : m <= i
      BY <1>1, <1>2, Smallest
    <2>2. QED BY <2>1
  <1> DEFINE first == {s \in there : n(s) = n(s1)}
  <1>5. PICK s2 \in first : \A o \in first : Index(s2) <= Index(o)
    <2>1. PICK m \in {Index(s) : s \in first} : \A i \in {Index(s) : s \in first} : m <= i
      BY <1>3, Smallest
    <2>2. QED BY <2>1
  <1>6. QED BY <1>2, <1>4, <1>5

LEMMA TierType ==
    ASSUME NEW f \in Nat
    PROVE  /\ HintTier(f) \in 1..MAX_HINT_TIER
           /\ f <= MAX_HINT_TIER => f <= HintTier(f)
  <1> DEFINE Fits(n) == n = f \/ (n = 1 /\ f = 0) \/ (n = MAX_HINT_TIER /\ f > n)
  <1>1. \E n \in 1..MAX_HINT_TIER : Fits(n)
    <2>1. CASE f = 0
      <3>1. 1 \in 1..MAX_HINT_TIER /\ Fits(1)
        BY <2>1, TutorAssumption
      <3>2. QED BY <3>1
    <2>2. CASE f \in 1..MAX_HINT_TIER
      <3>1. Fits(f)
        OBVIOUS
      <3>2. QED BY <2>2, <3>1
    <2>3. CASE f > MAX_HINT_TIER
      <3>1. MAX_HINT_TIER \in 1..MAX_HINT_TIER /\ Fits(MAX_HINT_TIER)
        BY <2>3, TutorAssumption
      <3>2. QED BY <3>1
    <2>4. QED BY <2>1, <2>2, <2>3, TutorAssumption
  <1>2. HintTier(f) \in 1..MAX_HINT_TIER /\ Fits(HintTier(f))
    BY <1>1 DEF HintTier
  <1>3. QED BY <1>2, TutorAssumption

LEMMA NewSessionGood == /\ \A K : GoodBut(NewSession, K)
                        /\ Good(NewSession) /\ PassedIn(NewSession) = {}
  <1>1. NewTask \in TaskStates
    BY TutorAssumption DEF NewTask, TaskStates, Statuses
  <1>2. NewSession \in Sessions
    BY <1>1 DEF NewSession, Sessions
  <1>3. \A k \in Keys : NewSession.task[k].status = "pending"
    BY DEF NewSession, NewTask
  <1>4. \A st \in Steps : ~IsStepDone(NewSession, st) /\ st \notin NewSession.completed
    BY DEF NewSession, IsStepDone
  <1>5. QED BY <1>2, <1>3, <1>4 DEF Good, GoodBut, PassedIn

\* More steps started, another current one: neither completes a step.
LEMMA StartedGood ==
    ASSUME NEW s, Good(s), NEW to \in Sessions, NEW S \in SUBSET Steps,
           to.started = s.started \cup S, to.completed = s.completed, to.task = s.task
    PROVE  Good(to) /\ PassedIn(to) = PassedIn(s)
  <1>1. ASSUME NEW st \in Steps, Range(Tasks[st]) # {}
        PROVE  IsStepDone(to, st) <=> IsStepDone(s, st)
    <2>1. PICK t \in Range(Tasks[st]) : TRUE
      BY <1>1
    <2>2. <<st, t>> \in Keys
      BY KeysOf
    <2>3. s.task[<<st, t>>].status = "passed" => st \in s.started
      BY <2>2 DEF Good, GoodBut
    <2>4. QED BY <2>3 DEF IsStepDone
  <1>2. QED BY <1>1 DEF Good, GoodBut, PassedIn

LEMMA CurrentStepGood ==
    ASSUME NEW s, Good(s), NEW st \in Steps
    PROVE  /\ Good(SetCurrentStep(s, st))
           /\ PassedIn(SetCurrentStep(s, st)) = PassedIn(s)
  <1> DEFINE to == SetCurrentStep(s, st)
  <1>1. to \in Sessions /\ to.started = s.started \cup {st}
        /\ to.completed = s.completed /\ to.task = s.task
    BY DEF Good, GoodBut, SetCurrentStep, Sessions
  <1> HIDE DEF to
  <1>2. {st} \in SUBSET Steps
    OBVIOUS
  <1>3. Good(to) /\ PassedIn(to) = PassedIn(s)
    BY <1>1, <1>2, StartedGood, Zenon
  <1>4. QED BY <1>3 DEF to, SetCurrentStep

LEMMA AnswerGood ==
    ASSUME NEW s, Good(s), NEW st \in Steps
    PROVE  /\ Good([s EXCEPT !.started = @ \cup {st}])
           /\ PassedIn([s EXCEPT !.started = @ \cup {st}]) = PassedIn(s)
  <1> DEFINE to == [s EXCEPT !.started = @ \cup {st}]
  <1>1. to \in Sessions /\ to.started = s.started \cup {st}
        /\ to.completed = s.completed /\ to.task = s.task
    BY DEF Good, GoodBut, Sessions
  <1> HIDE DEF to
  <1>2. {st} \in SUBSET Steps
    OBVIOUS
  <1>3. Good(to) /\ PassedIn(to) = PassedIn(s)
    BY <1>1, <1>2, StartedGood, Zenon
  <1>4. QED BY <1>3 DEF to

LEMMA MaxType == MAX_HINT_TIER \in Nat \ {0}
  BY TutorAssumption

\* to is s with a hint for k, of this tier at least.
Hinted(s, k, tier, to) ==
  /\ to \in Sessions /\ to.started = s.started /\ to.completed = s.completed
  /\ \A j \in Keys : /\ to.task[j].status = s.task[j].status
                    /\ to.task[j].failures = s.task[j].failures
                    /\ to.task[j].tier >= s.task[j].tier
  /\ to.task[k].tier >= tier

LEMMA TierFacts ==
    ASSUME NEW s \in Sessions, NEW k \in Keys, NEW tier \in 1..MAX_HINT_TIER
    PROVE  Hinted(s, k, tier, SetHintTier(s, k, tier))
  <1> DEFINE old == s.task[k]
             one == [old EXCEPT !.tier = IF tier > old.tier THEN tier ELSE old.tier]
             to == SetHintTier(s, k, tier)
  <1>1. s.task \in [Keys -> TaskStates] /\ old \in TaskStates
    BY DEF Sessions
  <1>2. /\ one \in TaskStates /\ one.status = old.status /\ one.failures = old.failures
        /\ one.tier >= old.tier /\ one.tier >= tier
    BY <1>1, MaxType DEF TaskStates
  <1>3. to = [s EXCEPT !.task[k] = one]
    BY DEF SetHintTier
  <1> HIDE DEF one, to
  <1>4. /\ to \in Sessions /\ to.started = s.started /\ to.completed = s.completed
        /\ to.task = [s.task EXCEPT ![k] = one]
    BY <1>2, <1>3 DEF Sessions
  <1>5. \A j \in Keys : /\ to.task[j] = IF j = k THEN one ELSE s.task[j]
                      /\ s.task[j].tier \in Nat
    BY <1>1, <1>4, MaxType DEF TaskStates
  <1>6. QED BY <1>2, <1>4, <1>5 DEF Hinted, to

LEMMA HintGood ==
    ASSUME NEW s, NEW K, GoodBut(s, K), NEW k \in Keys, NEW tier \in 1..MAX_HINT_TIER
    PROVE  /\ GoodBut(SetHintTier(s, k, tier), K)
           /\ PassedIn(SetHintTier(s, k, tier)) = PassedIn(s)
  <1> DEFINE to == SetHintTier(s, k, tier)
  <1>1. /\ to \in Sessions /\ to.started = s.started /\ to.completed = s.completed
        /\ \A j \in Keys : /\ to.task[j].status = s.task[j].status
                          /\ to.task[j].failures = s.task[j].failures
                          /\ to.task[j].tier >= s.task[j].tier
    BY TierFacts DEF GoodBut, Hinted
  <1> HIDE DEF to
  <1>2. \A st \in Steps : IsStepDone(to, st) <=> IsStepDone(s, st)
    BY <1>1, KeysOf DEF IsStepDone
  <1>3. \A j \in Keys : s.task[j] \in TaskStates /\ to.task[j] \in TaskStates
    BY <1>1 DEF GoodBut, Sessions
  <1>4. \A j \in Keys \ K : to.task[j].status = "failed" => to.task[j].tier >= to.task[j].failures
    BY <1>1, <1>3, MaxType DEF GoodBut, TaskStates
  <1>5. GoodBut(to, K) /\ PassedIn(to) = PassedIn(s)
    BY <1>1, <1>2, <1>4 DEF GoodBut, PassedIn
  <1>6. QED BY <1>5 DEF to

\* to is s with the verdict v booked for k.
Recorded(s, k, v, to) ==
  /\ to \in Sessions /\ to.started = s.started \cup {k[1]}
  /\ to.completed = IF IsStepDone(to, k[1]) THEN s.completed \cup {k[1]} ELSE s.completed \ {k[1]}
  /\ \A j \in Keys : to.task[j].status = IF j = k THEN v ELSE s.task[j].status
  /\ \A j \in Keys \ {k} : to.task[j] = s.task[j]

LEMMA RecordFacts ==
    ASSUME NEW s \in Sessions, NEW k \in Keys, NEW v \in Statuses
    PROVE  Recorded(s, k, v, RecordTaskResult(s, k, v))
  <1> DEFINE one == [s.task[k] EXCEPT !.status = v, !.failures = Counted(v, s.task[k].failures)]
             s1 == [s EXCEPT !.started = @ \cup {k[1]}, !.task[k] = one]
             to == RecordTaskResult(s, k, v)
  <1>1. s.task[k] \in TaskStates /\ k[1] \in Steps
    BY KeyParts DEF Sessions
  <1>2. Counted(v, s.task[k].failures) \in 0..MAX_HINT_TIER
    BY <1>1, MaxType DEF Counted, TaskStates
  <1>3. one \in TaskStates /\ one.status = v
    BY <1>1, <1>2 DEF TaskStates
  <1> HIDE DEF one
  <1>4. /\ s1 \in Sessions /\ s1.started = s.started \cup {k[1]} /\ s1.completed = s.completed
        /\ s1.task = [s.task EXCEPT ![k] = one]
    BY <1>1, <1>3 DEF Sessions
  <1>5. to = [s1 EXCEPT !.completed = IF IsStepDone(s1, k[1]) THEN @ \cup {k[1]} ELSE @ \ {k[1]}]
    BY DEF RecordTaskResult, one
  <1> HIDE DEF s1, to
  <1>6. /\ to \in Sessions /\ to.started = s1.started /\ to.task = s1.task
        /\ to.completed = IF IsStepDone(s1, k[1]) THEN s.completed \cup {k[1]}
                          ELSE s.completed \ {k[1]}
    BY <1>1, <1>4, <1>5 DEF Sessions
  <1>7. IsStepDone(s1, k[1]) <=> IsStepDone(to, k[1])
    BY <1>6 DEF IsStepDone
  <1>8. s.task \in [Keys -> TaskStates]
    BY DEF Sessions
  <1>9. \A j \in Keys : to.task[j] = IF j = k THEN one ELSE s.task[j]
    BY <1>4, <1>6, <1>8
  <1>10. QED BY <1>3, <1>4, <1>6, <1>7, <1>9 DEF Recorded, to

LEMMA MoreGood ==
    ASSUME NEW s, NEW K, NEW L, GoodBut(s, K), K \subseteq L
    PROVE  GoodBut(s, L)
  BY DEF GoodBut

\* The record of a verdict, which is written before the hint tier is raised.
LEMMA RecordGood ==
    ASSUME NEW s, NEW K, GoodBut(s, K), NEW k \in Keys, NEW v \in Statuses
    PROVE  LET r == RecordTaskResult(s, k, v)
           IN  /\ Recorded(s, k, v, r) /\ GoodBut(r, K \cup {k})
               /\ PassedIn(r) = IF v = "passed" THEN PassedIn(s) \cup {k} ELSE PassedIn(s) \ {k}
  <1> DEFINE r == RecordTaskResult(s, k, v)
  <1>1. s \in Sessions /\ k[1] \in Steps
    BY KeyParts DEF GoodBut
  <1>2. Recorded(s, k, v, r)
    BY <1>1, RecordFacts
  <1> HIDE DEF r
  <1>3. \A st \in Steps \ {k[1]} : IsStepDone(r, st) <=> IsStepDone(s, st)
    BY <1>2, KeysOf DEF IsStepDone, Recorded
  <1>4. \A st \in Steps : Range(Tasks[st]) # {} => (st \in r.completed <=> IsStepDone(r, st))
    BY <1>1, <1>2, <1>3 DEF GoodBut, Recorded
  <1>5. \A j \in Keys : r.task[j].status # "pending" => j[1] \in r.started
    BY <1>2, KeyParts DEF GoodBut, Recorded
  <1>6. ASSUME NEW j \in Keys \ (K \cup {k}), r.task[j].status = "failed"
        PROVE  r.task[j].tier >= r.task[j].failures
    BY <1>2, <1>6 DEF GoodBut, Recorded
  <1>7. GoodBut(r, K \cup {k})
    BY <1>2, <1>4, <1>5, <1>6 DEF GoodBut, Recorded
  <1>8. PassedIn(r) = IF v = "passed" THEN PassedIn(s) \cup {k} ELSE PassedIn(s) \ {k}
    BY <1>2 DEF PassedIn, Recorded
  <1>9. QED BY <1>2, <1>7, <1>8 DEF r

\* A session with the verdict and its hint tier.
LEMMA BookedGood ==
    ASSUME NEW s, NEW K, GoodBut(s, K), NEW k \in Keys, NEW v \in Statuses
    PROVE  /\ GoodBut(Booked(s, k, v), K \ {k})
           /\ PassedIn(Booked(s, k, v)) = PassedIn(RecordTaskResult(s, k, v))
  <1> DEFINE r == RecordTaskResult(s, k, v)
             f == r.task[k].failures
             to == Booked(s, k, v)
  <1>1. Recorded(s, k, v, r) /\ GoodBut(r, K \cup {k})
    BY RecordGood
  <1>2. to = IF v = "failed" THEN SetHintTier(r, k, HintTier(f)) ELSE r
    BY DEF Booked, Escalated
  <1> HIDE DEF r, to
  <1>3. r \in Sessions /\ r.task[k] \in TaskStates /\ f \in 0..MAX_HINT_TIER
    BY <1>1 DEF GoodBut, Sessions, TaskStates
  <1>4. HintTier(f) \in 1..MAX_HINT_TIER /\ f <= HintTier(f)
    <2>1. f \in Nat /\ f <= MAX_HINT_TIER
      BY <1>3, MaxType
    <2>2. QED BY <2>1, TierType
  <1>5. /\ GoodBut(to, K \cup {k}) /\ PassedIn(to) = PassedIn(r)
        /\ to.task[k].status = "failed" => to.task[k].tier >= to.task[k].failures
    <2>1. CASE v = "failed"
      <3>1. to = SetHintTier(r, k, HintTier(f))
        BY <1>2, <2>1
      <3>2. GoodBut(to, K \cup {k}) /\ PassedIn(to) = PassedIn(r)
        BY <1>1, <1>4, <3>1, HintGood
      <3>3. Hinted(r, k, HintTier(f), to)
        BY <1>3, <1>4, <3>1, TierFacts
      <3>4. to.task[k] \in TaskStates
        BY <3>3 DEF Hinted, Sessions
      <3>5. to.task[k].tier \in Nat
        BY <3>4, MaxType DEF TaskStates
      <3>6. to.task[k].tier >= HintTier(f) /\ to.task[k].failures = f
        BY <3>3 DEF Hinted
      <3>7. to.task[k].tier >= to.task[k].failures
        BY <1>3, <1>4, <3>5, <3>6, MaxType
      <3>8. QED BY <3>2, <3>7
    <2>2. CASE v # "failed"
      <3>1. to = r
        BY <1>2, <2>2
      <3>2. to.task[k].status = v
        BY <1>1, <3>1 DEF Recorded
      <3>3. QED BY <1>1, <2>2, <3>1, <3>2
    <2>3. QED BY <2>1, <2>2
  <1>6. GoodBut(to, K \ {k})
    BY <1>5 DEF GoodBut
  <1>7. QED BY <1>5, <1>6 DEF to, r

------------------------------------------------------------------------------
(* What a step does to the session, its file and the checks under way *)

FileInv == /\ Good(session) /\ (disk # NoSession => Good(disk))
           /\ lost \in BOOLEAN /\ losses \in Nat /\ owed \subseteq Keys

HostInv == /\ llm \in BOOLEAN /\ known \subseteq Courses /\ up \in BOOLEAN
           /\ run \in [Keys -> Runs] /\ confirmed \subseteq Keys
           /\ hints \subseteq Keys \X Statuses /\ events \in Nat

Inv == FileInv /\ HostInv /\ Durable

Checking == {k \in Keys : run[k].pc = "checking"}
File == <<session, disk, lost, losses, owed>>
Refines == [Progress!Next]_(Progress!vars)

LEMMA SaveStep ==
    ASSUME FileInv, UNCHANGED owed, NEW s, Good(s), SaveSession(s)
    PROVE  FileInv' /\ Durable' /\ session' = s /\ Progress!Write
  <1>1. session' = s /\ s \in Sessions /\ s # NoSession
    BY TutorAssumption DEF SaveSession, Good, GoodBut
  <1>2. CASE disk' = s /\ lost' = FALSE /\ UNCHANGED losses
    BY <1>1, <1>2 DEF FileInv, Good, Durable, Progress!Write
  <1>3. CASE losses' = losses + 1 /\ lost' = TRUE /\ UNCHANGED disk
    BY <1>1, <1>3 DEF FileInv, Good, Durable, Progress!Write
  <1>4. QED BY <1>2, <1>3 DEF SaveSession

LEMMA SameFile ==
    ASSUME Inv, UNCHANGED File, UNCHANGED up
    PROVE  FileInv' /\ Durable'
  BY DEF Inv, File, FileInv, Good, Durable

LEMMA SameRefines ==
    ASSUME UNCHANGED File, UNCHANGED up, Checking' = Checking
    PROVE  Refines
  BY DEF File, Checking, Refines, Progress!vars

LEMMA KeepRefines ==
    ASSUME up, UNCHANGED up, PassedIn(session') = PassedIn(session), Checking' = Checking,
           Progress!Write
    PROVE  Refines
  BY DEF Checking, Refines, Progress!Next, Progress!Keep

LEMMA BeginRefines ==
    ASSUME up, UNCHANGED up, PassedIn(session') = PassedIn(session),
           NEW k \in Keys, k \notin Checking, Checking' = Checking \cup {k},
           Progress!Write \/ UNCHANGED File
    PROVE  Refines
  <1>1. Progress!Begin(k)
    BY DEF Checking, File, Progress!Begin
  <1>2. QED BY <1>1 DEF Refines, Progress!Next

LEMMA RunStep ==
    ASSUME HostInv, NEW k \in Keys, NEW silent \in BOOLEAN, NEW p, NEW c,
           RunTask(k, silent, p, c)
    PROVE  /\ run' \in [Keys -> Runs]
           /\ \/ Checking' = Checking
              \/ k \notin Checking /\ Checking' = Checking \cup {k}
  <1> DEFINE new == [pc |-> "checking", silent |-> silent,
                     confirmed |-> k \in c \/ session.task[k].status = "passed"]
  <1>1. run \in [Keys -> Runs]
    BY DEF HostInv
  <1>2. new \in Runs /\ new.pc = "checking"
    <2>1. (k \in c \/ session.task[k].status = "passed") \in BOOLEAN
      OBVIOUS
    <2>2. QED BY <2>1, Zenon DEF Runs
  <1>3. \/ run' = run
        \/ run[k].pc = "idle" /\ run' = [run EXCEPT ![k] = new]
    BY Zenon DEF RunTask
  <1> HIDE DEF new
  <1>4. QED BY <1>1, <1>2, <1>3 DEF Checking

\* A check that is begun while the file stays as it is.
LEMMA RunRefines ==
    ASSUME Inv, up, UNCHANGED up, UNCHANGED File,
           NEW k \in Keys, NEW silent \in BOOLEAN, NEW p, NEW c, RunTask(k, silent, p, c)
    PROVE  run' \in [Keys -> Runs] /\ Refines
  <1>1. /\ run' \in [Keys -> Runs]
        /\ \/ Checking' = Checking
           \/ k \notin Checking /\ Checking' = Checking \cup {k}
    BY RunStep DEF Inv
  <1>2. PassedIn(session') = PassedIn(session)
    BY DEF File
  <1>3. CASE Checking' = Checking
    BY <1>1, <1>3, SameRefines
  <1>4. CASE k \notin Checking /\ Checking' = Checking \cup {k}
    BY <1>1, <1>2, <1>4, BeginRefines
  <1>5. QED BY <1>1, <1>3, <1>4

------------------------------------------------------------------------------
(* Every step preserves the invariant and is a step of the progress, or none *)

HostOther == /\ llm \in BOOLEAN /\ known \subseteq Courses /\ confirmed \subseteq Keys
             /\ hints \subseteq Keys \X Statuses /\ events \in Nat

LEMMA HostParts == HostInv <=> HostOther /\ up \in BOOLEAN /\ run \in [Keys -> Runs]
  BY DEF HostInv, HostOther

\* Steps that concern the panel, the loops and the hints only.
LEMMA PanelStep ==
    ASSUME Inv, UNCHANGED <<session, disk, lost, losses, owed>>, UNCHANGED up, UNCHANGED run, HostOther'
    PROVE  Inv' /\ Refines
  <1>1. Checking' = Checking
    BY DEF Checking
  <1>2. UNCHANGED File
    BY DEF File
  <1>3. Refines
    BY <1>1, <1>2, SameRefines
  <1>4. FileInv' /\ Durable'
    BY <1>2, SameFile
  <1>5. HostInv'
    BY DEF Inv, HostInv, HostOther
  <1>6. QED BY <1>3, <1>4, <1>5 DEF Inv

\* Steps that begin checks.
LEMMA BeginStep ==
    ASSUME Inv, up, UNCHANGED <<session, disk, lost, losses, owed>>, UNCHANGED up, HostOther',
           NEW k \in Keys, NEW silent \in BOOLEAN, NEW p, NEW c, RunTask(k, silent, p, c)
    PROVE  Inv' /\ Refines
  <1>1. UNCHANGED File
    BY DEF File
  <1>2. run' \in [Keys -> Runs] /\ Refines
    BY <1>1, RunRefines
  <1>3. FileInv' /\ Durable'
    BY <1>1, SameFile
  <1>4. HostInv'
    BY <1>2 DEF Inv, HostInv, HostOther
  <1>5. QED BY <1>2, <1>3, <1>4 DEF Inv

\* Steps that write the session without a pass more or less.
LEMMA KeepStep ==
    ASSUME Inv, up, UNCHANGED up, UNCHANGED owed, UNCHANGED run, HostOther',
           NEW s, Good(s), PassedIn(s) = PassedIn(session), SaveSession(s)
    PROVE  Inv' /\ Refines
  <1>1. FileInv' /\ Durable' /\ session' = s /\ Progress!Write
    BY SaveStep DEF Inv
  <1>2. Checking' = Checking
    BY DEF Checking
  <1>3. Refines
    BY <1>1, <1>2, KeepRefines
  <1>4. HostInv'
    BY DEF Inv, HostInv, HostOther
  <1>5. QED BY <1>1, <1>3, <1>4 DEF Inv

\* A verdict is written, with its hint tier, without it, or not at all.
LEMMA VerdictStep ==
    ASSUME Inv, NEW k \in Keys, NEW v \in Statuses, SaveVerdict(k, v)
    PROVE  /\ FileInv' /\ Durable' /\ session' = Booked(session, k, v) /\ Progress!Write
           /\ PassedIn(session') \in {PassedIn(session) \cup {k}, PassedIn(session) \ {k}}
  <1> DEFINE r == RecordTaskResult(session, k, v)
             b == Booked(session, k, v)
  <1>1. GoodBut(session, owed) /\ losses \in Nat /\ owed \subseteq Keys
        /\ lost \in BOOLEAN /\ (disk # NoSession => GoodBut(disk, owed))
    BY DEF Inv, FileInv, Good
  <1>2. /\ GoodBut(r, owed \cup {k})
        /\ PassedIn(r) \in {PassedIn(session) \cup {k}, PassedIn(session) \ {k}}
    BY <1>1, RecordGood
  <1>3. GoodBut(b, owed \ {k}) /\ PassedIn(b) = PassedIn(r)
    BY <1>1, BookedGood
  <1>4. \/ SaveSession(b) /\ owed' = IF lost' THEN owed ELSE owed \ {k}
        \/ /\ losses' = losses + 1 /\ session' = b /\ disk' = r /\ lost' = TRUE
           /\ owed' = owed \cup {k}
    BY DEF SaveVerdict, Booked
  <1> HIDE DEF r, b
  <1>5. GoodBut(b, owed) /\ GoodBut(b, owed \cup {k})
    BY <1>3, MoreGood
  <1>6. r # NoSession /\ b # NoSession
    BY <1>2, <1>3, TutorAssumption DEF GoodBut
  <1>7. CASE session' = b /\ disk' = b /\ lost' = FALSE /\ UNCHANGED losses /\ owed' = owed \ {k}
    <2>1. FileInv'
      BY <1>1, <1>3, <1>7 DEF FileInv, Good
    <2>2. Durable' /\ Progress!Write
      BY <1>6, <1>7 DEF Durable, Progress!Write
    <2>3. QED BY <1>2, <1>3, <1>7, <2>1, <2>2 DEF b
  <1>8. CASE session' = b /\ UNCHANGED disk /\ lost' = TRUE /\ losses' = losses + 1 /\ UNCHANGED owed
    <2>1. FileInv'
      BY <1>1, <1>5, <1>8 DEF FileInv, Good
    <2>2. Durable' /\ Progress!Write
      BY <1>8 DEF Durable, Progress!Write
    <2>3. QED BY <1>2, <1>3, <1>8, <2>1, <2>2 DEF b
  <1>9. CASE session' = b /\ disk' = r /\ lost' = TRUE /\ losses' = losses + 1 /\ owed' = owed \cup {k}
    <2>1. FileInv'
      BY <1>1, <1>2, <1>5, <1>9 DEF FileInv, Good
    <2>2. Durable' /\ Progress!Write
      BY <1>3, <1>6, <1>9 DEF Durable, Progress!Write
    <2>3. QED BY <1>2, <1>3, <1>9, <2>1, <2>2 DEF b
  <1>10. QED BY <1>4, <1>7, <1>8, <1>9 DEF SaveSession

LEMMA ReturnsStep ==
    ASSUME Inv, NEW k \in Keys, NEW v \in Statuses, Returns(k, v)
    PROVE  Inv' /\ Refines
  <1>1. /\ up /\ UNCHANGED up /\ run[k].pc = "checking" /\ SaveVerdict(k, v)
        /\ run' = [run EXCEPT ![k] = [@ EXCEPT !.pc = "hinting"]] \/ run' = [run EXCEPT ![k] = Idle]
        /\ confirmed' = confirmed \ {k} /\ UNCHANGED <<llm, known, hints, events>>
    BY DEF Returns, EndRun
  <1>2. Good(session) /\ run \in [Keys -> Runs]
    BY DEF Inv, FileInv, HostInv
  <1>3. /\ FileInv' /\ Durable' /\ Progress!Write
        /\ PassedIn(session') \in {PassedIn(session) \cup {k}, PassedIn(session) \ {k}}
    BY <1>1, VerdictStep
  <1>4. run' \in [Keys -> Runs] /\ Checking' = Checking \ {k} /\ k \in Checking
    <2>1. PICK new \in Runs : new.pc # "checking" /\ run' = [run EXCEPT ![k] = new]
      <3>1. [run[k] EXCEPT !.pc = "hinting"] \in Runs /\ Idle \in Runs
        BY <1>2 DEF Runs, Idle
      <3>2. [run[k] EXCEPT !.pc = "hinting"].pc = "hinting" /\ Idle.pc = "idle"
        BY <1>2 DEF Runs, Idle
      <3>3. QED BY <1>1, <3>1, <3>2
    <2>2. QED BY <1>1, <1>2, <2>1 DEF Checking
  <1>5. Progress!Judge(k)
    BY <1>1, <1>3, <1>4 DEF Checking, Progress!Judge
  <1>6. Refines
    BY <1>5 DEF Refines, Progress!Next
  <1>7. HostInv'
    BY <1>1, <1>4 DEF Inv, HostInv
  <1>8. QED BY <1>3, <1>6, <1>7 DEF Inv

LEMMA HintArrivesStep ==
    ASSUME Inv, NEW k \in Keys, HintArrives(k) PROVE Inv' /\ Refines
  <1>1. /\ run[k].pc = "hinting" /\ run' = [run EXCEPT ![k] = Idle]
        /\ UNCHANGED <<llm, known, owed, up, session, disk, lost, losses, confirmed, hints, events>>
    BY DEF HintArrives, EndRun
  <1>2. run \in [Keys -> Runs] /\ Idle \in Runs /\ Idle.pc = "idle"
    BY DEF Inv, HostInv, Runs, Idle
  <1>3. run' \in [Keys -> Runs] /\ Checking' = Checking
    BY <1>1, <1>2 DEF Checking
  <1>4. UNCHANGED File
    BY <1>1 DEF File
  <1>5. Refines
    BY <1>1, <1>3, <1>4, SameRefines
  <1>6. FileInv' /\ Durable'
    BY <1>1, <1>4, SameFile
  <1>7. HostInv'
    BY <1>1, <1>3 DEF Inv, HostInv
  <1>8. QED BY <1>5, <1>6, <1>7 DEF Inv

LEMMA LoopStep ==
    ASSUME Inv, NEW l \in LoopIds, LoopStarts(l) \/ LoopSteps(l) PROVE Inv' /\ Refines
  <1>1. /\ up /\ HostOther' /\ UNCHANGED up /\ UNCHANGED <<session, disk, lost, losses, owed>>
    BY DEF LoopStarts, LoopSteps, Inv, HostInv, HostOther
  <1>2. CASE UNCHANGED run
    BY <1>1, <1>2, PanelStep
  <1>3. CASE \E k \in Keys : RunTask(k, TRUE, panel, confirmed)
    BY <1>1, <1>3, BeginStep
  <1>4. UNCHANGED run \/ \E k \in Keys : RunTask(k, TRUE, panel, confirmed)
    BY DEF LoopStarts, LoopSteps
  <1>5. QED BY <1>2, <1>3, <1>4

LEMMA StudentBegins ==
    ASSUME Inv, NEW k \in Keys, ClicksCheck(k) \/ Confirms(k) PROVE Inv' /\ Refines
  <1>1. /\ up /\ UNCHANGED up /\ UNCHANGED <<session, disk, lost, losses, owed>>
        /\ confirmed' = confirmed \/ confirmed' = confirmed \cup {k}
        /\ events' = events + 1 /\ UNCHANGED <<llm, known, hints>>
    BY Zenon DEF ClicksCheck, Confirms, Event
  <1>2. HostOther'
    BY <1>1 DEF Inv, HostInv, HostOther
  <1>3. \E p, c : RunTask(k, FALSE, p, c)
    BY Zenon DEF ClicksCheck, Confirms
  <1>4. QED BY <1>1, <1>2, <1>3, BeginStep

LEMMA AnswersStep ==
    ASSUME Inv, NEW k \in Keys, Answers(k) PROVE Inv' /\ Refines
  <1> DEFINE s == [session EXCEPT !.started = @ \cup {k[1]}]
  <1>1. /\ up /\ UNCHANGED up /\ SaveSession(s)
        /\ RunTask(k, FALSE, Spins(panel, k[2]), confirmed)
        /\ events' = events + 1 /\ UNCHANGED <<llm, known, owed, confirmed, hints>>
    BY Zenon DEF Answers, Event
  <1>2. HostOther'
    BY <1>1 DEF Inv, HostInv, HostOther
  <1>3. Good(s) /\ PassedIn(s) = PassedIn(session)
    BY AnswerGood, KeyParts DEF Inv, FileInv
  <1> HIDE DEF s
  <1>4. FileInv' /\ Durable' /\ session' = s /\ Progress!Write
    BY <1>1, <1>3, SaveStep DEF Inv
  <1>5. /\ run' \in [Keys -> Runs]
        /\ \/ Checking' = Checking
           \/ k \notin Checking /\ Checking' = Checking \cup {k}
    BY <1>1, RunStep DEF Inv
  <1>6. Refines
    <2>1. PassedIn(session') = PassedIn(session)
      BY <1>3, <1>4
    <2>2. CASE Checking' = Checking
      BY <1>1, <1>4, <2>1, <2>2, KeepRefines
    <2>3. CASE k \notin Checking /\ Checking' = Checking \cup {k}
      BY <1>1, <1>4, <2>1, <2>3, BeginRefines
    <2>4. QED BY <1>5, <2>2, <2>3
  <1>7. HostInv'
    BY <1>1, <1>5, <1>2 DEF Inv, HostInv, HostOther
  <1>8. QED BY <1>4, <1>6, <1>7 DEF Inv

\* What goes on with the student's events that concern neither panel nor checks.
LEMMA EventType ==
    ASSUME Inv, Event, UNCHANGED <<llm, known, up, confirmed>>, hints' \subseteq Keys \X Statuses
    PROVE  up /\ HostOther'
  BY DEF Event, Inv, HostInv, HostOther

LEMMA GoesStep ==
    ASSUME Inv, Event, UNCHANGED <<llm, known, owed, up, run, confirmed, hints>>,
           NEW st \in Steps, GoesTo(st)
    PROVE  Inv' /\ Refines
  <1>1. SaveSession(SetCurrentStep(session, st))
    BY DEF GoesTo
  <1>2. /\ Good(SetCurrentStep(session, st))
        /\ PassedIn(SetCurrentStep(session, st)) = PassedIn(session)
    BY CurrentStepGood DEF Inv, FileInv
  <1>3. up /\ HostOther'
    BY EventType DEF Inv, HostInv
  <1>4. QED BY <1>1, <1>2, <1>3, KeepStep

LEMMA ShowHintStep ==
    ASSUME Inv, NEW k \in Keys, ShowHint(k) PROVE Inv' /\ Refines
  <1> DEFINE t == session.task[k]
             failures == IF t.failures > t.tier THEN t.failures ELSE t.tier + 1
             s == SetHintTier(session, k, HintTier(failures))
  <1>1. Good(session)
    BY DEF Inv, FileInv
  <1>2. t \in TaskStates
    BY <1>1 DEF Good, GoodBut, Sessions
  <1>3. failures \in Nat /\ t.status \in Statuses
    BY <1>2, MaxType DEF TaskStates
  <1>4. /\ Event /\ SaveSession(s) /\ UNCHANGED <<llm, known, owed, up, run, confirmed>>
        /\ hints' = hints \/ hints' = hints \cup {<<k, t.status>>}
    BY Zenon DEF ShowHint
  <1>5. Good(s) /\ PassedIn(s) = PassedIn(session)
    <2>1. HintTier(failures) \in 1..MAX_HINT_TIER
      BY <1>3, TierType
    <2>2. QED BY <1>1, <2>1, HintGood DEF Good
  <1>6. up /\ HostOther'
    <2>1. hints' \subseteq Keys \X Statuses
      BY <1>3, <1>4 DEF Inv, HostInv
    <2>2. QED BY <1>4, <2>1, EventType
  <1> HIDE DEF s
  <1>7. QED BY <1>4, <1>5, <1>6, KeepStep

LEMMA ResetStep ==
    ASSUME Inv, ResetProgress PROVE Inv' /\ Refines
  <1> DEFINE s == IF DefaultStart = NoStep THEN NewSession ELSE SetCurrentStep(NewSession, DefaultStart)
  <1>1. Event /\ SaveSession(s) /\ UNCHANGED <<llm, known, owed, up, run, confirmed, hints>>
    BY DEF ResetProgress
  <1>2. Good(s) /\ PassedIn(s) = {}
    BY StartType, NewSessionGood, CurrentStepGood
  <1> HIDE DEF s
  <1>3. FileInv' /\ Durable' /\ session' = s /\ Progress!Write
    BY <1>1, <1>2, SaveStep DEF Inv
  <1>4. up /\ HostOther'
    BY <1>1, EventType DEF Inv, HostInv
  <1>5. Progress!Reset
    BY <1>1, <1>2, <1>3, <1>4 DEF Progress!Reset
  <1>6. HostInv'
    BY <1>1, <1>4 DEF Inv, HostInv, HostOther
  <1>7. Refines
    BY <1>5 DEF Refines, Progress!Next
  <1>8. QED BY <1>3, <1>6, <1>7 DEF Inv

LEMMA StudentPanel ==
    ASSUME Inv, ClicksRunAll \/ Saves \/ ClosePanel \/ (\E h \in Keys \X Statuses : HintShown(h))
                \/ \E c \in SUBSET Courses : ReloadCourses(c)
    PROVE  Inv' /\ Refines
  <1>1. /\ UNCHANGED <<session, disk, lost, losses, owed>> /\ UNCHANGED up /\ UNCHANGED run
        /\ UNCHANGED llm /\ UNCHANGED confirmed /\ hints' \subseteq hints
        /\ known' = known \/ known' \in SUBSET Courses
        /\ events' = events \/ events' = events + 1
    BY DEF ClicksRunAll, Saves, ClosePanel, HintShown, ReloadCourses, Event
  <1>2. HostOther'
    <2>1. HostOther
      BY DEF Inv, HostInv, HostOther
    <2>2. QED BY <1>1, <2>1 DEF HostOther
  <1>3. QED BY <1>1, <1>2, PanelStep

LEMMA DiesFacts ==
    ASSUME Inv, Dies
    PROVE  /\ up /\ ~up' /\ session' = NewSession /\ Checking' = {} /\ PassedIn(session') = {}
           /\ HostInv'
  <1>1. /\ up /\ events' = events + 1 /\ up' = FALSE /\ session' = NewSession
        /\ run' = [k \in Keys |-> Idle] /\ confirmed' = {} /\ hints' = {}
        /\ UNCHANGED <<llm, known>>
    BY DEF Dies, Event
  <1>2. Idle \in Runs /\ Idle.pc # "checking"
    BY DEF Idle, Runs
  <1>3. HostInv'
    <2>1. hints' \subseteq Keys \X Statuses /\ confirmed' \subseteq Keys
      BY <1>1, Zenon
    <2>2. run' \in [Keys -> Runs] /\ up' \in BOOLEAN
      BY <1>1, <1>2
    <2>3. (llm \in BOOLEAN /\ known \subseteq Courses /\ events \in Nat)'
      BY <1>1 DEF Inv, HostInv
    <2>4. QED BY <2>1, <2>2, <2>3 DEF HostInv
  <1>4. Checking' = {}
    BY <1>1, <1>2 DEF Checking
  <1>5. QED BY <1>1, <1>3, <1>4, NewSessionGood

LEMMA CrashStep ==
    ASSUME Inv, Crash PROVE Inv' /\ Refines
  <1>1. Dies /\ UNCHANGED <<disk, lost, losses, owed>>
    BY DEF Crash
  <1>2. /\ up /\ ~up' /\ session' = NewSession /\ Checking' = {} /\ PassedIn(session') = {}
        /\ HostInv'
    BY <1>1, DiesFacts
  <1>3. FileInv' /\ Durable'
    BY <1>1, <1>2, NewSessionGood DEF Inv, FileInv, Good, Durable
  <1>4. Progress!Crash
    BY <1>1, <1>2 DEF Checking, Progress!Crash
  <1>5. QED BY <1>2, <1>3, <1>4 DEF Inv, Refines, Progress!Next

LEMMA DiesEscalatingStep ==
    ASSUME Inv, NEW k \in Keys, DiesEscalating(k) PROVE Inv' /\ Refines
  <1> DEFINE r == RecordTaskResult(session, k, "failed")
  <1>1. /\ Dies /\ run[k].pc = "checking" /\ disk' = r /\ lost' = FALSE
        /\ owed' = owed \cup {k} /\ UNCHANGED losses
    BY DEF DiesEscalating
  <1>2. /\ up /\ ~up' /\ session' = NewSession /\ Checking' = {} /\ PassedIn(session') = {}
        /\ HostInv'
    BY <1>1, DiesFacts
  <1>3. GoodBut(session, owed) /\ losses \in Nat /\ owed \subseteq Keys
    BY DEF Inv, FileInv, Good
  <1>4. "failed" \in Statuses
    BY DEF Statuses
  <1>5. GoodBut(r, owed \cup {k}) /\ PassedIn(r) = PassedIn(session) \ {k}
    BY <1>3, <1>4, RecordGood
  <1> HIDE DEF r
  <1>6. r # NoSession
    BY <1>5, TutorAssumption DEF GoodBut
  <1>7. FileInv' /\ Durable'
    BY <1>1, <1>2, <1>3, <1>5, NewSessionGood DEF FileInv, Good, Durable
  <1>8. Progress!Crash
    BY <1>1, <1>2, <1>5, <1>6 DEF Checking, Progress!Crash
  <1>9. QED BY <1>2, <1>7, <1>8 DEF Inv, Refines, Progress!Next

LEMMA ActivateStep ==
    ASSUME Inv, Activate PROVE Inv' /\ Refines
  <1> DEFINE s == IF disk = NoSession THEN NewSession ELSE disk
             saved == IF disk = NoSession THEN {} ELSE PassedIn(disk)
  <1>1. Good(s) /\ PassedIn(s) = saved
    BY NewSessionGood DEF Inv, FileInv
  <1>2. /\ ~up /\ up' = TRUE /\ UNCHANGED <<llm, known, owed, run, confirmed, hints, events>>
        /\ \/ session' = s /\ lost' = FALSE /\ UNCHANGED <<disk, losses>>
           \/ DefaultStart # NoStep /\ SaveSession(SetCurrentStep(s, DefaultStart))
    BY DEF Activate
  <1>3. HostInv'
    BY <1>2 DEF Inv, HostInv
  <1>4. CASE session' = s /\ lost' = FALSE /\ UNCHANGED <<disk, losses>>
    <2>1. FileInv' /\ Durable'
      BY <1>1, <1>2, <1>4 DEF Inv, FileInv, Good, Durable
    <2>2. Progress!Resume
      BY <1>1, <1>2, <1>4 DEF Progress!Resume
    <2>3. QED BY <1>3, <2>1, <2>2 DEF Inv, Refines, Progress!Next
  <1>5. CASE DefaultStart # NoStep /\ SaveSession(SetCurrentStep(s, DefaultStart))
    <2> DEFINE to == SetCurrentStep(s, DefaultStart)
    <2>1. Good(to) /\ PassedIn(to) = saved
      BY <1>1, <1>5, StartType, CurrentStepGood
    <2>2. SaveSession(to)
      BY <1>5
    <2> HIDE DEF to
    <2>3. FileInv' /\ Durable' /\ session' = to /\ Progress!Write
      BY <1>2, <2>1, <2>2, SaveStep DEF Inv
    <2>4. Progress!Resume
      BY <1>2, <2>1, <2>3 DEF FileInv, Progress!Resume, Progress!Write
    <2>5. QED BY <1>3, <2>3, <2>4 DEF Inv, Refines, Progress!Next
  <1>6. QED BY <1>2, <1>4, <1>5

------------------------------------------------------------------------------
(* The theorems *)

LEMMA InitInv == Init => Inv /\ Progress!Init
  <1> SUFFICES ASSUME Init PROVE Inv /\ Progress!Init
    OBVIOUS
  <1>1. Idle \in Runs /\ Idle.pc # "checking"
    BY DEF Idle, Runs
  <1>2. HostInv
    BY <1>1 DEF Init, HostInv
  <1>3. FileInv /\ Durable
    BY NewSessionGood DEF Init, FileInv, Good, Durable
  <1>4. Progress!Init
    BY <1>1, NewSessionGood DEF Init, Progress!Init
  <1>5. QED BY <1>2, <1>3, <1>4 DEF Inv

LEMMA NextInv ==
    ASSUME Inv, [Next]_vars PROVE Inv' /\ Refines
  <1>1. ASSUME NEW k \in Keys,
               HintArrives(k) \/ DiesEscalating(k) \/ \E v \in Statuses : Returns(k, v)
        PROVE  Inv' /\ Refines
    BY <1>1, HintArrivesStep, DiesEscalatingStep, ReturnsStep
  <1>2. CASE Loop
    BY <1>2, LoopStep DEF Loop
  <1>3. CASE Student
    <2>1. ASSUME NEW k \in Keys, ClicksCheck(k) \/ Confirms(k) \/ Answers(k) \/ ShowHint(k)
          PROVE  Inv' /\ Refines
      BY <2>1, StudentBegins, AnswersStep, ShowHintStep
    <2>2. CASE ClicksRunAll \/ Saves \/ ClosePanel
      BY <2>2, StudentPanel
    <2>3. CASE RunChecks
      <3>1. PICK st \in Steps : GoesTo(st)
        <4>1. Current \in Steps \cup {NoStep}
          BY DEF Current, Inv, FileInv, Good, GoodBut, Sessions
        <4>2. QED BY <2>3, <4>1, StartType DEF RunChecks
      <3>2. Event /\ UNCHANGED <<llm, known, owed, up, run, confirmed, hints>>
        BY <2>3 DEF RunChecks
      <3>3. QED BY <3>1, <3>2, GoesStep
    <2>4. CASE SetLang
      <3>1. Event /\ SaveSession(session) /\ UNCHANGED <<llm, known, owed, up, run, confirmed, hints>>
        BY <2>4 DEF SetLang
      <3>2. up /\ HostOther' /\ Good(session)
        BY <3>1, EventType DEF Inv, HostInv, FileInv
      <3>3. QED BY <3>1, <3>2, KeepStep
    <2>5. CASE ResetProgress
      BY <2>5, ResetStep
    <2>6. ASSUME NEW st \in Steps, GotoStep(st) PROVE Inv' /\ Refines
      BY <2>6, GoesStep DEF GotoStep
    <2>7. QED BY <1>3, <2>1, <2>2, <2>3, <2>4, <2>5, <2>6 DEF Student
  <1>4. CASE \E h \in Keys \X Statuses : HintShown(h)
    BY <1>4, StudentPanel
  <1>5. CASE \E c \in SUBSET Courses : ReloadCourses(c)
    BY <1>5, StudentPanel
  <1>6. CASE Crash
    BY <1>6, CrashStep
  <1>7. CASE Activate
    BY <1>7, ActivateStep
  <1>8. CASE UNCHANGED vars
    <2>1. UNCHANGED <<session, disk, lost, losses, owed>> /\ UNCHANGED up /\ UNCHANGED run /\ HostOther'
      BY <1>8 DEF vars, Inv, HostInv, HostOther
    <2>2. QED BY <2>1, PanelStep
  <1>9. QED BY <1>1, <1>2, <1>3, <1>4, <1>5, <1>6, <1>7, <1>8 DEF Next

LEMMA AlwaysInv == Spec => []Inv
  <1>1. Inv /\ [Next]_vars => Inv'
    BY NextInv
  <1>2. QED BY InitInv, <1>1, PTL DEF Spec

\* Every variable that a student's progress rests on keeps its type, for any
\* courses: in particular the step a student is taken to is one there is.
THEOREM TypeCorrect == Spec => []TypeOK
  <1>1. Inv => TypeOK
    BY DEF Inv, FileInv, HostInv, Good, GoodBut, TypeOK
  <1>2. QED BY <1>1, AlwaysInv, PTL

\* A step is marked completed exactly while all its tasks are passed, and a
\* failed task has been offered the hint it calls for, unless its verdict was
\* written without the tier it escalates to (recordTaskResult, escalate).
THEOREM ConsistentAlways == Spec => []Consistent
  <1>1. Inv => Consistent
    BY DEF Inv, FileInv, Good, GoodBut, Consistent
  <1>2. QED BY <1>1, AlwaysInv, PTL

\* Unless the last write failed, the file says what the session does.
THEOREM DurableAlways == Spec => []Durable
  <1>1. Inv => Durable
    BY DEF Inv
  <1>2. QED BY <1>1, AlwaysInv, PTL

\* The controller with all its awaits, loops and windows implements the
\* progress of TutorProgress.
THEOREM ProgressImplemented == Spec => ImplementsProgress
  <1>1. Inv /\ [Next]_vars => [Progress!Next]_(Progress!vars)
    BY NextInv DEF Refines
  <1>2. QED BY InitInv, <1>1, AlwaysInv, PTL DEF Spec, ImplementsProgress, Progress!Spec
------------------------------------------------------------------------------
(* The panel *)

\* A run of all tasks that has not come to this task of the step yet.
Awaits(st, t) == \E l \in LoopIds :
  /\ loops[l].kind = "all"
  /\ loops[l].step = NoStep \/ (loops[l].step = st /\ t \in Range(loops[l].todo))

\* What is shown of a task is so, or the task is on its way.
Told(p, t) == LET k == <<p.step, t>>
  IN  \/ p.shown[t] \in {"pending", session.task[k].status}
      \/ p.shown[t] = "running" /\ (run[k].pc = "checking" \/ Awaits(p.step, t))

IsView(p) ==
  /\ p = [step |-> p.step, done |-> p.done, shown |-> p.shown]
  /\ p.step \in Steps /\ p.shown \in [Range(Tasks[p.step]) -> Statuses \cup {"running"}]
IsPanel(p) == p # NoPanel => IsView(p)

IsLoop(x) ==
  /\ x = [kind |-> x.kind, step |-> x.step, todo |-> x.todo, waits |-> x.waits, on |-> x.on]
  /\ x.kind = "all" /\ x.step # NoStep =>
       x.step \in Steps /\ x.todo \in Seq(Range(Tasks[x.step]))
LoopsRight == /\ loops = [l \in LoopIds |-> loops[l]]
              /\ \A l \in LoopIds : IsLoop(loops[l])

\* Without a language model no request to it is under way.
Prompt == hints = {} /\ \A k \in Keys : run[k].pc # "hinting"

PanelTold == panel # NoPanel /\ panel.step = Current =>
               \A t \in Range(Tasks[panel.step]) : Told(panel, t)

PanelInv == ~llm /\ Prompt /\ LoopsRight /\ IsPanel(panel) /\ PanelTold

LEMMA CurrentType == Inv => Current \in Steps \cup {NoStep}
  BY DEF Inv, FileInv, Good, GoodBut, Sessions, Current

LEMMA NoStepApart == NoStep \notin Steps
  BY TutorAssumption

LEMMA ViewFacts ==
    ASSUME NEW s \in Sessions, NEW st \in Steps
    PROVE  /\ IsView(View(s, st)) /\ View(s, st).step = st
           /\ \A t \in Range(Tasks[st]) : View(s, st).shown[t] = s.task[<<st, t>>].status
  <1>1. \A t \in Range(Tasks[st]) : s.task[<<st, t>>].status \in Statuses
    BY KeysOf DEF Sessions, TaskStates
  <1>2. QED BY <1>1 DEF View, IsView

\* q is p with x shown for k, if it shows k.
Posted(p, k, x, q) ==
  p # NoPanel =>
    /\ IsView(q) /\ q.step = p.step
    /\ \A t \in Range(Tasks[p.step]) : q.shown[t] = IF <<p.step, t>> = k THEN x ELSE p.shown[t]

LEMMA PostFacts ==
    ASSUME NEW p, IsPanel(p), NEW k \in Keys, NEW x \in Statuses
    PROVE  Posted(p, k, x, PostTask(p, k, x)) /\ (p = NoPanel => PostTask(p, k, x) = NoPanel)
  <1>1. k = <<k[1], k[2]>> /\ k[2] \in Range(Tasks[k[1]])
    BY KeyParts
  <1>2. CASE p # NoPanel /\ p.step = k[1]
    <2> DEFINE f == [p.shown EXCEPT ![k[2]] = x]
    <2>1. IsView(p)
      BY <1>2 DEF IsPanel
    <2>2. /\ f \in [Range(Tasks[p.step]) -> Statuses \cup {"running"}]
          /\ \A t \in Range(Tasks[p.step]) : f[t] = IF t = k[2] THEN x ELSE p.shown[t]
      BY <2>1 DEF IsView
    <2>3. PostTask(p, k, x) = [step |-> p.step, done |-> p.done, shown |-> f]
      BY <1>2, <2>1 DEF IsView, PostTask
    <2> HIDE DEF f
    <2>4. QED BY <1>1, <1>2, <2>1, <2>2, <2>3 DEF Posted, IsView
  <1>3. CASE ~(p # NoPanel /\ p.step = k[1])
    <2>1. PostTask(p, k, x) = p
      BY <1>3 DEF PostTask
    <2>2. \A t : <<p.step, t>> = k => p.step = k[1]
      BY <1>1
    <2>3. QED BY <1>3, <2>1, <2>2 DEF Posted, IsPanel
  <1>4. QED BY <1>2, <1>3

LEMMA SpinFacts ==
    ASSUME NEW p, IsPanel(p), NEW k \in Keys, p # NoPanel => p.step = k[1]
    PROVE  Posted(p, k, "running", Spins(p, k[2])) /\ (p = NoPanel => Spins(p, k[2]) = NoPanel)
  <1>1. k = <<k[1], k[2]>> /\ k[2] \in Range(Tasks[k[1]])
    BY KeyParts
  <1>2. CASE p # NoPanel
    <2> DEFINE f == [p.shown EXCEPT ![k[2]] = "running"]
    <2>1. IsView(p)
      BY <1>2 DEF IsPanel
    <2>2. /\ f \in [Range(Tasks[p.step]) -> Statuses \cup {"running"}]
          /\ \A t \in Range(Tasks[p.step]) : f[t] = IF t = k[2] THEN "running" ELSE p.shown[t]
      BY <2>1 DEF IsView
    <2>3. Spins(p, k[2]) = [step |-> p.step, done |-> p.done, shown |-> f]
      BY <1>1, <1>2, <2>1 DEF IsView, Spins
    <2> HIDE DEF f
    <2>4. QED BY <1>1, <1>2, <2>1, <2>2, <2>3 DEF Posted, IsView
  <1>3. CASE p = NoPanel
    BY <1>3 DEF Posted, Spins
  <1>4. QED BY <1>2, <1>3

LEMMA DoneFacts ==
    ASSUME NEW p, IsPanel(p)
    PROVE  /\ p = NoPanel => PostStepDone(p) = NoPanel
           /\ p # NoPanel => /\ IsView(PostStepDone(p)) /\ PostStepDone(p).step = p.step
                             /\ PostStepDone(p).shown = p.shown
  BY DEF IsPanel, IsView, PostStepDone

\* A step that leaves the panel where it is.
\* What was told of a task stays told.
Kept(t) == LET k == <<panel.step, t>>
  IN  /\ panel'.shown[t] = panel.shown[t]
      /\ session'.task[k].status = session.task[k].status
      /\ run[k].pc = "checking" => run'[k].pc = "checking"
      /\ Awaits(panel.step, t) => Awaits(panel.step, t)' \/ run'[k].pc = "checking"

LEMMA KeptTold ==
    ASSUME NEW t, panel'.step = panel.step, Told(panel, t), Kept(t)
    PROVE  Told(panel, t)'
  BY DEF Told, Kept

LEMMA PanelStays ==
    ASSUME Inv, PanelInv, ~llm', Prompt', LoopsRight', IsPanel(panel'), Current' = Current,
           panel' # NoPanel => panel # NoPanel /\ panel'.step = panel.step,
           panel # NoPanel /\ panel' # NoPanel /\ panel.step = Current =>
             \A t \in Range(Tasks[panel.step]) : Told(panel, t)' \/ Kept(t)
    PROVE  PanelInv'
  <1>1. SUFFICES ASSUME panel' # NoPanel, panel'.step = Current',
                        NEW t \in Range(Tasks[panel'.step])
                 PROVE  Told(panel, t)'
    BY DEF PanelInv, PanelTold
  <1>2. panel # NoPanel /\ panel'.step = panel.step /\ panel.step = Current
    BY <1>1
  <1>3. Told(panel, t)' \/ Kept(t)
    BY <1>1, <1>2
  <1>4. Told(panel, t)
    BY <1>1, <1>2 DEF PanelInv, PanelTold
  <1>5. QED BY <1>2, <1>3, <1>4, KeptTold

LEMMA BookedFacts ==
    ASSUME NEW s, Good(s), NEW k \in Keys, NEW v \in Statuses
    PROVE  /\ Booked(s, k, v).step = s.step
           /\ \A j \in Keys : Booked(s, k, v).task[j].status = IF j = k THEN v ELSE s.task[j].status
  <1> DEFINE r == RecordTaskResult(s, k, v)
             f == r.task[k].failures
  <1>1. Recorded(s, k, v, r) /\ r \in Sessions
    <2>1. s \in Sessions
      BY DEF Good, GoodBut
    <2>2. Recorded(s, k, v, r)
      BY <2>1, RecordFacts
    <2>3. QED BY <2>2 DEF Recorded
  <1>2. r.step = s.step
    BY DEF Good, GoodBut, Sessions, RecordTaskResult
  <1> HIDE DEF r
  <1>3. CASE v = "failed"
    <2>1. f \in 0..MAX_HINT_TIER
      BY <1>1 DEF Sessions, TaskStates
    <2>2. HintTier(f) \in 1..MAX_HINT_TIER
      <3>1. f \in Nat
        BY <2>1, MaxType
      <3>2. QED BY <3>1, TierType
    <2>3. Hinted(r, k, HintTier(f), SetHintTier(r, k, HintTier(f)))
      BY <1>1, <2>2, TierFacts
    <2>4. SetHintTier(r, k, HintTier(f)).step = r.step
      BY <1>1 DEF SetHintTier, Sessions
    <2>5. Booked(s, k, v) = SetHintTier(r, k, HintTier(f))
      BY <1>3 DEF Booked, Escalated, r
    <2>6. QED BY <1>1, <1>2, <2>3, <2>4, <2>5 DEF Hinted, Recorded
  <1>4. CASE v # "failed"
    <2>1. Booked(s, k, v) = r
      BY <1>4 DEF Booked, r
    <2>2. QED BY <1>1, <1>2, <2>1 DEF Recorded
  <1>5. QED BY <1>3, <1>4

\* A loop that is started for a handler leaves the others as they are.
LEMMA SpawnFacts ==
    ASSUME LoopsRight, NEW kinds, Spawn(kinds),
           kinds \in {<<"local">>, <<"all">>, <<"local", "all">>}
    PROVE  /\ LoopsRight'
           /\ \A l \in LoopIds : loops[l].kind = "all" => loops'[l] = loops[l]
           /\ kinds = <<"all">> => \E l \in LoopIds : loops'[l].kind = "all" /\ loops'[l].step = NoStep
  <1> DEFINE free == {l \in LoopIds : loops[l] = Off}
             fits == Injection(DOMAIN kinds, free)
             f == CHOOSE g \in fits : TRUE
             new(l) == Due(kinds[CHOOSE i \in DOMAIN kinds : f[i] = l])
  <1>1. f \in [DOMAIN kinds -> free]
    BY DEF Spawn, Injection
  <1>2. loops' = [l \in LoopIds |-> IF \E i \in DOMAIN kinds : f[i] = l THEN new(l) ELSE loops[l]]
    BY DEF Spawn
  <1> HIDE DEF f
  <1>3. ASSUME NEW kind
        PROVE  IsLoop(Due(kind)) /\ Due(kind).kind = kind /\ Due(kind).step = NoStep
    <2>1. PICK o : o = Off
      OBVIOUS
    <2>2. o = [kind |-> "off", step |-> NoStep, todo |-> <<>>, waits |-> FALSE, on |-> <<>>]
      BY <2>1 DEF Off
    <2>3. Due(kind) = [o EXCEPT !.kind = kind]
      BY <2>1 DEF Due
    <2>4. Due(kind) = [kind |-> kind, step |-> NoStep, todo |-> <<>>, waits |-> FALSE, on |-> <<>>]
      BY <2>2, <2>3
    <2>5. QED BY <2>4 DEF IsLoop
  <1> HIDE DEF new
  <1>4. LoopsRight'
    <2>1. \A l \in LoopIds : IsLoop(new(l))
      BY <1>3 DEF new
    <2>2. \A l \in LoopIds : loops'[l] = IF \E i \in DOMAIN kinds : f[i] = l THEN new(l) ELSE loops[l]
      BY <1>2
    <2>3. \A l \in LoopIds : IsLoop(loops'[l])
      BY <2>1, <2>2 DEF LoopsRight
    <2>4. loops' = [l \in LoopIds |-> loops'[l]]
      BY <1>2
    <2>5. QED BY <2>3, <2>4 DEF LoopsRight, IsLoop
  <1>5. ASSUME NEW l \in LoopIds, loops[l].kind = "all" PROVE loops'[l] = loops[l]
    <2>1. Off.kind = "off"
      BY DEF Off
    <2>2. l \notin free
      BY <1>5, <2>1
    <2>3. ~ \E i \in DOMAIN kinds : f[i] = l
      BY <1>1, <2>2
    <2>4. QED BY <1>2, <2>3
  <1>6. ASSUME kinds = <<"all">>
        PROVE  \E l \in LoopIds : loops'[l].kind = "all" /\ loops'[l].step = NoStep
    <2>1. DOMAIN kinds = {1} /\ kinds[1] = "all"
      BY <1>6
    <2>2. f[1] \in LoopIds
      BY <1>1, <2>1
    <2>3. loops'[f[1]] = new(f[1])
      BY <1>2, <2>1, <2>2
    <2>4. (CHOOSE i \in DOMAIN kinds : f[i] = f[1]) = 1
      BY <2>1
    <2>5. new(f[1]) = Due("all")
      BY <2>1, <2>4 DEF new
    <2>6. QED BY <1>3, <2>2, <2>3, <2>5
  <1>7. QED BY <1>4, <1>5, <1>6

LEMMA AwaitsKept ==
    ASSUME \A l \in LoopIds : loops[l].kind = "all" =>
             /\ loops'[l].kind = "all" /\ loops'[l].step = loops[l].step
             /\ loops'[l].todo = loops[l].todo,
           NEW st, NEW t, Awaits(st, t)
    PROVE  Awaits(st, t)'
  <1>1. PICK l \in LoopIds : /\ loops[l].kind = "all"
                             /\ loops[l].step = NoStep \/ (loops[l].step = st /\ t \in Range(loops[l].todo))
    BY DEF Awaits
  <1>2. /\ loops'[l].kind = "all" /\ loops'[l].step = loops[l].step
        /\ loops'[l].todo = loops[l].todo
    BY <1>1
  <1>3. \/ loops'[l].step = NoStep
        \/ loops'[l].step = st /\ t \in Range(loops'[l].todo)
    BY <1>1, <1>2, Zenon
  <1>4. QED BY <1>2, <1>3 DEF Awaits

LEMMA TaskRuns ==
    ASSUME Inv, PanelInv, NEW k \in Keys, NEW silent \in BOOLEAN, NEW p, NEW c,
           RunTask(k, silent, p, c)
    PROVE  /\ \A j \in Keys : /\ run[j].pc = "checking" => run'[j].pc = "checking"
                              /\ run'[j].pc # "hinting"
           /\ \/ panel' = p /\ run'[k].pc = "checking"
              \/ ~silent /\ panel' = PostTask(p, k, "pending")
  <1> DEFINE new == [pc |-> "checking", silent |-> silent,
                     confirmed |-> k \in c \/ session.task[k].status = "passed"]
  <1>1. /\ run \in [Keys -> Runs]
        /\ \A j \in Keys : run[j].pc \in {"idle", "checking"}
    BY DEF Inv, HostInv, PanelInv, Prompt, Runs
  <1>2. new.pc = "checking"
    OBVIOUS
  <1>3. \/ panel' = p /\ run' = IF run[k].pc # "idle" THEN run ELSE [run EXCEPT ![k] = new]
        \/ ~silent /\ panel' = PostTask(p, k, "pending") /\ run' = run
    <2>1. CASE Locked(k) /\ ~silent
      <3>1. panel' = PostTask(p, k, "pending") /\ UNCHANGED run
        BY <2>1, Zenon DEF RunTask
      <3>2. QED BY <2>1, <3>1
    <2>2. CASE ~(Locked(k) /\ ~silent)
      BY <2>2, Zenon DEF RunTask
    <2>3. QED BY <2>1, <2>2
  <1> HIDE DEF new
  <1>4. QED BY <1>1, <1>2, <1>3

\* A step of the student that concerns one task, with its spinner or without.
LEMMA ClickKeeps ==
    ASSUME Inv, PanelInv, NEW k \in Keys, NEW p, NEW c, RunTask(k, FALSE, p, c),
           \/ p = panel
           \/ Posted(panel, k, "running", p) /\ (panel = NoPanel => p = NoPanel),
           UNCHANGED llm, UNCHANGED loops, UNCHANGED hints, Current' = Current,
           \A j \in Keys : session'.task[j].status = session.task[j].status
    PROVE  PanelInv'
  <1>1. /\ \A j \in Keys : /\ run[j].pc = "checking" => run'[j].pc = "checking"
                           /\ run'[j].pc # "hinting"
        /\ \/ panel' = p /\ run'[k].pc = "checking"
           \/ panel' = PostTask(p, k, "pending")
    BY TaskRuns
  <1>2. Prompt' /\ LoopsRight' /\ ~llm'
    BY <1>1 DEF PanelInv, Prompt, LoopsRight, IsLoop
  <1>3. \A st, t : Awaits(st, t) => Awaits(st, t)'
    BY DEF Awaits
  <1>4. IsPanel(p) /\ (panel = NoPanel => p = NoPanel)
    BY DEF PanelInv, IsPanel, Posted
  <1>5. ASSUME panel' # NoPanel
        PROVE  /\ panel # NoPanel /\ IsView(panel') /\ panel'.step = panel.step
               /\ \A t \in Range(Tasks[panel.step]) :
                    \/ panel'.shown[t] \in {panel.shown[t], "pending"}
                    \/ /\ <<panel.step, t>> = k /\ panel'.shown[t] = "running"
                       /\ run'[k].pc = "checking"
    <2>1. CASE panel' = p /\ run'[k].pc = "checking"
      <3>1. panel # NoPanel /\ IsView(p)
        BY <1>4, <1>5, <2>1 DEF IsPanel
      <3>2. CASE p = panel
        BY <2>1, <3>1, <3>2
      <3>3. CASE Posted(panel, k, "running", p)
        BY <2>1, <3>1, <3>3 DEF Posted
      <3>4. QED BY <3>2, <3>3
    <2>2. CASE panel' = PostTask(p, k, "pending")
      <3>1. "pending" \in Statuses
        BY DEF Statuses
      <3>2. Posted(p, k, "pending", panel') /\ (p = NoPanel => panel' = NoPanel)
        BY <1>4, <2>2, <3>1, PostFacts
      <3>3. p # NoPanel /\ panel # NoPanel
        BY <1>4, <1>5, <3>2
      <3>4. CASE p = panel
        BY <3>2, <3>3, <3>4 DEF Posted
      <3>5. CASE Posted(panel, k, "running", p)
        BY <3>2, <3>3, <3>5 DEF Posted
      <3>6. QED BY <3>4, <3>5
    <2>3. QED BY <1>1, <2>1, <2>2
  <1>6. IsPanel(panel') /\ (panel' # NoPanel => panel # NoPanel /\ panel'.step = panel.step)
    BY <1>5 DEF IsPanel
  <1>7. ASSUME panel # NoPanel, panel' # NoPanel, NEW t \in Range(Tasks[panel.step])
        PROVE  Told(panel, t)' \/ Kept(t)
    <2>1. panel.step \in Steps /\ panel'.step = panel.step
      BY <1>5, <1>7 DEF PanelInv, IsPanel, IsView
    <2>2. <<panel.step, t>> \in Keys
      BY <1>7, <2>1, KeysOf
    <2>3. CASE panel'.shown[t] = panel.shown[t]
      <3>1. Awaits(panel.step, t) => Awaits(panel.step, t)'
        BY <1>3, <2>1
      <3>2. QED BY <1>1, <2>2, <2>3, <3>1 DEF Kept
    <2>4. CASE panel'.shown[t] = "pending"
      BY <2>4 DEF Told
    <2>5. CASE <<panel.step, t>> = k /\ panel'.shown[t] = "running" /\ run'[k].pc = "checking"
      BY <2>1, <2>5 DEF Told
    <2>6. QED BY <1>5, <1>7, <2>3, <2>4, <2>5
  <1>8. QED BY <1>2, <1>6, <1>7, PanelStays

\* The step that is taken leaves what is current as it is.
LEMMA SaveFacts ==
    ASSUME Inv, NEW s, SaveSession(s), s.step = session.step, UNCHANGED known
    PROVE  session' = s /\ Current' = Current
  BY DEF SaveSession, Current

LEMMA StudentKeeps ==
    ASSUME Inv, PanelInv, NEW k \in Keys, ClicksCheck(k) \/ Confirms(k) \/ Answers(k)
    PROVE  PanelInv'
  <1>1. Good(session)
    BY DEF Inv, FileInv
  <1>2. IsPanel(panel)
    BY DEF PanelInv
  <1>3. ASSUME Shows(k)
        PROVE  /\ Posted(panel, k, "running", Spins(panel, k[2]))
               /\ panel = NoPanel => Spins(panel, k[2]) = NoPanel
    BY <1>2, <1>3, SpinFacts DEF Shows
  <1>4. CASE ClicksCheck(k)
    <2>1. PICK p : /\ RunTask(k, FALSE, p, confirmed)
                   /\ p = panel \/ (Shows(k) /\ p = Spins(panel, k[2]))
      BY <1>4, Zenon DEF ClicksCheck
    <2>2. UNCHANGED <<llm, known, session, loops, hints>>
      BY <1>4 DEF ClicksCheck
    <2>3. UNCHANGED llm /\ UNCHANGED loops /\ UNCHANGED hints /\ Current' = Current
      BY <2>2 DEF Current
    <2>4. \A j \in Keys : session'.task[j].status = session.task[j].status
      BY <2>2
    <2>5. \/ p = panel
          \/ Posted(panel, k, "running", p) /\ (panel = NoPanel => p = NoPanel)
      BY <1>3, <2>1
    <2>6. QED BY <2>1, <2>3, <2>4, <2>5, ClickKeeps
  <1>5. CASE Confirms(k)
    <2>1. RunTask(k, FALSE, Spins(panel, k[2]), confirmed') /\ Shows(k)
      BY <1>5 DEF Confirms
    <2>2. UNCHANGED <<llm, known, session, loops, hints>>
      BY <1>5 DEF Confirms
    <2>3. UNCHANGED llm /\ UNCHANGED loops /\ UNCHANGED hints /\ Current' = Current
      BY <2>2 DEF Current
    <2>4. \A j \in Keys : session'.task[j].status = session.task[j].status
      BY <2>2
    <2>5. PICK p, c : p = Spins(panel, k[2]) /\ c = confirmed'
      OBVIOUS
    <2>6. RunTask(k, FALSE, p, c)
      BY <2>1, <2>5
    <2>7. Posted(panel, k, "running", p) /\ (panel = NoPanel => p = NoPanel)
      BY <1>3, <2>1, <2>5
    <2>8. QED BY <2>3, <2>4, <2>6, <2>7, ClickKeeps
  <1>6. CASE Answers(k)
    <2> DEFINE s == [session EXCEPT !.started = @ \cup {k[1]}]
    <2>1. RunTask(k, FALSE, Spins(panel, k[2]), confirmed) /\ Shows(k) /\ SaveSession(s)
      BY <1>6 DEF Answers
    <2>2. s.step = session.step /\ s.task = session.task
      BY <1>1 DEF Good, GoodBut, Sessions
    <2> HIDE DEF s
    <2>3. UNCHANGED <<llm, known, loops, hints>>
      BY <1>6 DEF Answers
    <2>4. session' = s /\ Current' = Current
      BY <2>1, <2>2, <2>3, SaveFacts
    <2>5. \A j \in Keys : session'.task[j].status = session.task[j].status
      BY <2>2, <2>4
    <2>6. PICK p, c : p = Spins(panel, k[2]) /\ c = confirmed
      OBVIOUS
    <2>7. RunTask(k, FALSE, p, c)
      BY <2>1, <2>6
    <2>8. Posted(panel, k, "running", p) /\ (panel = NoPanel => p = NoPanel)
      BY <1>3, <2>1, <2>6
    <2>9. UNCHANGED llm /\ UNCHANGED loops /\ UNCHANGED hints
      BY <2>3
    <2>10. QED BY <2>4, <2>5, <2>7, <2>8, <2>9, ClickKeeps
  <1>7. QED BY <1>4, <1>5, <1>6

\* A loop that waits or no longer does, and one that has taken a task.
WithWait(x, waits, on) == [x EXCEPT !.waits = waits, !.on = on]
Ahead(x) == [x EXCEPT !.todo = Tail(@)]

LEMMA LoopWaits ==
    ASSUME NEW x, IsLoop(x), NEW waits, NEW on
    PROVE  WithWait(x, waits, on)
             = [kind |-> x.kind, step |-> x.step, todo |-> x.todo, waits |-> waits, on |-> on]
  <1>1. x = [kind |-> x.kind, step |-> x.step, todo |-> x.todo, waits |-> x.waits, on |-> x.on]
    BY DEF IsLoop
  <1>2. PICK K, S, T, W, O : K = {x.kind} /\ S = {x.step} /\ T = {x.todo} /\ W = {x.waits} /\ O = {x.on}
    OBVIOUS
  <1>3. x \in [kind : K, step : S, todo : T, waits : W, on : O]
    BY <1>1, <1>2
  <1>4. WithWait(x, waits, on) \in [kind : K, step : S, todo : T, waits : {waits}, on : {on}]
    BY <1>3 DEF WithWait
  <1>5. QED BY <1>2, <1>4

LEMMA LoopAhead ==
    ASSUME NEW x, IsLoop(x)
    PROVE  Ahead(x)
             = [kind |-> x.kind, step |-> x.step, todo |-> Tail(x.todo), waits |-> x.waits, on |-> x.on]
  <1>1. x = [kind |-> x.kind, step |-> x.step, todo |-> x.todo, waits |-> x.waits, on |-> x.on]
    BY DEF IsLoop
  <1>2. PICK K, S, T, W, O : K = {x.kind} /\ S = {x.step} /\ T = {x.todo} /\ W = {x.waits} /\ O = {x.on}
    OBVIOUS
  <1>3. x \in [kind : K, step : S, todo : T, waits : W, on : O]
    BY <1>1, <1>2
  <1>4. Ahead(x) \in [kind : K, step : S, todo : {Tail(x.todo)}, waits : W, on : O]
    BY <1>3 DEF Ahead
  <1>5. QED BY <1>2, <1>4

LEMMA ReturnsKeeps ==
    ASSUME Inv, PanelInv, NEW k \in Keys, NEW v \in Statuses, Returns(k, v)
    PROVE  PanelInv'
  <1> DEFINE s == Booked(session, k, v)
             q == PostTask(panel, k, v)
  <1>1. ~llm /\ IsPanel(panel) /\ Good(session) /\ run \in [Keys -> Runs]
    BY DEF PanelInv, Inv, FileInv, HostInv
  <1>2. /\ session' = s /\ EndRun(k) /\ UNCHANGED <<llm, known, hints>>
        /\ panel' = PostStepDone(q) \/ panel' = q
    BY <1>1 DEF Returns, SaveVerdict, SaveSession, Booked
  <1>3. /\ s.step = session.step
        /\ \A j \in Keys : s.task[j].status = IF j = k THEN v ELSE session.task[j].status
    BY <1>1, BookedFacts
  <1> HIDE DEF s
  <1>4. session' = s /\ Current' = Current
    BY <1>2, <1>3 DEF Current
  <1>5. Posted(panel, k, v, q) /\ (panel = NoPanel => q = NoPanel)
    BY <1>1, PostFacts
  <1> HIDE DEF q
  <1>6. IsPanel(q)
    BY <1>5 DEF Posted, IsPanel
  <1>7. Posted(panel, k, v, panel') \/ panel' = NoPanel
    <2>1. CASE panel' = q
      BY <1>5, <2>1
    <2>2. CASE panel' = PostStepDone(q) /\ q = NoPanel
      BY <1>6, <2>2, DoneFacts
    <2>3. CASE panel' = PostStepDone(q) /\ q # NoPanel
      <3>1. IsView(panel') /\ panel'.step = q.step /\ panel'.shown = q.shown
        BY <1>6, <2>3, DoneFacts
      <3>2. QED BY <1>5, <3>1 DEF Posted
    <2>4. QED BY <1>2, <2>1, <2>2, <2>3
  <1>8. panel = NoPanel => panel' = NoPanel
    BY <1>2, <1>5, <1>6, DoneFacts
  <1>9. /\ run' = [run EXCEPT ![k] = Idle]
        /\ loops' = [l \in LoopIds |-> IF loops[l].waits /\ loops[l].on = k
                                       THEN [loops[l] EXCEPT !.waits = FALSE, !.on = <<>>] ELSE loops[l]]
    BY <1>2 DEF EndRun
  <1>10. \A l \in LoopIds : /\ IsLoop(loops'[l]) /\ loops'[l].kind = loops[l].kind
                            /\ loops'[l].step = loops[l].step /\ loops'[l].todo = loops[l].todo
    <2>1. TAKE l \in LoopIds
    <2>2. IsLoop(loops[l])
      BY DEF PanelInv, LoopsRight
    <2> DEFINE y == WithWait(loops[l], FALSE, <<>>)
    <2>3. y = [kind |-> loops[l].kind, step |-> loops[l].step, todo |-> loops[l].todo,
               waits |-> FALSE, on |-> <<>>]
      BY <2>2, LoopWaits
    <2> HIDE DEF y
    <2>4. IsLoop(y) /\ y.kind = loops[l].kind /\ y.step = loops[l].step /\ y.todo = loops[l].todo
      BY <2>2, <2>3 DEF IsLoop
    <2>5. loops'[l] = y \/ loops'[l] = loops[l]
      BY <1>9 DEF y, WithWait
    <2>6. QED BY <2>2, <2>4, <2>5
  <1>11. LoopsRight'
    <2>1. loops' = [l \in LoopIds |-> loops'[l]]
      BY <1>9
    <2>2. QED BY <1>10, <2>1 DEF LoopsRight, IsLoop
  <1>12. \A j \in Keys : run'[j] = IF j = k THEN Idle ELSE run[j]
    BY <1>1, <1>9
  <1>13. Prompt' /\ ~llm'
    <2>1. Idle.pc # "hinting"
      BY DEF Idle
    <2>2. QED BY <1>1, <1>2, <1>12, <2>1 DEF PanelInv, Prompt
  <1>14. \A st, t : Awaits(st, t) => Awaits(st, t)'
    BY <1>10, AwaitsKept
  <1>15. ASSUME panel # NoPanel, panel' # NoPanel, NEW t \in Range(Tasks[panel.step])
         PROVE  Told(panel, t)' \/ Kept(t)
    <2>1. panel.step \in Steps
      BY <1>1, <1>15 DEF IsPanel, IsView
    <2>2. <<panel.step, t>> \in Keys
      BY <1>15, <2>1, KeysOf
    <2>3. Posted(panel, k, v, panel')
      BY <1>7, <1>15
    <2>4. /\ panel'.step = panel.step
          /\ panel'.shown[t] = IF <<panel.step, t>> = k THEN v ELSE panel.shown[t]
      BY <1>15, <2>3 DEF Posted
    <2>5. CASE <<panel.step, t>> = k
      <3>1. session'.task[<<panel'.step, t>>].status = v /\ panel'.shown[t] = v
        BY <1>3, <1>4, <2>2, <2>4, <2>5
      <3>2. QED BY <3>1 DEF Told
    <2>6. CASE <<panel.step, t>> # k
      <3>1. Awaits(panel.step, t) => Awaits(panel.step, t)'
        BY <1>14, <2>4
      <3>2. QED BY <1>3, <1>4, <1>12, <2>2, <2>4, <2>6, <3>1 DEF Kept
    <2>7. QED BY <2>5, <2>6
  <1>16. IsPanel(panel') /\ (panel' # NoPanel => panel # NoPanel /\ panel'.step = panel.step)
    BY <1>7, <1>8 DEF IsPanel, Posted
  <1>17. QED BY <1>4, <1>11, <1>13, <1>15, <1>16, PanelStays

LEMMA ShowHintKeeps ==
    ASSUME Inv, PanelInv, NEW k \in Keys, ShowHint(k)
    PROVE  PanelInv'
  <1> DEFINE h == session.task[k]
             failures == IF h.failures > h.tier THEN h.failures ELSE h.tier + 1
             s == SetHintTier(session, k, HintTier(failures))
  <1>1. ~llm /\ IsPanel(panel) /\ Good(session) /\ session \in Sessions
    BY DEF PanelInv, Inv, FileInv, Good, GoodBut
  <1>2. /\ SaveSession(s) /\ UNCHANGED <<llm, known, run, loops, hints>>
        /\ panel' = PostTask(panel, k, h.status)
    BY <1>1 DEF ShowHint
  <1>3. h \in TaskStates
    BY <1>1 DEF Sessions
  <1>4. failures \in Nat /\ h.status \in Statuses
    BY <1>3, MaxType DEF TaskStates
  <1>5. HintTier(failures) \in 1..MAX_HINT_TIER
    BY <1>4, TierType
  <1>6. Hinted(session, k, HintTier(failures), s)
    BY <1>1, <1>5, TierFacts
  <1>7. s.step = session.step
    BY <1>1 DEF SetHintTier, Sessions
  <1> HIDE DEF s
  <1>8. session' = s /\ Current' = Current
    BY <1>2, <1>7, SaveFacts
  <1>9. Posted(panel, k, h.status, panel') /\ (panel = NoPanel => panel' = NoPanel)
    BY <1>1, <1>2, <1>4, PostFacts
  <1>10. Prompt' /\ LoopsRight' /\ ~llm'
    BY <1>1, <1>2 DEF PanelInv, Prompt, LoopsRight, IsLoop
  <1>11. ASSUME panel # NoPanel, panel' # NoPanel, NEW t \in Range(Tasks[panel.step])
         PROVE  Told(panel, t)' \/ Kept(t)
    <2>1. panel.step \in Steps
      BY <1>1, <1>11 DEF IsPanel, IsView
    <2>2. <<panel.step, t>> \in Keys
      BY <1>11, <2>1, KeysOf
    <2>3. session'.task[<<panel.step, t>>].status = session.task[<<panel.step, t>>].status
      BY <1>6, <1>8, <2>2 DEF Hinted
    <2>4. /\ panel'.step = panel.step
          /\ panel'.shown[t] = IF <<panel.step, t>> = k THEN h.status ELSE panel.shown[t]
      BY <1>9, <1>11 DEF Posted
    <2>5. CASE <<panel.step, t>> = k
      BY <2>3, <2>4, <2>5 DEF Told
    <2>6. CASE <<panel.step, t>> # k
      <3>1. Awaits(panel.step, t) => Awaits(panel.step, t)'
        BY <1>2, <2>4 DEF Awaits
      <3>2. run' = run
        BY <1>2
      <3>3. QED BY <2>3, <2>4, <2>6, <3>1, <3>2 DEF Kept
    <2>7. QED BY <2>5, <2>6
  <1>12. IsPanel(panel') /\ (panel' # NoPanel => panel # NoPanel /\ panel'.step = panel.step)
    BY <1>9 DEF IsPanel, Posted
  <1>13. QED BY <1>8, <1>10, <1>11, <1>12, PanelStays

LEMMA DueFacts ==
    ASSUME NEW kind, NEW st, NEW todo
    PROVE  [Due(kind) EXCEPT !.step = st, !.todo = todo]
             = [kind |-> kind, step |-> st, todo |-> todo, waits |-> FALSE, on |-> <<>>]
  <1>1. PICK K, E, N : K = {kind} /\ E = {<<>>} /\ N = {NoStep}
    OBVIOUS
  <1>2. PICK o : o = Off
    OBVIOUS
  <1>3. o \in [kind : {"off"}, step : N, todo : E, waits : {FALSE}, on : E]
    BY <1>1, <1>2 DEF Off
  <1>4. PICK d : d = Due(kind)
    OBVIOUS
  <1>5. d \in [kind : K, step : N, todo : E, waits : {FALSE}, on : E]
    BY <1>1, <1>2, <1>3, <1>4 DEF Due
  <1> DEFINE new == [d EXCEPT !.step = st, !.todo = todo]
  <1>6. new \in [kind : K, step : {st}, todo : {todo}, waits : {FALSE}, on : E]
    BY <1>5
  <1> HIDE DEF new
  <1>7. new = [kind |-> kind, step |-> st, todo |-> todo, waits |-> FALSE, on |-> <<>>]
    BY <1>1, <1>6
  <1>8. QED BY <1>4, <1>7 DEF new

LEMMA LoopStartsKeeps ==
    ASSUME Inv, PanelInv, NEW l \in LoopIds, LoopStarts(l)
    PROVE  PanelInv'
  <1>1. /\ UNCHANGED <<llm, known, session, panel, run, hints>>
        /\ loops[l].kind \in {"all", "local"} /\ loops[l].step = NoStep
    BY DEF LoopStarts
  <1>2. PICK todo :
          /\ loops' = [loops EXCEPT ![l] =
               IF \/ Current = NoStep
                  \/ loops[l].kind = "local" /\ StepStatus(session, Current) = "locked"
               THEN Off ELSE [Due(loops[l].kind) EXCEPT !.step = Current, !.todo = todo]]
          /\ loops[l].kind = "all" => todo = Tasks[Current]
    <2> DEFINE Local(t) == IsLocalCheck(<<Current, t>>)
               all == IF loops[l].kind = "all" THEN Tasks[Current] ELSE SelectSeq(Tasks[Current], Local)
    <2>1. loops' = [loops EXCEPT ![l] =
               IF \/ Current = NoStep
                  \/ loops[l].kind = "local" /\ StepStatus(session, Current) = "locked"
               THEN Off ELSE [Due(loops[l].kind) EXCEPT !.step = Current, !.todo = all]]
      BY DEF LoopStarts
    <2>2. loops[l].kind = "all" => all = Tasks[Current]
      OBVIOUS
    <2> HIDE DEF all
    <2>3. QED BY <2>1, <2>2, Zenon
  <1>3. /\ loops = [i \in LoopIds |-> loops[i]] /\ \A i \in LoopIds : IsLoop(loops[i])
        /\ ~llm /\ Prompt /\ IsPanel(panel)
    BY DEF PanelInv, LoopsRight
  <1>4. /\ \A i \in LoopIds \ {l} : loops'[i] = loops[i]
        /\ \/ loops'[l] = Off /\ (loops[l].kind = "all" => Current = NoStep)
           \/ /\ loops'[l] = [kind |-> loops[l].kind, step |-> Current, todo |-> todo,
                              waits |-> FALSE, on |-> <<>>]
              /\ Current # NoStep
    <2>1. \/ Current = NoStep \/ (loops[l].kind = "local" /\ StepStatus(session, Current) = "locked")
          \/ Current # NoStep
      OBVIOUS
    <2> DEFINE off == \/ Current = NoStep
                      \/ loops[l].kind = "local" /\ StepStatus(session, Current) = "locked"
               new == [Due(loops[l].kind) EXCEPT !.step = Current, !.todo = todo]
    <2>2. new = [kind |-> loops[l].kind, step |-> Current, todo |-> todo,
                 waits |-> FALSE, on |-> <<>>]
      BY DueFacts
    <2> HIDE DEF new
    <2>3. loops' = [loops EXCEPT ![l] = IF off THEN Off ELSE new]
      BY <1>2 DEF new
    <2>4. off => (loops[l].kind = "all" => Current = NoStep)
      OBVIOUS
    <2>5. ~off => Current # NoStep
      OBVIOUS
    <2> HIDE DEF off
    <2>6. loops'[l] = IF off THEN Off ELSE new
      BY <1>3, <2>3
    <2>7. \A i \in LoopIds \ {l} : loops'[i] = loops[i]
      BY <1>3, <2>3
    <2>8. QED BY <2>2, <2>4, <2>5, <2>6, <2>7
  <1>5. Current' = Current
    BY <1>1 DEF Current
  <1>6. LoopsRight'
    <2>1. IsLoop(loops'[l])
      <3>1. CASE loops'[l] = Off
        <4>1. PICK o : o = loops'[l]
          OBVIOUS
        <4>2. o = [kind |-> "off", step |-> NoStep, todo |-> <<>>, waits |-> FALSE, on |-> <<>>]
          BY <3>1, <4>1 DEF Off
        <4>3. IsLoop(o)
          BY <4>2 DEF IsLoop
        <4>4. QED BY <4>1, <4>3
      <3>2. CASE /\ loops'[l] = [kind |-> loops[l].kind, step |-> Current, todo |-> todo,
                                 waits |-> FALSE, on |-> <<>>]
                 /\ Current # NoStep
        <4>1. Current \in Steps
          BY <3>2, CurrentType
        <4>2. Tasks[Current] \in Seq(Range(Tasks[Current]))
          BY <4>1, TutorAssumption
        <4>3. PICK o : o = loops'[l]
          OBVIOUS
        <4>4. IsLoop(o)
          BY <1>2, <3>2, <4>1, <4>2, <4>3 DEF IsLoop
        <4>5. QED BY <4>3, <4>4
      <3>3. QED BY <1>4, <3>1, <3>2
    <2>2. \A i \in LoopIds : IsLoop(loops'[i])
      BY <1>3, <1>4, <2>1
    <2>3. loops' = [i \in LoopIds |-> loops'[i]]
      BY <1>2, <1>3
    <2>4. QED BY <2>2, <2>3 DEF LoopsRight, IsLoop
  <1>7. Prompt' /\ ~llm'
    BY <1>1, <1>3 DEF Prompt
  <1>8. ASSUME panel # NoPanel, panel.step = Current, NEW t \in Range(Tasks[panel.step])
        PROVE  Told(panel, t)' \/ Kept(t)
    <2>1. panel.step \in Steps /\ Current # NoStep
      BY <1>3, <1>8, NoStepApart DEF IsPanel, IsView
    <2>2. ASSUME Awaits(panel.step, t) PROVE Awaits(panel.step, t)'
      <3>1. PICK i \in LoopIds :
              /\ loops[i].kind = "all"
              /\ loops[i].step = NoStep \/ (loops[i].step = panel.step /\ t \in Range(loops[i].todo))
        BY <2>2 DEF Awaits
      <3>2. panel'.step = panel.step
        BY <1>1
      <3>3. CASE i # l
        <4>1. loops'[i] = loops[i]
          BY <1>4, <3>3
        <4>2. QED BY <3>1, <3>2, <4>1 DEF Awaits
      <3>4. CASE i = l
        <4>1. loops'[l] = [kind |-> loops[l].kind, step |-> Current, todo |-> todo,
                           waits |-> FALSE, on |-> <<>>]
          BY <1>4, <2>1, <3>1, <3>4
        <4>2. loops'[l].kind = "all" /\ loops'[l].step = Current /\ loops'[l].todo = Tasks[Current]
          <5>1. loops[l].kind = "all"
            BY <3>1, <3>4
          <5>2. todo = Tasks[Current]
            BY <1>2, <5>1
          <5>3. QED BY <4>1, <5>1, <5>2
        <4>3. loops'[l].step = panel'.step /\ t \in Range(loops'[l].todo)
          BY <1>8, <3>2, <4>2
        <4>4. QED BY <4>2, <4>3 DEF Awaits
      <3>5. QED BY <3>3, <3>4
    <2>3. UNCHANGED panel /\ UNCHANGED session /\ UNCHANGED run
      BY <1>1
    <2>4. QED BY <2>2, <2>3 DEF Kept
  <1>9. IsPanel(panel') /\ (panel' # NoPanel => panel # NoPanel /\ panel'.step = panel.step)
    BY <1>1, <1>3
  <1>10. QED BY <1>5, <1>6, <1>7, <1>8, <1>9, PanelStays

LEMMA TodoParts ==
    ASSUME NEW S, NEW q \in Seq(S), q # <<>>
    PROVE  /\ Head(q) \in S /\ Tail(q) \in Seq(S)
           /\ \A t \in Range(q) : t = Head(q) \/ t \in Range(Tail(q))
  <1>1. Head(q) \in S /\ Tail(q) \in Seq(S)
    OBVIOUS
  <1>2. ASSUME NEW t \in Range(q), t # Head(q) PROVE t \in Range(Tail(q))
    <2>1. PICK i \in DOMAIN q : t = q[i]
      BY DEF Range
    <2>2. i \in 2..Len(q)
      BY <1>2, <2>1
    <2>3. i - 1 \in DOMAIN Tail(q) /\ Tail(q)[i - 1] = t
      BY <2>1, <2>2
    <2>4. QED BY <2>3 DEF Range
  <1>3. QED BY <1>1, <1>2

\* What the panel awaits of the loop l, it goes on awaiting or is told.
LEMMA LoopMovesOn ==
    ASSUME Inv, PanelInv, NEW l \in LoopIds, NEW new, loops' = [loops EXCEPT ![l] = new],
           loops[l].step # NoStep,
           UNCHANGED llm, UNCHANGED hints, UNCHANGED session, UNCHANGED known, Prompt',
           \A j \in Keys : run[j].pc = "checking" => run'[j].pc = "checking",
           IsLoop(new),
           loops[l].kind = "all" /\ loops[l].todo # <<>> =>
             new.kind = "all" /\ new.step = loops[l].step /\ new.todo = Tail(loops[l].todo),
           IsPanel(panel'), panel' # NoPanel => panel # NoPanel /\ panel'.step = panel.step,
           panel # NoPanel /\ panel' # NoPanel =>
             \A t \in Range(Tasks[panel.step]) :
               \/ panel'.shown[t] = session.task[<<panel.step, t>>].status
               \/ /\ panel'.shown[t] = panel.shown[t]
                  /\ /\ panel.step = Current /\ loops[l].kind = "all" /\ loops[l].todo # <<>>
                     /\ loops[l].step = panel.step /\ t = Head(loops[l].todo)
                     => run'[<<panel.step, t>>].pc = "checking"
    PROVE  PanelInv'
  <1>1. /\ loops = [i \in LoopIds |-> loops[i]] /\ \A i \in LoopIds : IsLoop(loops[i])
        /\ ~llm /\ IsPanel(panel)
    BY DEF PanelInv, LoopsRight
  <1>2. \A i \in LoopIds : loops'[i] = IF i = l THEN new ELSE loops[i]
    BY <1>1
  <1>3. LoopsRight'
    <2>1. \A i \in LoopIds : IsLoop(loops'[i])
      BY <1>1, <1>2
    <2>2. loops' = [i \in LoopIds |-> loops'[i]]
      BY <1>1
    <2>3. QED BY <2>1, <2>2 DEF LoopsRight, IsLoop
  <1>4. Current' = Current /\ ~llm'
    BY <1>1 DEF Current
  <1>5. ASSUME panel # NoPanel, panel' # NoPanel, panel.step = Current,
               NEW t \in Range(Tasks[panel.step])
        PROVE  Told(panel, t)' \/ Kept(t)
    <2>1. panel.step \in Steps /\ panel'.step = panel.step
      BY <1>1, <1>5 DEF IsPanel, IsView
    <2>2. <<panel.step, t>> \in Keys
      BY <1>5, <2>1, KeysOf
    <2>3. CASE panel'.shown[t] = session.task[<<panel.step, t>>].status
      BY <2>1, <2>3 DEF Told
    <2>4. CASE /\ panel'.shown[t] = panel.shown[t]
               /\ /\ panel.step = Current /\ loops[l].kind = "all" /\ loops[l].todo # <<>>
                  /\ loops[l].step = panel.step /\ t = Head(loops[l].todo)
                  => run'[<<panel.step, t>>].pc = "checking"
      <3>1. ASSUME Awaits(panel.step, t)
            PROVE  Awaits(panel.step, t)' \/ run'[<<panel.step, t>>].pc = "checking"
        <4>1. PICK i \in LoopIds :
                /\ loops[i].kind = "all"
                /\ loops[i].step = NoStep \/ (loops[i].step = panel.step /\ t \in Range(loops[i].todo))
          BY <3>1 DEF Awaits
        <4>2. CASE i # l
          <5>1. loops'[i] = loops[i]
            BY <1>2, <4>2
          <5>2. QED BY <2>1, <4>1, <5>1 DEF Awaits
        <4>3. CASE i = l
          <5>1. loops[l].kind = "all" /\ loops[l].step = panel.step /\ t \in Range(loops[l].todo)
            BY <4>1, <4>3
          <5>2. loops[l].todo \in Seq(Range(Tasks[panel.step]))
            BY <1>1, <5>1 DEF IsLoop
          <5>3. loops[l].todo # <<>>
            BY <5>1 DEF Range
          <5>4. t = Head(loops[l].todo) \/ t \in Range(Tail(loops[l].todo))
            BY <5>1, <5>2, <5>3, TodoParts
          <5>5. CASE t = Head(loops[l].todo)
            BY <1>5, <2>4, <5>1, <5>3, <5>5
          <5>6. CASE t \in Range(Tail(loops[l].todo))
            <6>1. new.kind = "all" /\ new.step = loops[l].step /\ new.todo = Tail(loops[l].todo)
              BY <5>1, <5>3
            <6>2. loops'[l] = new
              BY <1>2
            <6>3. loops'[l].kind = "all" /\ loops'[l].step = panel'.step /\ t \in Range(loops'[l].todo)
              BY <2>1, <5>1, <5>6, <6>1, <6>2
            <6>4. QED BY <6>3 DEF Awaits
          <5>7. QED BY <5>4, <5>5, <5>6
        <4>4. QED BY <4>2, <4>3
      <3>2. QED BY <2>2, <2>4, <3>1 DEF Kept
    <2>5. QED BY <1>5, <2>3, <2>4
  <1>6. QED BY <1>3, <1>4, <1>5, PanelStays

LEMMA LoopStepsKeeps ==
    ASSUME Inv, PanelInv, NEW l \in LoopIds, LoopSteps(l)
    PROVE  PanelInv'
  <1> DEFINE x == loops[l]
             t0 == Head(x.todo)
             own == <<x.step, t0>>
             k == <<Current, t0>>
  <1>1. x.step # NoStep /\ UNCHANGED <<llm, known, session, hints>>
    BY DEF LoopSteps
  <1>2. /\ IsLoop(x) /\ ~llm /\ Prompt /\ IsPanel(panel) /\ loops = [i \in LoopIds |-> loops[i]]
        /\ Good(session) /\ run \in [Keys -> Runs]
    BY DEF PanelInv, LoopsRight, Inv, FileInv, HostInv
  <1>3. x.kind = "all" => x.step \in Steps /\ x.todo \in Seq(Range(Tasks[x.step]))
    BY <1>1, <1>2 DEF IsLoop
  <1>4. x.kind = "all" /\ x.todo # <<>> => own \in Keys
    BY <1>3, TodoParts, KeysOf
  <1>5. \/ x.todo = <<>> /\ loops' = [loops EXCEPT ![l] = Off] /\ UNCHANGED <<panel, run>>
        \/ x.todo # <<>> /\ \/ /\ loops' = [loops EXCEPT ![l] = Ahead(x)]
                               /\ x.kind = "all" /\ session.task[own].status = "passed"
                               /\ panel' = PostTask(panel, own, "passed") /\ UNCHANGED run
                            \/ /\ k \in Keys /\ RunTask(k, TRUE, panel, confirmed)
                               /\ loops' = [loops EXCEPT ![l] = WithWait(Ahead(x), TRUE, k)]
                            \/ /\ loops' = [loops EXCEPT ![l] = Ahead(x)] /\ UNCHANGED <<panel, run>>
                               /\ ~(k \in Keys /\ run[k].pc = "idle")
    BY Zenon DEF LoopSteps, Ahead, WithWait
  <1>6. /\ Ahead(x) = [kind |-> x.kind, step |-> x.step, todo |-> Tail(x.todo),
                       waits |-> x.waits, on |-> x.on]
        /\ x.todo # <<>> => IsLoop(Ahead(x))
    <2>1. Ahead(x) = [kind |-> x.kind, step |-> x.step, todo |-> Tail(x.todo),
                      waits |-> x.waits, on |-> x.on]
      BY <1>2, LoopAhead
    <2>2. PICK y : y = Ahead(x)
      OBVIOUS
    <2>3. x.todo # <<>> /\ x.kind = "all" => Tail(x.todo) \in Seq(Range(Tasks[x.step]))
      BY <1>3, TodoParts
    <2>4. x.todo # <<>> => IsLoop(y)
      BY <1>3, <2>1, <2>2, <2>3 DEF IsLoop
    <2>5. QED BY <2>1, <2>2, <2>4
  <1> HIDE DEF x
  <1>7. Ahead(x).kind = x.kind /\ Ahead(x).step = x.step /\ Ahead(x).todo = Tail(x.todo)
    BY <1>6
  <1>8. CASE x.todo = <<>> /\ loops' = [loops EXCEPT ![l] = Off] /\ UNCHANGED <<panel, run>>
    <2>1. PICK o : o = Off
      OBVIOUS
    <2>2. o = [kind |-> "off", step |-> NoStep, todo |-> <<>>, waits |-> FALSE, on |-> <<>>]
      BY <2>1 DEF Off
    <2>3. IsLoop(o)
      BY <2>2 DEF IsLoop
    <2>4. loops' = [loops EXCEPT ![l] = o] /\ UNCHANGED panel /\ UNCHANGED run
      BY <1>8, <2>1
    <2>5. Prompt'
      BY <1>1, <1>2, <2>4 DEF Prompt
    <2>6. x = loops[l]
      BY DEF x
    <2>7. UNCHANGED llm /\ UNCHANGED hints /\ UNCHANGED session /\ UNCHANGED known
      BY <1>1
    <2>8. x.todo = <<>>
      BY <1>8
    <2>9. QED BY <1>1, <1>2, <2>3, <2>4, <2>5, <2>6, <2>7, <2>8, LoopMovesOn
  <1>9. CASE /\ x.todo # <<>> /\ loops' = [loops EXCEPT ![l] = Ahead(x)]
             /\ x.kind = "all" /\ session.task[own].status = "passed"
             /\ panel' = PostTask(panel, own, "passed") /\ UNCHANGED run
    <2>1. own \in Keys /\ "passed" \in Statuses
      BY <1>4, <1>9 DEF Statuses
    <2>2. Posted(panel, own, "passed", panel') /\ (panel = NoPanel => panel' = NoPanel)
      BY <1>2, <1>9, <2>1, PostFacts
    <2>3. IsPanel(panel') /\ (panel' # NoPanel => panel # NoPanel /\ panel'.step = panel.step)
      BY <2>2 DEF Posted, IsPanel
    <2>4. ASSUME panel # NoPanel, panel' # NoPanel, NEW t \in Range(Tasks[panel.step])
          PROVE  \/ panel'.shown[t] = session.task[<<panel.step, t>>].status
                 \/ /\ panel'.shown[t] = panel.shown[t]
                    /\ ~(x.step = panel.step /\ t = t0)
      <3>1. panel'.shown[t] = IF <<panel.step, t>> = own THEN "passed" ELSE panel.shown[t]
        BY <2>2, <2>4 DEF Posted
      <3>2. QED BY <1>9, <3>1
    <2>5. Prompt'
      BY <1>1, <1>2, <1>9 DEF Prompt
    <2>6. x = loops[l]
      BY DEF x
    <2>7. UNCHANGED llm /\ UNCHANGED hints /\ UNCHANGED session /\ UNCHANGED known
      BY <1>1
    <2>8. \A j \in Keys : run[j].pc = "checking" => run'[j].pc = "checking"
      BY <1>9
    <2>9. QED BY <1>1, <1>6, <1>7, <1>9, <2>3, <2>4, <2>5, <2>6, <2>7, <2>8, LoopMovesOn
  <1>10. CASE /\ x.todo # <<>> /\ k \in Keys /\ RunTask(k, TRUE, panel, confirmed)
              /\ loops' = [loops EXCEPT ![l] = WithWait(Ahead(x), TRUE, k)]
    <2> DEFINE new == WithWait(Ahead(x), TRUE, k)
    <2>1. new = [kind |-> x.kind, step |-> x.step, todo |-> Tail(x.todo), waits |-> TRUE, on |-> k]
      <3>1. PICK y : y = Ahead(x)
        OBVIOUS
      <3>2. IsLoop(y)
        BY <1>6, <1>10, <3>1
      <3>3. WithWait(y, TRUE, k)
              = [kind |-> y.kind, step |-> y.step, todo |-> y.todo, waits |-> TRUE, on |-> k]
        BY <3>2, LoopWaits
      <3>4. QED BY <1>7, <3>1, <3>3
    <2>2. loops' = [loops EXCEPT ![l] = new]
      BY <1>10
    <2> HIDE DEF new
    <2>3. /\ \A j \in Keys : /\ run[j].pc = "checking" => run'[j].pc = "checking"
                             /\ run'[j].pc # "hinting"
          /\ panel' = panel /\ run'[k].pc = "checking"
      BY <1>10, TaskRuns
    <2>4. new.kind = x.kind /\ new.step = x.step /\ new.todo = Tail(x.todo)
      BY <2>1
    <2>5. IsLoop(new)
      <3>1. IsLoop(Ahead(x))
        BY <1>6, <1>10
      <3>2. PICK y, z : y = new /\ z = Ahead(x)
        OBVIOUS
      <3>3. y = [kind |-> y.kind, step |-> y.step, todo |-> y.todo, waits |-> y.waits, on |-> y.on]
        BY <2>1, <3>2
      <3>4. y.kind = z.kind /\ y.step = z.step /\ y.todo = z.todo
        BY <1>7, <2>4, <3>2
      <3>5. QED BY <3>1, <3>2, <3>3, <3>4 DEF IsLoop
    <2>6. Prompt'
      BY <1>1, <1>2, <2>3 DEF Prompt
    <2>7. x = loops[l]
      BY DEF x
    <2>8. UNCHANGED llm /\ UNCHANGED hints /\ UNCHANGED session /\ UNCHANGED known
      BY <1>1
    <2>9. IsPanel(panel') /\ (panel' # NoPanel => panel # NoPanel /\ panel'.step = panel.step)
      BY <1>2, <2>3
    <2>10. \A t : panel.step = Current /\ t = t0 => run'[<<panel.step, t>>].pc = "checking"
      BY <2>3
    <2>11. QED BY <1>1, <2>2, <2>3, <2>4, <2>5, <2>6, <2>7, <2>8, <2>9, <2>10, LoopMovesOn
  <1>11. CASE /\ x.todo # <<>> /\ loops' = [loops EXCEPT ![l] = Ahead(x)]
              /\ UNCHANGED <<panel, run>> /\ ~(k \in Keys /\ run[k].pc = "idle")
    <2>1. ASSUME NEW t \in Range(Tasks[panel.step]), panel # NoPanel, panel.step = Current, t = t0
          PROVE  run'[<<panel.step, t>>].pc = "checking"
      <3>1. panel.step \in Steps
        BY <1>2, <2>1 DEF IsPanel, IsView
      <3>2. k \in Keys
        BY <2>1, <3>1, KeysOf
      <3>3. run[k].pc # "idle" /\ run[k].pc # "hinting" /\ run[k] \in Runs
        BY <1>2, <1>11, <3>2 DEF Prompt
      <3>4. run[k].pc = "checking"
        BY <3>3 DEF Runs
      <3>5. QED BY <1>11, <2>1, <3>4
    <2>2. Prompt'
      BY <1>1, <1>2, <1>11 DEF Prompt
    <2>3. x = loops[l]
      BY DEF x
    <2>4. UNCHANGED llm /\ UNCHANGED hints /\ UNCHANGED session /\ UNCHANGED known
      BY <1>1
    <2>5. \A j \in Keys : run[j].pc = "checking" => run'[j].pc = "checking"
      BY <1>11
    <2>6. IsPanel(panel') /\ panel' = panel
      BY <1>2, <1>11
    <2>7. QED BY <1>1, <1>6, <1>7, <1>11, <2>1, <2>2, <2>3, <2>4, <2>5, <2>6, LoopMovesOn
  <1>12. QED BY <1>5, <1>8, <1>9, <1>10, <1>11

\* A panel that is rendered anew says what the session does.
LEMMA ViewKeeps ==
    ASSUME ~llm', Prompt', LoopsRight', session' \in Sessions,
           NEW st \in Steps, panel' = View(session', st)
    PROVE  PanelInv'
  <1>1. /\ IsView(panel') /\ panel'.step = st
        /\ \A t \in Range(Tasks[st]) : panel'.shown[t] = session'.task[<<st, t>>].status
    BY ViewFacts
  <1>2. IsPanel(panel')
    BY <1>1 DEF IsPanel
  <1>3. ASSUME NEW t \in Range(Tasks[panel'.step]) PROVE Told(panel, t)'
    BY <1>1, <1>3 DEF Told
  <1>4. PanelTold'
    BY <1>3 DEF PanelTold
  <1>5. QED BY <1>2, <1>4 DEF PanelInv

\* A panel that is closed, or shows a step that is not current, says nothing.
LEMMA AsideKeeps ==
    ASSUME ~llm', Prompt', LoopsRight', IsPanel(panel'),
           panel' = NoPanel \/ Current' = NoStep
    PROVE  PanelInv'
  <1>1. panel' # NoPanel => panel'.step # Current'
    BY NoStepApart DEF IsPanel, IsView
  <1>2. PanelTold'
    BY <1>1 DEF PanelTold
  <1>3. QED BY <1>2 DEF PanelInv

LEMMA RerenderKeeps ==
    ASSUME PanelInv, ~llm', Prompt', LoopsRight', session' \in Sessions, panel' = Rerender(session', known')
    PROVE  PanelInv'
  <1>1. CASE panel = NoPanel \/ Current' = NoStep
    <2>1. panel' = panel
      BY <1>1, NoStepApart DEF Rerender, Current, Good, GoodBut, Sessions
    <2>2. IsPanel(panel')
      BY <2>1 DEF PanelInv
    <2>3. QED BY <1>1, <2>1, <2>2, AsideKeeps
  <1>2. CASE panel # NoPanel /\ Current' # NoStep
    <2>1. session'.step \in Steps /\ panel' = View(session', session'.step)
      BY <1>2 DEF Rerender, Current, Good, GoodBut, Sessions
    <2>2. QED BY <2>1, ViewKeeps
  <1>3. QED BY <1>1, <1>2

LEMMA SameLoops ==
    ASSUME PanelInv, UNCHANGED llm, UNCHANGED loops, UNCHANGED hints, UNCHANGED run
    PROVE  ~llm' /\ Prompt' /\ LoopsRight'
  BY DEF PanelInv, Prompt, LoopsRight, IsLoop

LEMMA SpawnKeeps ==
    ASSUME PanelInv, NEW kinds, Spawn(kinds), kinds \in {<<"local">>, <<"all">>, <<"local", "all">>},
           UNCHANGED llm, UNCHANGED hints, UNCHANGED run
    PROVE  ~llm' /\ Prompt' /\ LoopsRight'
  <1>1. LoopsRight'
    BY SpawnFacts DEF PanelInv
  <1>2. QED BY <1>1 DEF PanelInv, Prompt

LEMMA GoesKeeps ==
    ASSUME Inv, Inv', PanelInv, UNCHANGED llm, UNCHANGED hints, UNCHANGED run,
           NEW st \in Steps, GoesTo(st), Spawn(<<"local">>) \/ Spawn(<<"local", "all">>)
    PROVE  PanelInv'
  <1>1. ~llm' /\ Prompt' /\ LoopsRight'
    BY SpawnKeeps
  <1>2. panel' = View(session', st) /\ session' \in Sessions
    BY DEF GoesTo, Inv, FileInv, Good, GoodBut
  <1>3. QED BY <1>1, <1>2, ViewKeeps

LEMMA ClicksRunAllKeeps ==
    ASSUME Inv, PanelInv, ClicksRunAll
    PROVE  PanelInv'
  <1>1. /\ panel # NoPanel /\ Spawn(<<"all">>) /\ UNCHANGED <<llm, known, session, run, hints>>
        /\ panel' = [panel EXCEPT !.shown = [t \in DOMAIN @ |-> "running"]]
    BY DEF ClicksRunAll
  <1>2. ~llm' /\ Prompt' /\ LoopsRight'
    BY <1>1, SpawnKeeps
  <1>3. \E l \in LoopIds : loops'[l].kind = "all" /\ loops'[l].step = NoStep
    BY <1>1, SpawnFacts DEF PanelInv
  <1>4. \A st, t : Awaits(st, t)'
    BY <1>3 DEF Awaits
  <1>5. IsView(panel') /\ \A t \in Range(Tasks[panel'.step]) : panel'.shown[t] = "running"
    <2> DEFINE f == [t \in DOMAIN panel.shown |-> "running"]
    <2>1. IsView(panel)
      BY <1>1 DEF PanelInv, IsPanel
    <2>2. f \in [Range(Tasks[panel.step]) -> Statuses \cup {"running"}]
      BY <2>1 DEF IsView
    <2>3. \A t \in Range(Tasks[panel.step]) : f[t] = "running"
      BY <2>1 DEF IsView
    <2>4. panel' = [step |-> panel.step, done |-> panel.done, shown |-> f]
      BY <1>1, <2>1 DEF IsView
    <2> HIDE DEF f
    <2>5. QED BY <2>1, <2>2, <2>3, <2>4 DEF IsView
  <1>6. \A t \in Range(Tasks[panel'.step]) : Told(panel, t)'
    BY <1>4, <1>5 DEF Told
  <1>7. QED BY <1>2, <1>5, <1>6 DEF PanelInv, PanelTold, IsPanel

\* Loops that are begun for a document that is saved.
LEMMA SavesKeeps ==
    ASSUME Inv, PanelInv, Saves
    PROVE  PanelInv'
  <1>1. Spawn(<<"local">>) /\ UNCHANGED <<llm, known, session, panel, run, hints>>
    BY DEF Saves
  <1>2. ~llm' /\ Prompt' /\ LoopsRight'
    BY <1>1, SpawnKeeps
  <1>3. \A l \in LoopIds : loops[l].kind = "all" => loops'[l] = loops[l]
    BY <1>1, SpawnFacts DEF PanelInv
  <1>4. ASSUME NEW t PROVE Kept(t)
    <2>1. ASSUME Awaits(panel.step, t) PROVE Awaits(panel.step, t)'
      <3>1. Awaits(panel.step, t)
        BY <2>1
      <3>2. \A l \in LoopIds : loops[l].kind = "all" =>
              /\ loops'[l].kind = "all" /\ loops'[l].step = loops[l].step
              /\ loops'[l].todo = loops[l].todo
        BY <1>3
      <3>3. \A st : Awaits(st, t) => Awaits(st, t)'
        BY <3>2, AwaitsKept
      <3>4. panel'.step = panel.step
        BY <1>1
      <3>5. QED BY <3>1, <3>3, <3>4
    <2>2. UNCHANGED panel /\ UNCHANGED session /\ UNCHANGED run
      BY <1>1
    <2>3. QED BY <2>1, <2>2 DEF Kept
  <1>5. Current' = Current
    BY <1>1 DEF Current
  <1>6. IsPanel(panel') /\ (panel' # NoPanel => panel # NoPanel /\ panel'.step = panel.step)
    BY <1>1 DEF PanelInv
  <1>7. QED BY <1>2, <1>4, <1>5, <1>6, PanelStays

LEMMA DiesKeeps ==
    ASSUME PanelInv, Dies
    PROVE  PanelInv'
  <1>1. /\ panel' = NoPanel /\ run' = [k \in Keys |-> Idle] /\ UNCHANGED llm
        /\ loops' = [l \in LoopIds |-> Off] /\ hints' = {}
    BY DEF Dies
  <1>2. Idle.pc # "hinting"
    BY DEF Idle
  <1>3. PICK o : o = Off
    OBVIOUS
  <1>4. o = [kind |-> "off", step |-> NoStep, todo |-> <<>>, waits |-> FALSE, on |-> <<>>]
    BY <1>3 DEF Off
  <1>5. IsLoop(o)
    BY <1>4 DEF IsLoop
  <1>6. loops' = [l \in LoopIds |-> loops'[l]] /\ \A l \in LoopIds : loops'[l] = o
    BY <1>1, <1>3
  <1>7. LoopsRight'
    BY <1>5, <1>6 DEF LoopsRight, IsLoop
  <1>8. Prompt' /\ ~llm' /\ IsPanel(panel')
    BY <1>1, <1>2 DEF Prompt, PanelInv, IsPanel
  <1>9. QED BY <1>1, <1>7, <1>8, AsideKeeps

LEMMA ActivateKeeps ==
    ASSUME Inv, Inv', PanelInv, Activate
    PROVE  PanelInv'
  <1>1. UNCHANGED llm /\ UNCHANGED hints /\ UNCHANGED run /\ UNCHANGED known /\ session' \in Sessions
    BY DEF Activate, Inv, FileInv, Good, GoodBut
  <1>2. UNCHANGED loops \/ Spawn(<<"local">>)
    BY DEF Activate
  <1>3. ~llm' /\ Prompt' /\ LoopsRight'
    BY <1>1, <1>2, SameLoops, SpawnKeeps
  <1>4. \/ panel' = NoPanel
        \/ \E st \in Steps : panel' = View(session', st)
    <2> DEFINE s == IF disk = NoSession THEN NewSession ELSE disk
               there == s.step # NoStep /\ s.started # {} /\ CourseOf[s.step] \in known
    <2>1. Good(s)
      BY NewSessionGood DEF Inv, FileInv
    <2>2. \/ session' = s /\ panel' \in IF there THEN {NoPanel, View(s, s.step)} ELSE {NoPanel}
          \/ DefaultStart # NoStep /\ (panel' = NoPanel \/ panel' = View(session', DefaultStart))
      BY DEF Activate
    <2>3. s.step \in Steps \cup {NoStep}
      BY <2>1 DEF Good, GoodBut, Sessions
    <2>4. QED BY <2>2, <2>3, StartType
  <1>5. CASE panel' = NoPanel
    <2>1. IsPanel(panel')
      BY <1>5 DEF IsPanel
    <2>2. QED BY <1>3, <1>5, <2>1, AsideKeeps
  <1>6. CASE \E st \in Steps : panel' = View(session', st)
    BY <1>1, <1>3, <1>6, ViewKeeps
  <1>7. QED BY <1>4, <1>5, <1>6

LEMMA NextPanel ==
    ASSUME Inv, Inv', PanelInv, [Next]_vars
    PROVE  PanelInv'
  <1>1. ASSUME NEW k \in Keys, HintArrives(k) PROVE FALSE
    BY <1>1 DEF HintArrives, PanelInv, Prompt
  <1>2. ASSUME NEW k \in Keys, NEW v \in Statuses, Returns(k, v) PROVE PanelInv'
    BY <1>2, ReturnsKeeps
  <1>3. CASE Loop
    BY <1>3, LoopStartsKeeps, LoopStepsKeeps DEF Loop
  <1>4. CASE Student
    <2>1. ASSUME NEW k \in Keys, ClicksCheck(k) \/ Confirms(k) \/ Answers(k) \/ ShowHint(k)
          PROVE  PanelInv'
      BY <2>1, StudentKeeps, ShowHintKeeps
    <2>2. CASE ClicksRunAll
      BY <2>2, ClicksRunAllKeeps
    <2>3. CASE RunChecks
      <3>1. PICK st \in Steps : GoesTo(st)
        BY <2>3, CurrentType, StartType DEF RunChecks
      <3>2. UNCHANGED llm /\ UNCHANGED hints /\ UNCHANGED run /\ Spawn(<<"local", "all">>)
        BY <2>3 DEF RunChecks
      <3>3. QED BY <3>1, <3>2, GoesKeeps
    <2>4. CASE Saves
      BY <2>4, SavesKeeps
    <2>5. CASE SetLang
      <3>1. /\ session' = session /\ panel' = Rerender(session, known)
            /\ UNCHANGED <<llm, known, run, loops, hints>>
        BY <2>5 DEF SetLang, SaveSession
      <3>2. panel' = Rerender(session', known') /\ session' \in Sessions
        BY <3>1 DEF Inv, FileInv, Good, GoodBut
      <3>3. ~llm' /\ Prompt' /\ LoopsRight'
        BY <3>1, SameLoops
      <3>4. QED BY <3>2, <3>3, RerenderKeeps
    <2>6. CASE ClosePanel
      <3>1. panel' = NoPanel /\ UNCHANGED <<llm, run, loops, hints>>
        BY <2>6 DEF ClosePanel
      <3>2. ~llm' /\ Prompt' /\ LoopsRight' /\ IsPanel(panel')
        BY <3>1, SameLoops DEF IsPanel
      <3>3. QED BY <3>1, <3>2, AsideKeeps
    <2>7. CASE ResetProgress
      <3> DEFINE s == IF DefaultStart = NoStep THEN NewSession ELSE SetCurrentStep(NewSession, DefaultStart)
      <3>1. /\ session' = s /\ panel' = Rerender(s, known)
            /\ UNCHANGED <<llm, known, run, loops, hints>>
        BY <2>7 DEF ResetProgress, SaveSession
      <3> HIDE DEF s
      <3>2. panel' = Rerender(session', known') /\ session' \in Sessions
        BY <3>1 DEF Inv, FileInv, Good, GoodBut
      <3>3. ~llm' /\ Prompt' /\ LoopsRight'
        BY <3>1, SameLoops
      <3>4. QED BY <3>2, <3>3, RerenderKeeps
    <2>8. ASSUME NEW st \in Steps, GotoStep(st) PROVE PanelInv'
      <3>1. GoesTo(st) /\ UNCHANGED llm /\ UNCHANGED hints /\ UNCHANGED run /\ Spawn(<<"local">>)
        BY <2>8 DEF GotoStep
      <3>2. QED BY <3>1, GoesKeeps
    <2>9. QED BY <1>4, <2>1, <2>2, <2>3, <2>4, <2>5, <2>6, <2>7, <2>8 DEF Student
  <1>5. ASSUME NEW h \in Keys \X Statuses, HintShown(h) PROVE FALSE
    BY <1>5 DEF HintShown, PanelInv, Prompt
  <1>6. ASSUME NEW c \in SUBSET Courses, ReloadCourses(c) PROVE PanelInv'
    <2>1. known' = c /\ panel' = Rerender(session, c) /\ UNCHANGED <<llm, session, run, loops, hints>>
      BY <1>6 DEF ReloadCourses
    <2>2. panel' = Rerender(session', known') /\ session' \in Sessions
      BY <2>1 DEF Inv, FileInv, Good, GoodBut
    <2>3. ~llm' /\ Prompt' /\ LoopsRight'
      BY <2>1, SameLoops
    <2>4. QED BY <2>2, <2>3, RerenderKeeps
  <1>7. ASSUME Crash \/ \E k \in Keys : DiesEscalating(k) PROVE PanelInv'
    BY <1>7, DiesKeeps DEF Crash, DiesEscalating
  <1>8. CASE Activate
    BY <1>8, ActivateKeeps
  <1>9. CASE UNCHANGED vars
    <2>1. UNCHANGED <<llm, known, session, panel, run, loops, hints>>
      BY <1>9 DEF vars
    <2>2. ~llm' /\ Prompt' /\ LoopsRight'
      BY <2>1, SameLoops
    <2>3. Current' = Current /\ (\A t : Told(panel, t) => Told(panel, t)')
      BY <2>1 DEF Current, Told, Awaits
    <2>4. QED BY <2>1, <2>2, <2>3 DEF PanelInv, PanelTold, IsPanel, IsView
  <1>10. QED BY <1>1, <1>2, <1>3, <1>4, <1>5, <1>6, <1>7, <1>8, <1>9 DEF Next

LEMMA ModelStays ==
    ASSUME [Next]_vars PROVE llm' = llm
  <1>1. ASSUME NEW k \in Keys,
               HintArrives(k) \/ DiesEscalating(k) \/ \E v \in Statuses : Returns(k, v)
        PROVE  llm' = llm
    BY <1>1 DEF HintArrives, DiesEscalating, Dies, Returns
  <1>2. CASE Loop
    BY <1>2 DEF Loop, LoopStarts, LoopSteps
  <1>3. CASE Student
    <2>1. ASSUME NEW k \in Keys, ClicksCheck(k) \/ Confirms(k) \/ Answers(k) \/ ShowHint(k)
          PROVE  llm' = llm
      <3>1. UNCHANGED llm
        BY <2>1, Zenon DEF ClicksCheck, Confirms, Answers, ShowHint
      <3>2. QED BY <3>1
    <2>2. CASE ClicksRunAll \/ RunChecks \/ Saves \/ SetLang \/ ClosePanel \/ ResetProgress
      BY <2>2 DEF ClicksRunAll, RunChecks, Saves, SetLang, ClosePanel, ResetProgress
    <2>3. ASSUME NEW st \in Steps, GotoStep(st) PROVE llm' = llm
      BY <2>3 DEF GotoStep
    <2>4. QED BY <1>3, <2>1, <2>2, <2>3 DEF Student
  <1>4. ASSUME NEW h \in Keys \X Statuses, HintShown(h) PROVE llm' = llm
    BY <1>4 DEF HintShown
  <1>5. ASSUME NEW c \in SUBSET Courses, ReloadCourses(c) PROVE llm' = llm
    BY <1>5 DEF ReloadCourses
  <1>6. CASE Crash \/ Activate \/ UNCHANGED vars
    BY <1>6 DEF Crash, Dies, Activate, vars
  <1>7. QED BY <1>1, <1>2, <1>3, <1>4, <1>5, <1>6 DEF Next

PanelRight == llm \/ PanelInv

LEMMA InitPanel == Init => PanelRight
  <1> SUFFICES ASSUME Init, ~llm PROVE PanelInv
    BY DEF PanelRight
  <1>1. /\ panel = NoPanel /\ run = [k \in Keys |-> Idle] /\ loops = [l \in LoopIds |-> Off]
        /\ hints = {}
    BY DEF Init
  <1>2. Idle.pc # "hinting"
    BY DEF Idle
  <1>3. PICK o : o = Off
    OBVIOUS
  <1>4. o = [kind |-> "off", step |-> NoStep, todo |-> <<>>, waits |-> FALSE, on |-> <<>>]
    BY <1>3 DEF Off
  <1>5. IsLoop(o)
    BY <1>4 DEF IsLoop
  <1>6. loops = [l \in LoopIds |-> loops[l]] /\ \A l \in LoopIds : loops[l] = o
    BY <1>1, <1>3
  <1>7. LoopsRight
    BY <1>5, <1>6 DEF LoopsRight
  <1>8. QED BY <1>1, <1>2, <1>7 DEF PanelInv, Prompt, IsPanel, PanelTold

\* Once nothing is under way and no language model delays a hint, the panel of
\* the current step shows of every task what the session says, or that it was
\* locked, whatever checks, runs of all tasks, clicks, resets, reloads and
\* restarts overlapped before.
THEOREM PanelSettles == Spec => []PanelHonest
  <1>1. Inv /\ Inv' /\ PanelRight /\ [Next]_vars => PanelRight'
    <2>1. SUFFICES ASSUME Inv, Inv', PanelRight, [Next]_vars, ~llm' PROVE PanelInv'
      BY DEF PanelRight
    <2>2. llm' = llm
      BY <2>1, ModelStays
    <2>3. QED BY <2>1, <2>2, NextPanel DEF PanelRight
  <1>2. Inv /\ PanelRight => PanelHonest
    <2>1. SUFFICES ASSUME Inv, PanelRight, Quiet, ~llm, panel # NoPanel, panel.step = Current,
                          NEW t \in DOMAIN panel.shown
                   PROVE  panel.shown[t] \in {"pending", session.task[<<panel.step, t>>].status}
      BY DEF PanelHonest
    <2>2. PanelInv
      BY <2>1 DEF PanelRight
    <2>3. IsView(panel)
      BY <2>1, <2>2 DEF PanelInv, IsPanel
    <2>4. t \in Range(Tasks[panel.step]) /\ panel.step \in Steps
      BY <2>1, <2>3 DEF IsView
    <2>5. <<panel.step, t>> \in Keys
      BY <2>4, KeysOf
    <2>6. run[<<panel.step, t>>].pc = "idle"
      BY <2>1, <2>5 DEF Quiet
    <2>7. ~Awaits(panel.step, t)
      <3>1. Off.kind = "off"
        BY DEF Off
      <3>2. QED BY <2>1, <3>1 DEF Quiet, Awaits
    <2>8. Told(panel, t)
      BY <2>1, <2>2, <2>4 DEF PanelInv, PanelTold
    <2>9. QED BY <2>6, <2>7, <2>8 DEF Told
  <1>3. QED BY InitPanel, AlwaysInv, <1>1, <1>2, PTL DEF Spec

============================================================================
