------------------------ MODULE WorkflowEngineLemmas ------------------------
(***************************************************************************)
(* What the operators of the scheduler, the validator and the insertion of *)
(* requirement todos return, for every plan; and that every action of the  *)
(* engine keeps its invariant.                                             *)
(***************************************************************************)
EXTENDS EngineInvariant, SequenceTheorems, WellFoundedInduction, TLAPS

\* A function on 1..n into S is a sequence of length n.
LEMMA FcnSeq ==
  ASSUME NEW S, NEW n \in Nat, NEW f \in [1..n -> S]
  PROVE  f \in Seq(S) /\ Len(f) = n /\ DOMAIN f = 1..n
  OBVIOUS

\* A non-empty set of natural numbers has a least element.
LEMMA LeastNat ==
  ASSUME NEW T \in SUBSET Nat, T # {}
  PROVE  \E x \in T : \A y \in T : x <= y
<1> DEFINE R == {ss \in Nat \X Nat : ss[1] < ss[2]}
<1>1. IsWellFoundedOn(R, Nat)
  BY NatLessThanWellFounded, Zenon DEF OpToRel
<1>2. \A x, y \in Nat : y < x => <<y, x>> \in R
  OBVIOUS
<1> HIDE DEF R
<1>3. PICK x \in T : \A y \in T : ~(<<y, x>> \in R)
  BY <1>1, WFMin
<1>4. ASSUME NEW y \in T PROVE x <= y
  <2>1. x \in Nat /\ y \in Nat
    OBVIOUS
  <2>2. ~(y < x)
    BY <1>2, <1>3, <2>1, Zenon
  <2> QED BY <2>1, <2>2
<1> QED BY <1>4

\* Changing a step gives a step and leaves its other fields alone.
LEMMA WithStatusStep ==
  ASSUME NEW s \in Step, NEW st \in StepStatus
  PROVE  /\ WithStatus(s, st) \in Step
         /\ WithStatus(s, st).status = st
         /\ WithStatus(s, st).depends_on = s.depends_on
         /\ WithStatus(s, st).required = s.required
  BY DEF WithStatus, Step

LEMMA MarkStep ==
  ASSUME NEW s \in Step, NEW st \in StepStatus, NEW e \in ErrorCode
  PROVE  /\ Mark(s, st, e) \in Step
         /\ Mark(s, st, e).status = st
         /\ Mark(s, st, e).depends_on = s.depends_on
         /\ Mark(s, st, e).required = s.required
  BY DEF Mark, Step

LEMMA BeginStep ==
  ASSUME NEW s \in Step
  PROVE  /\ Begin(s) \in Step
         /\ Begin(s).status = "running"
         /\ Begin(s).depends_on = s.depends_on
         /\ Begin(s).required = s.required
<1>1. s.attempts + 1 \in Nat
  BY DEF Step
<1>2. \A n \in Nat : LET t == [s EXCEPT !.status = "running", !.attempts = n] IN
        /\ t \in Step
        /\ t.status = "running"
        /\ t.depends_on = s.depends_on
        /\ t.required = s.required
  BY DEF Step, StepStatus
<1> QED BY <1>1, <1>2 DEF Begin

LEMMA RememberStep ==
  ASSUME NEW s \in Step, NEW key \in Keys
  PROVE  /\ Remember(s, key) \in Step
         /\ Remember(s, key).status = s.status
         /\ Remember(s, key).depends_on = s.depends_on
         /\ Remember(s, key).required = s.required
  BY DEF Remember, Step

LEMMA AwaitTodosStep ==
  ASSUME NEW s \in Step, NEW ids \in SUBSET Nat
  PROVE  /\ AwaitTodos(s, ids) \in Step
         /\ AwaitTodos(s, ids).status = "waiting_dependency"
         /\ AwaitTodos(s, ids).depends_on = ids
         /\ AwaitTodos(s, ids).required = s.required
  BY DEF AwaitTodos, Step, StepStatus

-----------------------------------------------------------------------------
(* The scheduler *)

\* Blocking and dispatching keep the list of steps and what they depend on.
LEMMA BlockKeeps ==
  ASSUME NEW p, NEW s \in Seq(Step), NEW B
  PROVE  /\ Block(p, s, B) \in Seq(Step)
         /\ DOMAIN Block(p, s, B) = DOMAIN s
         /\ \A i \in DOMAIN s :
              /\ Block(p, s, B)[i].depends_on = s[i].depends_on
              /\ Block(p, s, B)[i].required = s[i].required
              /\ Block(p, s, B)[i].status =
                   IF \E k \in B : p[k] = i THEN "blocked" ELSE s[i].status
<1> DEFINE b == Block(p, s, B)
<1>1. Len(s) \in Nat /\ DOMAIN s = 1..Len(s)
  BY LenProperties
<1>2. ASSUME NEW i \in 1..Len(s)
      PROVE  /\ b[i] \in Step
             /\ b[i].depends_on = s[i].depends_on
             /\ b[i].required = s[i].required
             /\ b[i].status = IF \E k \in B : p[k] = i THEN "blocked" ELSE s[i].status
  <2>1. s[i] \in Step
    BY ElementOfSeq
  <2>2. b[i] = IF \E k \in B : p[k] = i
               THEN Mark(s[i], "blocked", "DEPENDENCY_FAILED")
               ELSE s[i]
    BY <1>1 DEF Block
  <2>3. "blocked" \in StepStatus /\ "DEPENDENCY_FAILED" \in ErrorCode
    BY DEF StepStatus, StepTerminal, StepFailed, ErrorCode
  <2>4. /\ Mark(s[i], "blocked", "DEPENDENCY_FAILED") \in Step
        /\ Mark(s[i], "blocked", "DEPENDENCY_FAILED").status = "blocked"
        /\ Mark(s[i], "blocked", "DEPENDENCY_FAILED").depends_on = s[i].depends_on
        /\ Mark(s[i], "blocked", "DEPENDENCY_FAILED").required = s[i].required
    BY <2>1, <2>3, MarkStep
  <2> HIDE DEF b
  <2> QED BY <2>1, <2>2, <2>4
<1>3. b \in [1..Len(s) -> Step]
  BY <1>1, <1>2 DEF Block
<1> QED BY <1>1, <1>2, <1>3, FcnSeq

\* When nothing can be dispatched, nothing runs and nobody is asked, every step
\* is over: a step that merely waits for prerequisites always has one that can
\* still be dispatched, or one that failed and blocked it.
LEMMA NothingLeft ==
  ASSUME NEW p \in Seq(Nat), NEW s \in Seq(Step), NEW B \in SUBSET DOMAIN p,
         Ordered(p, s), IsBlockedSet(p, s, B),
         \A i \in DOMAIN s : s[i].status = "waiting_dependency" => s[i].depends_on # {},
         NothingToDispatch(Block(p, s, B)),
         ~SomeStatus(Block(p, s, B), "running"),
         ~SomeStatus(Block(p, s, B), "waiting_user")
  PROVE  \A i \in DOMAIN s : Block(p, s, B)[i].status \in StepTerminal
<1> DEFINE b == Block(p, s, B)
           T == {k \in DOMAIN p : b[p[k]].status \notin StepTerminal}
<1>0. /\ b \in Seq(Step) /\ DOMAIN b = DOMAIN s
      /\ \A i \in DOMAIN s : /\ b[i].depends_on = s[i].depends_on
                             /\ b[i].status = IF \E k \in B : p[k] = i THEN "blocked"
                                              ELSE s[i].status
  BY BlockKeeps
<1>1. /\ Len(s) \in Nat /\ DOMAIN s = 1..Len(s)
      /\ DOMAIN p = 1..Len(s) /\ DOMAIN p \subseteq Nat
  BY LenProperties DEF Ordered
<1>2. SUFFICES ASSUME T # {} PROVE FALSE
  BY <1>0, <1>1 DEF Ordered, Permutes
<1>3. PICK k \in T : \A j \in T : k <= j
  BY <1>1, <1>2, LeastNat, T \in SUBSET Nat
<1> DEFINE i == p[k]
<1>4. k \in DOMAIN p /\ i \in DOMAIN s /\ b[i].status \notin StepTerminal
  BY <1>1, <1>3 DEF Ordered, Permutes
<1>5. k \notin B /\ b[i].status = s[i].status
  BY <1>0, <1>4 DEF StepTerminal, StepFailed
<1>6. b[i].status \in Schedulable
  <2>1. b[i].status \in StepStatus
    <3>1. b[i] \in Step
      BY <1>0, <1>4, ElementOfSeq, LenProperties
    <3> QED BY <3>1 DEF Step
  <2>2. b[i].status # "running" /\ b[i].status # "waiting_user"
    BY <1>0, <1>4 DEF SomeStatus
  <2> QED BY <1>4, <2>1, <2>2 DEF StepStatus, Schedulable, StepTerminal
<1>7. ASSUME NEW d \in s[i].depends_on PROVE b[d].status = "succeeded"
  <2>1. PICK j \in 1..(k - 1) : p[j] = d
    BY <1>1, <1>4 DEF Ordered, Precede, Among
  <2>2. j \in DOMAIN p /\ j < k /\ d \in DOMAIN s
    <3>1. j \in DOMAIN p /\ j < k
      BY <1>1, <1>4
    <3> QED BY <1>1, <2>1, <3>1 DEF Ordered, Permutes
  <2>3. b[d].status \in StepTerminal
    <3>1. j \notin T
      BY <1>1, <1>3, <1>4, <2>2
    <3> QED BY <2>1, <2>2, <3>1
  <2>4. CASE b[d].status \in StepFailed
    <3>1. CASE \E m \in B : p[m] = d
      <4>1. j \in B
        BY <1>1, <3>1, <2>1, <2>2 DEF Ordered, Permutes
      <4>2. \E q \in 1..(k - 1) : q \in B /\ p[q] = d
        BY <4>1, <2>1
      <4> QED BY <1>4, <1>5, <1>6, <4>2 DEF IsBlockedSet
    <3>2. CASE ~\E m \in B : p[m] = d
      <4>1. Failed(s, d)
        BY <1>0, <2>2, <2>4, <3>2 DEF Failed
      <4> QED BY <1>4, <1>5, <1>6, <4>1 DEF IsBlockedSet
    <3> QED BY <3>1, <3>2
  <2> QED BY <2>3, <2>4 DEF StepTerminal
<1>8. Dispatchable(b, i)
  <2>1. AllSucceeded(b, b[i].depends_on)
    BY <1>0, <1>4, <1>7 DEF AllSucceeded, Succeeded
  <2>2. b[i].status = "waiting_dependency" => b[i].depends_on # {}
    BY <1>0, <1>4, <1>5
  <2> QED BY <1>6, <2>1, <2>2 DEF Dispatchable, Schedulable
<1> QED BY <1>0, <1>4, <1>8 DEF NothingToDispatch
-----------------------------------------------------------------------------
(* The validator and the insertion of todos *)

\* The m steps of t after the n-th are pending, and depend on earlier ones of
\* them or on ids.
NewSteps(t, n, m, ids) ==
  \A i \in 1..m :
    /\ t[n + i].status = "pending"
    /\ \A x \in t[n + i].depends_on : x \in ids \/ \E j \in 1..(i - 1) : x = n + j

\* t is s with the steps of the draft d added.
Added(s, t, d, ids) ==
  /\ t \in Seq(Step) /\ DOMAIN t = 1..(Len(s) + Len(d)) /\ Len(t) = Len(s) + Len(d)
  /\ \A i \in DOMAIN s : t[i] = s[i]
  /\ NewSteps(t, Len(s), Len(d), ids)

\* The steps made from a valid draft: new pending steps after the old ones, each
\* depending on earlier new steps or on the dependencies it inherits.
LEMMA AddStepsIs ==
  ASSUME NEW s \in Seq(Step), NEW d \in Seq(Todo(STRING)), NEW source,
         Valid(d, source),
         NEW owner \in Nat, NEW key \in Keys \cup {NoKey}, NEW depth \in Nat,
         NEW inherited \in SUBSET Nat
  PROVE  Added(s, AddSteps(s, d, owner, key, depth, inherited), d, inherited)
<1> DEFINE a == AddSteps(s, d, owner, key, depth, inherited)
           n == Len(s)
           m == Len(d)
           M(i) == MakeStep(d, i, n, owner, key, depth, inherited)
<1>1. /\ n \in Nat /\ DOMAIN s = 1..n
      /\ m \in Nat /\ DOMAIN d = 1..m
  BY LenProperties
<1>2. ASSUME NEW i \in 1..m
      PROVE  /\ M(i) \in Step
             /\ M(i).status = "pending"
             /\ \A x \in M(i).depends_on :
                  x \in inherited \/ \E j \in 1..(i - 1) : x = n + j
  <2>1. d[i].worker \in Workers /\ d[i].required \in BOOLEAN
    <3>1. i \in DOMAIN d /\ d[i] \in Todo(STRING)
      BY <1>1, ElementOfSeq
    <3> QED BY <3>1 DEF Valid, Todo
  <2> DEFINE refs == {n + j : j \in {k \in DOMAIN d : d[k].ref \in d[i].depends_on}}
             deps == IF d[i].depends_on = {} THEN inherited ELSE refs
  <2>2. M(i) = [worker |-> d[i].worker, owner |-> owner, key |-> key,
                depends_on |-> deps, required |-> d[i].required,
                status |-> "pending", error |-> "none", attempts |-> 0,
                depth |-> depth, expanded |-> {}]
    BY DEF MakeStep
  <2>3. ASSUME NEW x \in refs PROVE \E j \in 1..(i - 1) : x = n + j
    <3>1. PICK j \in DOMAIN d : d[j].ref \in d[i].depends_on /\ x = n + j
      OBVIOUS
    <3>2. PICK k \in 1..(i - 1) : d[k].ref = d[j].ref
      BY <1>1, <3>1 DEF Valid
    <3>3. k = j
      BY <1>1, <3>1, <3>2 DEF Valid
    <3> QED BY <3>1, <3>2, <3>3
  <2>4. deps \in SUBSET Nat
    BY <1>1
  <2> HIDE DEF deps, M
  <2>5. M(i) \in Step
    BY <2>1, <2>2, <2>4 DEF Step, StepStatus, ErrorCode
  <2>6. M(i).status = "pending" /\ M(i).depends_on = deps
    BY <2>2
  <2> QED BY <2>3, <2>5, <2>6 DEF deps
<1>3. a = [i \in 1..(n + m) |-> IF i <= n THEN s[i] ELSE M(i - n)]
  BY DEF AddSteps
<1> HIDE DEF a, M
<1>4. ASSUME NEW i \in 1..(n + m) PROVE a[i] \in Step
  <2>1. CASE i <= n
    BY <1>1, <1>3, <2>1, ElementOfSeq
  <2>2. CASE ~(i <= n)
    <3>1. i - n \in 1..m
      BY <1>1, <2>2
    <3> QED BY <1>2, <1>3, <2>2, <3>1
  <2> QED BY <2>1, <2>2
<1>5. a \in [1..(n + m) -> Step]
  BY <1>3, <1>4
<1>6. n + m \in Nat
  BY <1>1
<1>7. ASSUME NEW i \in DOMAIN s PROVE a[i] = s[i]
  BY <1>1, <1>3
<1>8. ASSUME NEW i \in 1..m PROVE a[n + i] = M(i)
  <2>1. n + i \in 1..(n + m) /\ ~(n + i <= n) /\ (n + i) - n = i
    BY <1>1
  <2> QED BY <1>3, <2>1
<1>9. a \in Seq(Step) /\ DOMAIN a = 1..(n + m) /\ Len(a) = n + m
  BY <1>5, <1>6, FcnSeq
<1>10. NewSteps(a, n, m, inherited)
  BY <1>2, <1>8 DEF NewSteps
<1> QED BY <1>7, <1>9, <1>10 DEF a, Added

\* A group of new steps has a terminal one: nothing depends on the last.
LEMMA TerminalExists ==
  ASSUME NEW n \in Nat, NEW m \in Nat \ {0}, NEW t,
         \A i \in 1..m : \A x \in t[n + i].depends_on :
            x \in 1..n \/ \E j \in 1..(i - 1) : x = n + j
  PROVE  /\ TerminalSteps(t, (n + 1)..(n + m)) # {}
         /\ TerminalSteps(t, (n + 1)..(n + m)) \subseteq (n + 1)..(n + m)
<1>1. ASSUME NEW k \in (n + 1)..(n + m) PROVE n + m \notin t[k].depends_on
  <2>1. k - n \in 1..m /\ n + (k - n) = k
    OBVIOUS
  <2>2. \A x \in t[n + (k - n)].depends_on :
           x \in 1..n \/ \E j \in 1..((k - n) - 1) : x = n + j
    BY <2>1
  <2>3. \A x \in t[k].depends_on : x < n + m
    BY <2>1, <2>2
  <2> QED BY <2>3
<1>2. n + m \in TerminalSteps(t, (n + 1)..(n + m))
  BY <1>1 DEF TerminalSteps
<1> QED BY <1>2 DEF TerminalSteps

\* Inserting the m numbers after n in front of a place of a list of 1..n: q is
\* the new list, given by where each of its three parts comes from.
LEMMA InsertPlaces ==
  ASSUME NEW n \in Nat, NEW m \in Nat, NEW at \in 1..n, NEW k \in 1..(n + m)
  PROVE  \/ k \in 1..(at - 1)
         \/ \E j \in 1..m : k = at + j - 1
         \/ \E i \in at..n : k = i + m
<1>1. CASE k < at
  BY <1>1
<1>2. CASE at <= k /\ k < at + m
  <2>1. k - at + 1 \in 1..m /\ k = at + (k - at + 1) - 1
    BY <1>2
  <2> QED BY <2>1
<1>3. CASE at + m <= k
  <2>1. k - m \in at..n /\ k = (k - m) + m
    BY <1>3
  <2> QED BY <2>1
<1> QED BY <1>1, <1>2, <1>3

Inserted(p, q, n, m, at) ==
  /\ \A k \in 1..(at - 1) : q[k] = p[k]
  /\ \A j \in 1..m : q[at + j - 1] = n + j
  /\ \A k \in at..n : q[k + m] = p[k]

\* The new list is again a list of every number once.
LEMMA InsertPermutes ==
  ASSUME NEW n \in Nat, NEW m \in Nat, NEW at \in 1..n,
         NEW p, NEW q, Inserted(p, q, n, m, at), Permutes(p, n)
  PROVE  Permutes(q, n + m)
<1>1. ASSUME NEW k \in 1..(at - 1)
      PROVE  k \in 1..n /\ q[k] = p[k] /\ q[k] \in 1..n
  BY DEF Inserted, Permutes
<1>2. ASSUME NEW j \in 1..m
      PROVE  q[at + j - 1] = n + j /\ n + j \in 1..(n + m)
  BY DEF Inserted
<1>3. ASSUME NEW k \in at..n
      PROVE  k \in 1..n /\ q[k + m] = p[k] /\ q[k + m] \in 1..n
  BY DEF Inserted, Permutes
\* The old part, the new part and the moved part of the list.
<1>4. ASSUME NEW k \in 1..(n + m)
      PROVE  \/ \E i \in 1..n : /\ q[k] = p[i] /\ q[k] \in 1..n
                                /\ k = IF i < at THEN i ELSE i + m
             \/ \E j \in 1..m : q[k] = n + j /\ k = at + j - 1
  <2>1. CASE k \in 1..(at - 1)
    <3>1. k \in 1..n /\ q[k] = p[k] /\ q[k] \in 1..n /\ k < at
      BY <1>1, <2>1
    <3> QED BY <3>1
  <2>2. ASSUME NEW j \in 1..m, k = at + j - 1
        PROVE  \E z \in 1..m : q[k] = n + z /\ k = at + z - 1
    BY <1>2, <2>2
  <2>3. ASSUME NEW i \in at..n, k = i + m
        PROVE  \E z \in 1..n : /\ q[k] = p[z] /\ q[k] \in 1..n
                               /\ k = IF z < at THEN z ELSE z + m
    <3>1. i \in 1..n /\ q[k] = p[i] /\ q[k] \in 1..n /\ ~(i < at)
      BY <1>3, <2>3
    <3> QED BY <2>3, <3>1
  <2> QED BY <2>1, <2>2, <2>3, InsertPlaces
<1>5. ASSUME NEW k \in 1..(n + m) PROVE q[k] \in 1..(n + m)
  BY <1>4
<1>6. ASSUME NEW j \in 1..(n + m), NEW k \in 1..(n + m), q[j] = q[k] PROVE j = k
  <2>1. CASE q[j] \in 1..n
    <3>1. PICK x \in 1..n : q[j] = p[x] /\ j = IF x < at THEN x ELSE x + m
      BY <1>4, <2>1
    <3>2. PICK y \in 1..n : q[k] = p[y] /\ k = IF y < at THEN y ELSE y + m
      BY <1>4, <1>6, <2>1
    <3>3. x = y
      BY <1>6, <3>1, <3>2 DEF Permutes
    <3> QED BY <3>1, <3>2, <3>3
  <2>2. CASE q[j] \notin 1..n
    <3>1. PICK x \in 1..m : q[j] = n + x /\ j = at + x - 1
      BY <1>4, <2>2
    <3>2. PICK y \in 1..m : q[k] = n + y /\ k = at + y - 1
      BY <1>4, <1>6, <2>2
    <3>3. n + x = n + y
      BY <1>6, <3>1, <3>2, Zenon
    <3> QED BY <3>1, <3>2, <3>3
  <2> QED BY <2>1, <2>2
<1>7. ASSUME NEW i \in 1..(n + m) PROVE \E k \in 1..(n + m) : q[k] = i
  <2>1. CASE i <= n
    <3>1. PICK k \in 1..n : p[k] = i
      BY <2>1 DEF Permutes
    <3>2. CASE k < at
      <4>1. k \in 1..(at - 1) /\ k \in 1..(n + m)
        BY <3>2
      <4> QED BY <1>1, <3>1, <4>1
    <3>3. CASE ~(k < at)
      <4>1. k \in at..n /\ k + m \in 1..(n + m)
        BY <3>3
      <4> QED BY <1>3, <3>1, <4>1
    <3> QED BY <3>2, <3>3
  <2>2. CASE ~(i <= n)
    <3>1. i - n \in 1..m /\ n + (i - n) = i /\ at + (i - n) - 1 \in 1..(n + m)
      BY <2>2
    <3> QED BY <1>2, <3>1
  <2> QED BY <2>1, <2>2
<1> QED BY <1>5, <1>6, <1>7 DEF Permutes

\* What came before a place of the old list comes before its place in the new.
LEMMA InsertKeepsFront ==
  ASSUME NEW n \in Nat, NEW m \in Nat, NEW at \in 1..n, NEW p, NEW q,
         Inserted(p, q, n, m, at),
         NEW k \in 1..at, NEW j \in 1..(k - 1)
  PROVE  q[j] = p[j]
  BY DEF Inserted

LEMMA InsertKeepsOrder ==
  ASSUME NEW n \in Nat, NEW m \in Nat, NEW at \in 1..n, NEW p, NEW q,
         Inserted(p, q, n, m, at),
         NEW k \in 1..n, NEW j \in 1..(k - 1)
  PROVE  Among(q, k + m - 1, p[j])
<1>1. CASE j < at
  <2>1. j \in 1..(at - 1) /\ j \in 1..(k + m - 1)
    BY <1>1
  <2>2. q[j] = p[j]
    BY <2>1 DEF Inserted
  <2> QED BY <2>1, <2>2 DEF Among
<1>2. CASE ~(j < at)
  <2>1. j \in at..n /\ j + m \in 1..(k + m - 1)
    BY <1>2
  <2>2. q[j + m] = p[j]
    BY <2>1 DEF Inserted
  <2> QED BY <2>1, <2>2 DEF Among
<1> QED BY <1>1, <1>2

\* New elements that depend on each other in order, or on what comes before the
\* place where they are inserted.
NewPrecede(p, n, m, at, t) ==
  \A i \in 1..m : \A x \in t[n + i].depends_on :
     \/ Among(p, at - 1, x)
     \/ \E j \in 1..(i - 1) : x = n + j

LEMMA InsertPrecedes ==
  ASSUME NEW n \in Nat, NEW m \in Nat, NEW at \in 1..n,
         NEW p, NEW q, NEW t, Inserted(p, q, n, m, at),
         Precede(p, n, t), NewPrecede(p, n, m, at, t)
  PROVE  Precede(q, n + m, t)
<1>1. ASSUME NEW k \in 1..(n + m), NEW x \in t[q[k]].depends_on
      PROVE  Among(q, k - 1, x)
  <2>1. CASE k \in 1..(at - 1)
    <3>1. k \in 1..n /\ k \in 1..at
      BY <2>1
    <3>2. q[k] = p[k]
      BY <2>1 DEF Inserted
    <3>3. PICK j \in 1..(k - 1) : p[j] = x
      BY <3>1, <3>2 DEF Precede, Among
    <3>4. q[j] = p[j]
      BY <3>1, <3>3, InsertKeepsFront
    <3> QED BY <3>3, <3>4 DEF Among
  <2>2. ASSUME NEW i \in 1..m, k = at + i - 1
        PROVE  Among(q, k - 1, x)
    <3>1. q[k] = n + i
      BY <2>2 DEF Inserted
    <3>2. \/ Among(p, at - 1, x)
          \/ \E j \in 1..(i - 1) : x = n + j
      BY <3>1 DEF NewPrecede
    <3>3. ASSUME NEW j \in 1..(at - 1), p[j] = x PROVE Among(q, k - 1, x)
      <4>1. j \in 1..(k - 1)
        BY <2>2
      <4>2. q[j] = p[j]
        BY DEF Inserted
      <4> QED BY <3>3, <4>1, <4>2 DEF Among
    <3>4. ASSUME NEW j \in 1..(i - 1), x = n + j PROVE Among(q, k - 1, x)
      <4>1. j \in 1..m /\ at + j - 1 \in 1..(k - 1)
        BY <2>2
      <4>2. q[at + j - 1] = n + j
        BY <4>1 DEF Inserted
      <4> QED BY <3>4, <4>1, <4>2 DEF Among
    <3> QED BY <3>2, <3>3, <3>4 DEF Among
  <2>3. ASSUME NEW i \in at..n, k = i + m
        PROVE  Among(q, k - 1, x)
    <3>1. i \in 1..n
      OBVIOUS
    <3>2. q[k] = p[i]
      BY <2>3 DEF Inserted
    <3>3. PICK j \in 1..(i - 1) : p[j] = x
      BY <3>1, <3>2 DEF Precede, Among
    <3>4. Among(q, i + m - 1, p[j])
      BY <3>1, <3>3, InsertKeepsOrder
    <3> QED BY <2>3, <3>3, <3>4
  <2> QED BY <2>1, <2>2, <2>3, InsertPlaces
<1> QED BY <1>1 DEF Precede

\* Splice on the two lengths it puts together: the entries before the place, the
\* new ones, and the rest moved along.
LEMMA SpliceIs ==
  ASSUME NEW s, NEW at, NEW new, NEW n \in Nat, NEW m \in Nat,
         Len(s) = n, Len(new) = m
  PROVE  Splice(s, at, new)
           = [k \in 1..(n + m) |-> IF k < at THEN s[k]
                                   ELSE IF k < at + m THEN new[k - at + 1]
                                   ELSE s[k - m]]
BY Zenon DEF Splice

\* Inserting new steps in front of a step keeps the list ordered when the new
\* ones depend on each other in order and otherwise on steps before that place.
LEMMA SpliceOrdered ==
  ASSUME NEW p \in Seq(Nat), NEW s \in Seq(Step), Ordered(p, s),
         NEW at \in 1..Len(s), NEW m \in Nat,
         NEW t \in Seq(Step), Len(t) = Len(s) + m,
         \A i \in 1..Len(s) : t[i].depends_on = s[i].depends_on,
         NewPrecede(p, Len(s), m, at, t),
         NEW q, q = Splice(p, at, [j \in 1..m |-> Len(s) + j])
  PROVE  /\ q \in Seq(Nat)
         /\ Ordered(q, t)
         /\ Inserted(p, q, Len(s), m, at)
<1> DEFINE n   == Len(s)
           new == [j \in 1..m |-> n + j]
<1>1. n \in Nat /\ Len(p) = n /\ Permutes(p, n) /\ Precede(p, n, s)
  BY LenProperties DEF Ordered
<1>2. Len(new) = m
  BY <1>1, FcnSeq
<1>3. q = [k \in 1..(n + m) |-> IF k < at THEN p[k]
                                ELSE IF k < at + m THEN new[k - at + 1]
                                ELSE p[k - m]]
  <2>1. Splice(p, at, new)
          = [k \in 1..(n + m) |-> IF k < at THEN p[k]
                                  ELSE IF k < at + m THEN new[k - at + 1]
                                  ELSE p[k - m]]
    <3> HIDE DEF n, new
    <3> QED BY <1>1, <1>2, SpliceIs
  <2> QED BY <2>1, Zenon
<1>4. Inserted(p, q, n, m, at)
  <2>1. ASSUME NEW k \in 1..(at - 1) PROVE q[k] = p[k]
    <3>1. k \in 1..(n + m) /\ k < at
      BY <1>1
    <3> QED BY <1>3, <3>1
  <2>2. ASSUME NEW j \in 1..m PROVE q[at + j - 1] = n + j
    <3>1. /\ at + j - 1 \in 1..(n + m) /\ ~(at + j - 1 < at) /\ at + j - 1 < at + m
          /\ (at + j - 1) - at + 1 = j
      BY <1>1
    <3> QED BY <1>3, <3>1
  <2>3. ASSUME NEW k \in at..n PROVE q[k + m] = p[k]
    <3>1. /\ k + m \in 1..(n + m) /\ ~(k + m < at) /\ ~(k + m < at + m)
          /\ (k + m) - m = k
      BY <1>1
    <3> QED BY <1>3, <3>1
  <2> QED BY <2>1, <2>2, <2>3 DEF Inserted
<1>5. Precede(p, n, t)
  BY <1>1 DEF Precede, Permutes
<1>6. DOMAIN q = 1..(n + m) /\ q = [k \in 1..(n + m) |-> q[k]]
  BY <1>3
<1> HIDE DEF n, new
<1>7. Permutes(q, n + m)
  BY <1>1, <1>4, InsertPermutes DEF n
<1>8. Precede(q, n + m, t)
  BY <1>1, <1>4, <1>5, InsertPrecedes DEF n
<1>9. n + m \in Nat
  BY <1>1
<1>10. q \in [1..(n + m) -> Nat]
  <2>1. \A k \in 1..(n + m) : q[k] \in Nat
    BY <1>7, <1>9 DEF Permutes
  <2> QED BY <1>6, <2>1
<1>11. q \in Seq(Nat) /\ Len(q) = n + m
  BY <1>9, <1>10, FcnSeq
<1>12. Ordered(q, t)
  BY <1>7, <1>8, <1>11 DEF n, Ordered
<1> QED BY <1>4, <1>11, <1>12 DEF n

-----------------------------------------------------------------------------
(* What every table of steps satisfies, and the changes that keep it *)

SameDeps(s, t) ==
  /\ DOMAIN t = DOMAIN s /\ Len(t) = Len(s)
  /\ \A i \in DOMAIN s : t[i].depends_on = s[i].depends_on

\* Finished steps stay finished, and the others only move on where they may.
MovesOn(s, t) ==
  \A i \in DOMAIN s :
    /\ Succeeded(s, i) => Succeeded(t, i)
    /\ Failed(s, i) => Failed(t, i)
    /\ t[i].status \in {"running", "waiting_user", "succeeded"} =>
         \/ s[i].status \in {"running", "waiting_user", "succeeded"}
         \/ AllSucceeded(s, s[i].depends_on)
    /\ t[i].status = "blocked" =>
         s[i].status = "blocked" \/ \E d \in s[i].depends_on : Failed(t, d)
    /\ t[i].status = "waiting_dependency" => s[i].status = "waiting_dependency"

\* The dependencies of the steps of an ordered list are steps of the list.
LEMMA DepsKnown ==
  ASSUME NEW p, NEW s \in Seq(Step), Ordered(p, s), NEW i \in DOMAIN s
  PROVE  s[i].depends_on \subseteq DOMAIN s
<1>1. Len(s) \in Nat /\ DOMAIN s = 1..Len(s)
  BY LenProperties
<1>2. PICK k \in 1..Len(s) : p[k] = i
  BY <1>1 DEF Ordered, Permutes
<1>3. ASSUME NEW d \in s[i].depends_on PROVE d \in DOMAIN s
  <2>1. PICK j \in 1..(k - 1) : p[j] = d
    BY <1>1, <1>2, <1>3 DEF Ordered, Precede, Among
  <2>2. j \in 1..Len(s)
    BY <1>1
  <2> QED BY <1>1, <2>1, <2>2 DEF Ordered, Permutes
<1> QED BY <1>3

LEMMA OrderedKept ==
  ASSUME NEW p, NEW s \in Seq(Step), NEW t, Ordered(p, s), SameDeps(s, t)
  PROVE  Ordered(p, t)
<1>1. DOMAIN s = 1..Len(s)
  BY LenProperties
<1> QED BY <1>1 DEF Ordered, SameDeps, Precede, Permutes

LEMMA SoundKept ==
  ASSUME NEW p, NEW s \in Seq(Step), NEW t, Ordered(p, s), SameDeps(s, t),
         Sound(s), MovesOn(s, t)
  PROVE  Sound(t)
<1> SUFFICES ASSUME NEW i \in DOMAIN s
             PROVE  /\ t[i].status \in {"running", "waiting_user", "succeeded"} =>
                         AllSucceeded(t, t[i].depends_on)
                    /\ t[i].status = "blocked" => \E d \in t[i].depends_on : Failed(t, d)
                    /\ t[i].status = "waiting_dependency" => t[i].depends_on # {}
  BY DEF Sound, SameDeps
<1>1. t[i].depends_on = s[i].depends_on /\ s[i].depends_on \subseteq DOMAIN s
  BY DepsKnown DEF SameDeps
<1>2. AllSucceeded(s, s[i].depends_on) => AllSucceeded(t, t[i].depends_on)
  BY <1>1 DEF AllSucceeded, MovesOn
<1>3. ASSUME NEW d \in s[i].depends_on, Failed(s, d) PROVE Failed(t, d)
  BY <1>1, <1>3 DEF MovesOn
<1> QED BY <1>1, <1>2, <1>3 DEF Sound, MovesOn

\* Replacing one step by another with the same dependencies.
LEMMA UpdateStep ==
  ASSUME NEW s \in Seq(Step), NEW i \in DOMAIN s, NEW x \in Step,
         x.depends_on = s[i].depends_on, NEW t, t = [s EXCEPT ![i] = x]
  PROVE  /\ t \in Seq(Step) /\ SameDeps(s, t) /\ t[i] = x
         /\ \A j \in DOMAIN s : j # i => t[j] = s[j]
<1>1. Len(s) \in Nat /\ DOMAIN s = 1..Len(s) /\ s \in [1..Len(s) -> Step]
  BY LenProperties
<1>2. t \in [1..Len(s) -> Step]
  BY <1>1
<1>3. t \in Seq(Step) /\ Len(t) = Len(s) /\ DOMAIN t = DOMAIN s
  BY <1>1, <1>2, FcnSeq
<1> QED BY <1>1, <1>3 DEF SameDeps

\* Blocking what the scheduler blocks.
LEMMA BlockMovesOn ==
  ASSUME NEW p \in Seq(Nat), NEW s \in Seq(Step), NEW B \in SUBSET DOMAIN p,
         Ordered(p, s), IsBlockedSet(p, s, B)
  PROVE  SameDeps(s, Block(p, s, B)) /\ MovesOn(s, Block(p, s, B))
<1> DEFINE b == Block(p, s, B)
<1>0. /\ b \in Seq(Step) /\ DOMAIN b = DOMAIN s
      /\ \A i \in DOMAIN s : /\ b[i].depends_on = s[i].depends_on
                             /\ b[i].status = IF \E k \in B : p[k] = i THEN "blocked"
                                              ELSE s[i].status
  BY BlockKeeps
<1>1. /\ Len(s) \in Nat /\ DOMAIN s = 1..Len(s) /\ DOMAIN b = 1..Len(b) /\ Len(b) \in Nat
      /\ DOMAIN p = 1..Len(s)
  BY <1>0, LenProperties DEF Ordered
<1>2. Len(b) = Len(s)
  <2>1. b \in [1..Len(s) -> Step]
    BY <1>0, <1>1, LenProperties
  <2> QED BY <1>1, <2>1, FcnSeq
<1> HIDE DEF b
<1>3. ASSUME NEW k \in B PROVE p[k] \in DOMAIN s /\ s[p[k]].status \in Schedulable
  BY <1>1 DEF IsBlockedSet, Ordered, Permutes
<1>4. ASSUME NEW i \in DOMAIN s, b[i].status # s[i].status
      PROVE  \E k \in B : p[k] = i /\ s[i].status \in Schedulable /\ b[i].status = "blocked"
  BY <1>0, <1>3, <1>4
<1>5. ASSUME NEW d \in DOMAIN s, Failed(s, d) PROVE Failed(b, d)
  BY <1>0, <1>4, <1>5 DEF Failed, StepFailed
<1>6. ASSUME NEW i \in DOMAIN s, b[i].status = "blocked", s[i].status # "blocked"
      PROVE  \E d \in s[i].depends_on : Failed(b, d)
  <2>1. PICK k \in B : p[k] = i
    BY <1>4, <1>6
  <2>2. s[i].depends_on \subseteq DOMAIN s
    BY DepsKnown
  <2>3. PICK d \in s[i].depends_on :
              Failed(s, d) \/ \E j \in 1..(k - 1) : j \in B /\ p[j] = d
    BY <2>1 DEF IsBlockedSet
  <2>4. Failed(b, d)
    BY <1>0, <1>5, <2>2, <2>3 DEF Failed, StepFailed
  <2> QED BY <2>4
<1>7. ASSUME NEW i \in DOMAIN s
      PROVE  /\ Succeeded(s, i) => Succeeded(b, i)
             /\ Failed(s, i) => Failed(b, i)
             /\ b[i].status \in {"running", "waiting_user", "succeeded"} =>
                  s[i].status \in {"running", "waiting_user", "succeeded"}
             /\ b[i].status = "waiting_dependency" => s[i].status = "waiting_dependency"
  BY <1>4, <1>5 DEF Succeeded, Schedulable
<1>8. MovesOn(s, b)
  BY <1>6, <1>7 DEF MovesOn
<1> QED BY <1>0, <1>2, <1>8 DEF SameDeps, b

-----------------------------------------------------------------------------
(* The run in memory while requirement todos are inserted *)

LEMMA GrownSound ==
  ASSUME NEW p, NEW s \in Seq(Step), NEW w \in Seq(Step),
         Ordered(p, s), Sound(s), Grown(s, w)
  PROVE  Sound(w)
<1>1. /\ Len(s) \in Nat /\ DOMAIN s = 1..Len(s) /\ Len(w) \in Nat /\ DOMAIN w = 1..Len(w)
      /\ DOMAIN s \subseteq DOMAIN w
  <2>1. /\ Len(s) \in Nat /\ DOMAIN s = 1..Len(s) /\ Len(w) \in Nat /\ DOMAIN w = 1..Len(w)
    BY LenProperties
  <2> QED BY <2>1 DEF Grown
<1>2. ASSUME NEW i \in DOMAIN w
      PROVE  /\ w[i].status \in {"running", "waiting_user", "succeeded"} =>
                  AllSucceeded(w, w[i].depends_on)
             /\ w[i].status = "blocked" => \E d \in w[i].depends_on : Failed(w, d)
             /\ w[i].status = "waiting_dependency" => w[i].depends_on # {}
  <2>1. CASE i \in DOMAIN s
    <3>1. s[i].depends_on \subseteq DOMAIN s
      BY <2>1, DepsKnown
    <3>2. \A d \in s[i].depends_on : w[d].status = s[d].status
      BY <3>1 DEF Grown
    <3>3. w[i].status = s[i].status /\ w[i].depends_on = s[i].depends_on
      BY <2>1 DEF Grown
    <3> QED BY <2>1, <3>2, <3>3 DEF Sound, AllSucceeded, Succeeded, Failed
  <2>2. CASE i \notin DOMAIN s
    BY <2>2 DEF Grown
  <2> QED BY <2>1, <2>2
<1> QED BY <1>2 DEF Sound

\* Making a step wait for steps that come before it.
Awaitable(p, at, ids) == ids \in SUBSET Nat /\ ids # {} /\ AllAmong(p, at - 1, ids)

Waits(p, s, b, t) ==
  /\ t \in Seq(Step) /\ DOMAIN t = DOMAIN s /\ Ordered(p, t) /\ Sound(t)
  /\ t[b].status = "waiting_dependency" /\ t[b].required = s[b].required
  /\ \A i \in DOMAIN s : i # b => t[i] = s[i]

LEMMA AwaitOrdered ==
  ASSUME NEW p, NEW s \in Seq(Step), Ordered(p, s), Sound(s),
         NEW at \in 1..Len(s), NEW ids, Awaitable(p, at, ids),
         NEW b, b = p[at], s[b].status = "running",
         NEW x, x = AwaitTodos(s[b], ids),
         NEW t, t = [s EXCEPT ![b] = x]
  PROVE  Waits(p, s, b, t)
<1>1. /\ Len(s) \in Nat /\ DOMAIN s = 1..Len(s) /\ s \in [1..Len(s) -> Step]
      /\ b \in DOMAIN s
  BY LenProperties DEF Ordered, Permutes
<1>1a. ids \in SUBSET Nat /\ ids # {} /\ AllAmong(p, at - 1, ids)
  BY DEF Awaitable
<1>2. x \in Step /\ x.status = "waiting_dependency" /\ x.depends_on = ids
      /\ x.required = s[b].required
  BY <1>1, <1>1a, AwaitTodosStep
<1>3. /\ t \in [1..Len(s) -> Step] /\ t[b] = x
      /\ \A i \in DOMAIN s : i # b => t[i] = s[i]
  BY <1>1, <1>2
<1>4. t \in Seq(Step) /\ Len(t) = Len(s) /\ DOMAIN t = DOMAIN s
  BY <1>1, <1>3, FcnSeq
<1>5. Precede(p, Len(s), t)
  <2> SUFFICES ASSUME NEW k \in 1..Len(s), NEW d \in t[p[k]].depends_on
               PROVE  Among(p, k - 1, d)
    BY DEF Precede
  <2>1. CASE k = at
    BY <1>1a, <1>2, <1>3, <2>1 DEF AllAmong
  <2>2. CASE k # at
    <3>1. p[k] \in DOMAIN s /\ p[k] # b
      BY <1>1, <2>2 DEF Ordered, Permutes
    <3>2. t[p[k]] = s[p[k]]
      BY <1>3, <3>1
    <3> QED BY <3>2 DEF Ordered, Precede
  <2> QED BY <2>1, <2>2
<1>6. Ordered(p, t)
  BY <1>4, <1>5 DEF Ordered
<1>7. Sound(t)
  <2> SUFFICES ASSUME NEW i \in DOMAIN s
               PROVE  /\ t[i].status \in {"running", "waiting_user", "succeeded"} =>
                           AllSucceeded(t, t[i].depends_on)
                      /\ t[i].status = "blocked" => \E d \in t[i].depends_on : Failed(t, d)
                      /\ t[i].status = "waiting_dependency" => t[i].depends_on # {}
    BY <1>4 DEF Sound
  <2>1. CASE i = b
    BY <1>1a, <1>2, <1>3, <2>1
  <2>2. CASE i # b
    <3>1. t[i] = s[i] /\ s[i].depends_on \subseteq DOMAIN s
      BY <1>3, <2>2, DepsKnown
    <3>2. \A d \in s[i].depends_on : Succeeded(s, d) \/ Failed(s, d) => t[d] = s[d]
      BY <1>3, <3>1 DEF Succeeded, Failed, StepFailed
    <3> QED BY <3>1, <3>2 DEF Sound, AllSucceeded, Succeeded, Failed
  <2> QED BY <2>1, <2>2
<1> QED BY <1>2, <1>3, <1>4, <1>6, <1>7 DEF Waits

-----------------------------------------------------------------------------
(* The actions: each keeps the invariant *)

USE DEF run

LEMMA InitInv == Init => IInv
<1> SUFFICES ASSUME Init PROVE IInv
  OBVIOUS
<1>1. step = <<>> /\ plan = <<>> /\ Len(step) = 0 /\ Len(plan) = 0 /\ DOMAIN step = {}
  BY DEF Init
<1>2. step \in Seq(Step) /\ plan \in Seq(Nat)
  BY <1>1
<1>3. TypeOK
  BY <1>2 DEF Init, TypeOK, RunStatus, WaitingContext, NoWait, Active, NoWork
<1>4. DepsPrecede
  BY <1>1 DEF DepsPrecede, Ordered, Permutes, Precede
<1>5. Sound(step)
  BY <1>1 DEF Sound
<1>6. Fresh /\ RunOpen /\ OneRuns /\ Expanding
  BY <1>1 DEF Init, Fresh, RunOpen, OneRuns, Expanding, RunTerminal
<1>7. WaitingIsTrue /\ NeverStranded /\ GuardNeverRefuses /\ VerdictTrue
  BY <1>1 DEF Init, WaitingIsTrue, NeverStranded, GuardNeverRefuses, VerdictTrue
<1> QED BY <1>3, <1>4, <1>5, <1>6, <1>7 DEF IInv

\* What the schema of a step says of its status.
LEMMA StatusOf ==
  ASSUME NEW s \in Seq(Step), NEW i \in DOMAIN s
  PROVE  s[i] \in Step /\ s[i].status \in StepStatus /\ s[i].depends_on \in SUBSET Nat
<1>1. s[i] \in Step
  BY ElementOfSeq, LenProperties
<1> QED BY <1>1 DEF Step

\* An action that leaves the saved run alone keeps what is said of it.
LEMMA RunKept ==
  ASSUME IInv, UNCHANGED run
  PROVE  /\ status' \in RunStatus /\ waiting' \in WaitingContext
         /\ plan' \in Seq(Nat) /\ step' \in Seq(Step)
         /\ DepsPrecede' /\ Sound(step)' /\ WaitingIsTrue' /\ VerdictTrue'
         /\ (status = "planning" => step = <<>>)'
         /\ (status = "waiting_user" => SomeStatus(step, "waiting_user"))'
<1>1. status' = status /\ waiting' = waiting /\ plan' = plan /\ step' = step
  OBVIOUS
<1>2. DepsPrecede'
  <2>1. Ordered(plan', step')
    BY <1>1 DEF IInv, DepsPrecede
  <2> QED BY <2>1 DEF DepsPrecede, Ordered, Permutes, Precede, Among
<1>3. Sound(step)'
  <2>1. Sound(step')
    BY <1>1 DEF IInv
  <2> QED BY <2>1 DEF Sound, AllSucceeded, Succeeded, Failed
<1>4. WaitingIsTrue' /\ VerdictTrue'
  BY <1>1 DEF IInv, WaitingIsTrue, VerdictTrue, Succeeded
<1> QED BY <1>1, <1>2, <1>3, <1>4 DEF IInv, TypeOK, Fresh, RunOpen, SomeStatus

\* An action that changes steps without reopening them or touching what they
\* depend on keeps the order and soundness of the steps.
LEMMA StepsKept ==
  ASSUME IInv, UNCHANGED plan, SameDeps(step, step'), MovesOn(step, step'), step' \in Seq(Step)
  PROVE  plan' \in Seq(Nat) /\ DepsPrecede' /\ Sound(step)'
<1>1. step \in Seq(Step) /\ Ordered(plan, step) /\ Sound(step) /\ plan \in Seq(Nat)
  BY DEF IInv, TypeOK, DepsPrecede
<1>2. Ordered(plan, step') /\ Sound(step')
  BY <1>1, OrderedKept, SoundKept
<1>3. DepsPrecede'
  BY <1>2 DEF DepsPrecede, Ordered, Permutes, Precede, Among
<1>4. Sound(step)'
  BY <1>2 DEF Sound, AllSucceeded, Succeeded, Failed
<1> QED BY <1>1, <1>3, <1>4

-----------------------------------------------------------------------------
(* Actions that leave the saved run alone *)

LEMMA PlanNodeInv == IInv /\ PlanNode => IInv'
<1> SUFFICES ASSUME IInv, PlanNode PROVE IInv'
  OBVIOUS
<1>1. node = "plan" /\ node' = "validate" /\ UNCHANGED <<run, next, work>> /\ draft' \in Drafts
  BY DEF PlanNode
<1>2. TypeOK'
  BY <1>1, RunKept DEF IInv, TypeOK, Active
<1>3. Fresh' /\ RunOpen' /\ OneRuns' /\ Expanding'
  BY <1>1, RunKept DEF IInv, Fresh, RunOpen, OneRuns, Expanding, Active, RunTerminal, SomeStatus
<1>4. NeverStranded' /\ GuardNeverRefuses'
  BY <1>1 DEF NeverStranded, GuardNeverRefuses
<1> QED BY <1>1, <1>2, <1>3, <1>4, RunKept DEF IInv

LEMMA NodeRaisesInv == IInv /\ NodeRaises => IInv'
<1> SUFFICES ASSUME IInv, NodeRaises PROVE IInv'
  OBVIOUS
<1>1. /\ node \in Active \ {"failing"} /\ node' = "failing" /\ work' = NoWork
      /\ UNCHANGED <<run, next, draft>>
  BY DEF NodeRaises
<1>2. TypeOK'
  BY <1>1, RunKept DEF IInv, TypeOK, Active, NoWork
<1>3. Fresh' /\ RunOpen' /\ Expanding'
  BY <1>1, RunKept DEF IInv, Fresh, RunOpen, Expanding, Active, SomeStatus
<1>4. OneRuns'
  BY <1>1 DEF IInv, OneRuns
<1>5. NeverStranded' /\ GuardNeverRefuses'
  BY <1>1 DEF NeverStranded, GuardNeverRefuses
<1> QED BY <1>1, <1>2, <1>3, <1>4, <1>5, RunKept DEF IInv

LEMMA DisconnectInv == IInv /\ Disconnect => IInv'
<1> SUFFICES ASSUME IInv, Disconnect PROVE IInv'
  OBVIOUS
<1>1. /\ node \in Active /\ node' = "lost" /\ work' = NoWork
      /\ UNCHANGED <<run, next, draft>>
  BY DEF Disconnect
<1>2. TypeOK'
  BY <1>1, RunKept DEF IInv, TypeOK, Active, NoWork
<1>3. Fresh' /\ RunOpen' /\ Expanding'
  BY <1>1, RunKept DEF IInv, Fresh, RunOpen, Expanding, Active, SomeStatus
<1>4. OneRuns'
  BY <1>1 DEF IInv, OneRuns
<1>5. NeverStranded' /\ GuardNeverRefuses'
  BY <1>1 DEF NeverStranded, GuardNeverRefuses
<1> QED BY <1>1, <1>2, <1>3, <1>4, <1>5, RunKept DEF IInv

LEMMA WorkerRequiresInv == IInv /\ WorkerRequires => IInv'
<1> SUFFICES ASSUME IInv, WorkerRequires PROVE IInv'
  OBVIOUS
<1>1. /\ node = "worker" /\ node' = "expand" /\ UNCHANGED <<run, next, draft>>
  BY DEF WorkerRequires
<1>2. PICK reqs \in ReqLists, at \in DOMAIN plan :
        /\ plan[at] = next
        /\ work' = [plan |-> plan, step |-> step, at |-> at,
                    inherited |-> step[next].depends_on, reqs |-> reqs]
  BY DEF WorkerRequires
<1>3. /\ step \in Seq(Step) /\ plan \in Seq(Nat) /\ next \in DOMAIN step
      /\ Len(step) \in Nat /\ DOMAIN step = 1..Len(step)
      /\ Ordered(plan, step) /\ DOMAIN plan = 1..Len(step)
  BY <1>1, LenProperties DEF IInv, TypeOK, OneRuns, DepsPrecede, Ordered
<1>4. reqs \in Seq(Keys) /\ reqs # <<>>
  <2>1. PICK n \in 1..MaxReqs : reqs \in [1..n -> Keys]
    BY DEF ReqLists
  <2>2. n \in Nat /\ n # 0
    BY <2>1, DraftsAssumption
  <2> QED BY <2>1, <2>2, FcnSeq
<1>5. TypeOK'
  <2>1. at \in Nat /\ step[next].depends_on \in SUBSET Nat
    BY <1>3, StatusOf
  <2> QED BY <1>1, <1>2, <1>3, <1>4, <2>1, RunKept DEF IInv, TypeOK, Active
<1>6. Expanding'
  <2>1. work'.plan = plan' /\ work'.step = step' /\ work'.at = at /\ work'.reqs = reqs
        /\ work'.inherited = step[next].depends_on
    BY <1>1, <1>2
  <2>2. Ordered(plan, step) /\ Grown(step, step)
    BY <1>3 DEF Grown
  <2>3. \A x \in step[next].depends_on : Among(plan, at - 1, x)
    BY <1>2, <1>3 DEF Ordered, Precede
  <2>4. Ordered(work'.plan, work'.step) /\ Grown(step', work'.step)
    BY <1>1, <2>1, <2>2
  <2>5. AllAmong(work'.plan, work'.at - 1, work'.inherited)
    BY <1>1, <2>1, <2>3 DEF AllAmong
  <2>6. work'.at \in 1..Len(work'.step) /\ work'.plan[work'.at] = next'
    BY <1>1, <1>2, <1>3, <2>1
  <2> QED BY <1>4, <2>1, <2>4, <2>5, <2>6
        DEF Expanding, Ordered, Permutes, Precede, Among, AllAmong, Grown
<1>7. Fresh' /\ RunOpen' /\ OneRuns'
  BY <1>1, RunKept DEF IInv, Fresh, RunOpen, OneRuns, Active, SomeStatus, AllSucceeded, Succeeded
<1>8. NeverStranded' /\ GuardNeverRefuses'
  BY <1>1 DEF NeverStranded, GuardNeverRefuses
<1> QED BY <1>1, <1>5, <1>6, <1>7, <1>8, RunKept DEF IInv

-----------------------------------------------------------------------------
(* Actions that change one step *)

\* One unfinished step whose dependencies succeeded takes a step further.
LEMMA OneStepMoves ==
  ASSUME NEW s \in Seq(Step), NEW i \in DOMAIN s, NEW x \in Step,
         x.depends_on = s[i].depends_on, s[i].status \notin StepTerminal,
         AllSucceeded(s, s[i].depends_on),
         x.status # "waiting_dependency", x.status # "blocked",
         NEW t, t = [s EXCEPT ![i] = x]
  PROVE  /\ t \in Seq(Step) /\ SameDeps(s, t) /\ MovesOn(s, t) /\ t[i] = x
         /\ \A j \in DOMAIN s : j # i => t[j] = s[j]
<1>1. /\ t \in Seq(Step) /\ SameDeps(s, t) /\ t[i] = x
      /\ \A j \in DOMAIN s : j # i => t[j] = s[j]
  BY UpdateStep
<1>2. ASSUME NEW j \in DOMAIN s
      PROVE  /\ Succeeded(s, j) => Succeeded(t, j)
             /\ Failed(s, j) => Failed(t, j)
             /\ t[j].status \in {"running", "waiting_user", "succeeded"} =>
                  \/ s[j].status \in {"running", "waiting_user", "succeeded"}
                  \/ AllSucceeded(s, s[j].depends_on)
             /\ t[j].status = "blocked" => s[j].status = "blocked"
             /\ t[j].status = "waiting_dependency" => s[j].status = "waiting_dependency"
  <2>1. CASE j = i
    BY <1>1, <2>1 DEF Succeeded, Failed, StepTerminal
  <2>2. CASE j # i
    BY <1>1, <2>2 DEF Succeeded, Failed
  <2> QED BY <2>1, <2>2
<1> QED BY <1>1, <1>2 DEF MovesOn

\* A run that is back at the scheduler with no open question and no running step.
LEMMA BackToSchedule ==
  ASSUME IInv, plan' \in Seq(Nat), step' \in Seq(Step), Ordered(plan', step'), Sound(step'),
         status' = "running", waiting' = NoWait, node' = "schedule", next' \in Nat,
         \A i \in DOMAIN step' : step'[i].status # "running",
         draft' = draft, work' = NoWork \/ work' = work
  PROVE  IInv'
<1>1. TypeOK'
  <2>1. /\ work'.plan \in Seq(Nat) /\ work'.step \in Seq(Step)
        /\ work'.at \in Nat /\ work'.inherited \in SUBSET Nat /\ work'.reqs \in Seq(Keys)
    <3>1. CASE work' = work
      BY <3>1 DEF IInv, TypeOK
    <3>2. CASE work' = NoWork
      BY <3>2 DEF NoWork
    <3> QED BY <3>1, <3>2
  <2>2. status' \in RunStatus /\ waiting' \in WaitingContext
    BY DEF RunStatus, NoWait, WaitingContext
  <2>3. draft' \in Drafts \cup {<<>>} /\ node' \in Active \cup {"end", "lost"}
    BY DEF IInv, TypeOK, Active
  <2> QED BY <2>1, <2>2, <2>3 DEF TypeOK
<1>2. DepsPrecede'
  BY DEF DepsPrecede, Ordered, Permutes, Precede, Among
<1>3. Sound(step)'
  BY DEF Sound, AllSucceeded, Succeeded, Failed
<1>4. Fresh' /\ RunOpen' /\ Expanding' /\ OneRuns'
  BY DEF Fresh, RunOpen, Expanding, OneRuns, RunTerminal
<1>5. WaitingIsTrue' /\ NeverStranded' /\ GuardNeverRefuses' /\ VerdictTrue'
  BY DEF WaitingIsTrue, NeverStranded, GuardNeverRefuses, VerdictTrue
<1> QED BY <1>1, <1>2, <1>3, <1>4, <1>5 DEF IInv

\* The step at work is unfinished, its dependencies succeeded, no other runs.
LEMMA AtWork ==
  ASSUME IInv, node \in {"worker", "expand"}
  PROVE  /\ step \in Seq(Step) /\ plan \in Seq(Nat)
         /\ Ordered(plan, step) /\ Sound(step)
         /\ next \in DOMAIN step /\ next \in Nat
         /\ step[next] \in Step /\ step[next].status = "running"
         /\ step[next].status \notin StepTerminal
         /\ AllSucceeded(step, step[next].depends_on)
         /\ status = "running" /\ waiting = NoWait
         /\ \A i \in DOMAIN step : i # next => step[i].status # "running"
<1>1. step \in Seq(Step) /\ plan \in Seq(Nat) /\ next \in Nat
      /\ Ordered(plan, step) /\ Sound(step)
  BY DEF IInv, TypeOK, DepsPrecede
<1>2. /\ next \in DOMAIN step /\ step[next].status = "running"
      /\ AllSucceeded(step, step[next].depends_on)
      /\ status = "running" /\ waiting = NoWait
      /\ \A i \in DOMAIN step : i # next => step[i].status # "running"
  BY DEF IInv, OneRuns
<1>3. step[next] \in Step
  BY <1>1, <1>2, StatusOf
<1> QED BY <1>1, <1>2, <1>3 DEF StepTerminal, StepFailed

LEMMA ExecuteNodeInv == IInv /\ ExecuteNode => IInv'
<1> SUFFICES ASSUME IInv, ExecuteNode PROVE IInv'
  OBVIOUS
<1>1. /\ node = "execute" /\ node' = "worker" /\ step' = [step EXCEPT ![next] = Begin(step[next])]
      /\ UNCHANGED <<status, waiting, plan, next, draft, work>>
  BY DEF ExecuteNode
<1>2. /\ next \in DOMAIN step /\ step[next].status = "ready" /\ step \in Seq(Step)
      /\ AllSucceeded(step, step[next].depends_on)
      /\ status = "running" /\ waiting = NoWait
      /\ \A i \in DOMAIN step : step[i].status # "running"
  BY <1>1 DEF IInv, OneRuns, TypeOK
<1>3. /\ Begin(step[next]) \in Step /\ Begin(step[next]).status = "running"
      /\ Begin(step[next]).depends_on = step[next].depends_on
  BY <1>2, StatusOf, BeginStep
<1>4. step[next].status \notin StepTerminal
  BY <1>2 DEF StepTerminal, StepFailed
<1>5. /\ step' \in Seq(Step) /\ SameDeps(step, step') /\ MovesOn(step, step')
      /\ step'[next] = Begin(step[next])
      /\ \A j \in DOMAIN step : j # next => step'[j] = step[j]
  <2> DEFINE x == Begin(step[next])
  <2>1. x \in Step /\ x.depends_on = step[next].depends_on
        /\ x.status # "waiting_dependency" /\ x.status # "blocked"
    BY <1>3
  <2> HIDE DEF x
  <2>2. step' = [step EXCEPT ![next] = x]
    BY <1>1 DEF x
  <2> QED BY <1>2, <1>4, <2>1, <2>2, OneStepMoves DEF x
<1>6. plan' \in Seq(Nat) /\ DepsPrecede' /\ Sound(step)'
  BY <1>1, <1>5, StepsKept
<1>7. TypeOK'
  BY <1>1, <1>5, <1>6 DEF IInv, TypeOK, Active
<1>8. OneRuns'
  <2>1. \A d \in step[next].depends_on : Succeeded(step', d)
    <3>1. step[next].depends_on \subseteq DOMAIN step
      BY <1>2, DepsKnown DEF IInv, DepsPrecede
    <3> QED BY <1>2, <1>5, <3>1 DEF AllSucceeded, MovesOn
  <2>2. AllSucceeded(step, step[next].depends_on)'
    BY <1>1, <1>3, <1>5, <2>1 DEF AllSucceeded, Succeeded
  <2>3. /\ DOMAIN step' = DOMAIN step /\ step'[next].status = "running"
        /\ \A j \in DOMAIN step : j # next => step'[j].status # "running"
    BY <1>2, <1>3, <1>5 DEF SameDeps
  <2> QED BY <1>1, <1>2, <2>2, <2>3 DEF OneRuns
<1>9. Fresh' /\ RunOpen' /\ Expanding'
  BY <1>1, <1>2 DEF Fresh, RunOpen, Expanding, RunTerminal
<1>10. WaitingIsTrue' /\ NeverStranded' /\ GuardNeverRefuses' /\ VerdictTrue'
  BY <1>1, <1>2 DEF WaitingIsTrue, NeverStranded, GuardNeverRefuses, VerdictTrue
<1> QED BY <1>6, <1>7, <1>8, <1>9, <1>10 DEF IInv

\* A result that closes the running step.
LEMMA CloseStep ==
  ASSUME IInv, node = "worker", NEW x \in Step, SaveResult(x),
         x.depends_on = step[next].depends_on, x.status \in {"succeeded", "failed"},
         UNCHANGED <<status, waiting>>
  PROVE  IInv'
<1>1. /\ step' = [step EXCEPT ![next] = x] /\ node' = "schedule" /\ next' = 0
      /\ UNCHANGED <<plan, draft, work>>
  BY DEF SaveResult
<1>2. /\ step' \in Seq(Step) /\ SameDeps(step, step') /\ MovesOn(step, step')
      /\ step'[next] = x
      /\ \A j \in DOMAIN step : j # next => step'[j] = step[j]
  BY <1>1, AtWork, OneStepMoves
<1>3. Ordered(plan', step') /\ Sound(step')
  BY <1>1, <1>2, AtWork, OrderedKept, SoundKept
<1>4. \A i \in DOMAIN step' : step'[i].status # "running"
  BY <1>2, AtWork DEF SameDeps
<1> QED BY <1>1, <1>2, <1>3, <1>4, AtWork, BackToSchedule

LEMMA WorkerSucceedsInv == IInv /\ WorkerSucceeds => IInv'
<1> SUFFICES ASSUME IInv, WorkerSucceeds PROVE IInv'
  OBVIOUS
<1> DEFINE x == WithStatus(step[next], "succeeded")
<1>1. node = "worker" /\ SaveResult(x) /\ UNCHANGED <<status, waiting>>
  BY DEF WorkerSucceeds
<1>2. x \in Step /\ x.depends_on = step[next].depends_on /\ x.status = "succeeded"
  BY <1>1, AtWork, WithStatusStep DEF StepStatus, StepTerminal
<1> HIDE DEF x
<1> QED BY <1>1, <1>2, CloseStep

LEMMA WorkerFailsInv == IInv /\ WorkerFails => IInv'
<1> SUFFICES ASSUME IInv, WorkerFails PROVE IInv'
  OBVIOUS
<1>0. PICK code \in WorkerErrors : SaveResult(Mark(step[next], "failed", code))
  BY DEF WorkerFails
<1> DEFINE x == Mark(step[next], "failed", code)
<1>1. node = "worker" /\ SaveResult(x) /\ UNCHANGED <<status, waiting>>
  BY <1>0 DEF WorkerFails
<1>2. x \in Step /\ x.depends_on = step[next].depends_on /\ x.status = "failed"
  <2>1. code \in ErrorCode /\ "failed" \in StepStatus
    BY DEF StepStatus, StepTerminal, StepFailed, ErrorCode
  <2>2. step[next] \in Step
    BY <1>1, AtWork
  <2> QED BY <2>1, <2>2, MarkStep
<1> HIDE DEF x
<1> QED BY <1>1, <1>2, CloseStep

LEMMA WorkerAsksUserInv == IInv /\ WorkerAsksUser => IInv'
<1> SUFFICES ASSUME IInv, WorkerAsksUser PROVE IInv'
  OBVIOUS
<1> DEFINE x == WithStatus(step[next], "waiting_user")
<1>1. node = "worker" /\ SaveResult(x) /\ status' = "waiting_user"
  BY DEF WorkerAsksUser
<1>2. PICK kind \in WaitingKind : waiting' = [step |-> next, kind |-> kind]
  BY DEF WorkerAsksUser
<1>3. x \in Step /\ x.depends_on = step[next].depends_on /\ x.status = "waiting_user"
  BY <1>1, AtWork, WithStatusStep DEF StepStatus
<1> HIDE DEF x
<1>4. /\ step' = [step EXCEPT ![next] = x] /\ node' = "schedule" /\ next' = 0
      /\ UNCHANGED <<plan, draft, work>>
  BY <1>1 DEF SaveResult
<1>5. /\ step' \in Seq(Step) /\ SameDeps(step, step') /\ MovesOn(step, step')
      /\ step'[next] = x
      /\ \A j \in DOMAIN step : j # next => step'[j] = step[j]
  BY <1>1, <1>3, <1>4, AtWork, OneStepMoves
<1>6. plan' \in Seq(Nat) /\ DepsPrecede' /\ Sound(step)'
  BY <1>4, <1>5, StepsKept
<1>7. waiting' \in WaitingContext
  BY <1>1, <1>2, AtWork DEF WaitingContext
<1>8. TypeOK'
  BY <1>1, <1>4, <1>5, <1>6, <1>7 DEF IInv, TypeOK, Active, RunStatus
<1>9. \A i \in DOMAIN step' : step'[i].status # "running"
  BY <1>1, <1>3, <1>5, AtWork DEF SameDeps
<1>10. next \in DOMAIN step' /\ step'[next].status = "waiting_user"
  BY <1>1, <1>3, <1>5, AtWork DEF SameDeps
<1>11. Fresh' /\ RunOpen' /\ Expanding' /\ OneRuns'
  BY <1>1, <1>4, <1>9, <1>10 DEF Fresh, RunOpen, Expanding, OneRuns, RunTerminal, SomeStatus
<1>12. WaitingIsTrue'
  BY <1>1, <1>2, <1>10 DEF WaitingIsTrue
<1>13. NeverStranded' /\ GuardNeverRefuses' /\ VerdictTrue'
  BY <1>1, <1>4 DEF NeverStranded, GuardNeverRefuses, VerdictTrue
<1> QED BY <1>6, <1>8, <1>11, <1>12, <1>13 DEF IInv

-----------------------------------------------------------------------------
(* The insertion of requirement todos *)

\* Refusing a requirement fails the step, with the todos inserted so far.
LEMMA FailRequirementInv ==
  ASSUME IInv, node \in {"worker", "expand"}, NEW p \in Seq(Nat), NEW s \in Seq(Step),
         Ordered(p, s), Grown(step, s), FailRequirement(p, s)
  PROVE  IInv'
<1> DEFINE x == Mark(s[next], "failed", "REQUIREMENT_PLANNING_FAILED")
<1>1. /\ plan' = p /\ step' = [s EXCEPT ![next] = x] /\ node' = "schedule" /\ next' = 0
      /\ work' = NoWork /\ UNCHANGED <<status, waiting, draft>>
  BY DEF FailRequirement
<1>2. next \in DOMAIN step /\ next \in DOMAIN s
  <2>1. DOMAIN step = 1..Len(step) /\ DOMAIN s = 1..Len(s) /\ Len(step) \in Nat /\ Len(s) \in Nat
    BY AtWork, LenProperties
  <2> QED BY <2>1, AtWork DEF Grown
<1>3. /\ s[next] \in Step /\ s[next].status = "running"
      /\ s[next].depends_on = step[next].depends_on
  BY <1>2, StatusOf, AtWork DEF Grown
<1>4. x \in Step /\ x.depends_on = s[next].depends_on /\ x.status = "failed"
  <2>1. "REQUIREMENT_PLANNING_FAILED" \in ErrorCode /\ "failed" \in StepStatus
    BY DEF StepStatus, StepTerminal, StepFailed, ErrorCode
  <2> QED BY <1>3, <2>1, MarkStep
<1>5. Sound(s)
  BY AtWork, GrownSound
<1>6. AllSucceeded(s, s[next].depends_on)
  BY <1>2, <1>3, <1>5 DEF Sound
<1> HIDE DEF x
<1>7. s[next].status \notin StepTerminal
  BY <1>3 DEF StepTerminal, StepFailed
<1>8. /\ step' \in Seq(Step) /\ SameDeps(s, step') /\ MovesOn(s, step')
      /\ step'[next] = x
      /\ \A j \in DOMAIN s : j # next => step'[j] = s[j]
  BY <1>1, <1>2, <1>4, <1>6, <1>7, OneStepMoves
<1>9. Ordered(p, step') /\ Sound(step')
  BY <1>5, <1>8, OrderedKept, SoundKept
<1>10. \A i \in DOMAIN step' : step'[i].status # "running"
  <2>1. ASSUME NEW i \in DOMAIN s, i # next PROVE s[i].status # "running"
    BY <2>1, AtWork DEF Grown
  <2> QED BY <1>4, <1>8, <2>1 DEF SameDeps
<1> QED BY <1>1, <1>8, <1>9, <1>10, AtWork, BackToSchedule

LEMMA WorkerRequiresInVainInv == IInv /\ WorkerRequiresInVain => IInv'
<1> SUFFICES ASSUME IInv, WorkerRequiresInVain PROVE IInv'
  OBVIOUS
<1>1. node = "worker" /\ FailRequirement(plan, step)
  BY DEF WorkerRequiresInVain
<1>2. Grown(step, step)
  BY <1>1, AtWork, LenProperties DEF Grown
<1> QED BY <1>1, <1>2, AtWork, FailRequirementInv

\* What is known of the run in memory.
LEMMA AtExpansion ==
  ASSUME IInv, node = "expand"
  PROVE  /\ work.plan \in Seq(Nat) /\ work.step \in Seq(Step)
         /\ work.inherited \in SUBSET Nat /\ work.reqs \in Seq(Keys)
         /\ Ordered(work.plan, work.step) /\ Grown(step, work.step)
         /\ Sound(work.step)
         /\ Len(step) \in Nat /\ DOMAIN step = 1..Len(step)
         /\ Len(work.step) \in Nat /\ DOMAIN work.step = 1..Len(work.step)
         /\ work.at \in 1..Len(work.step) /\ work.plan[work.at] = next
         /\ next \in DOMAIN work.step /\ work.step[next] \in Step
         /\ work.step[next].status = "running"
         /\ AllAmong(work.plan, work.at - 1, work.inherited)
         /\ work.reqs = <<>> => work.inherited # {}
         /\ \A i \in DOMAIN work.step : i # next => work.step[i].status # "running"
<1>1. /\ work.plan \in Seq(Nat) /\ work.step \in Seq(Step) /\ work.reqs \in Seq(Keys)
      /\ work.inherited \in SUBSET Nat
  BY DEF IInv, TypeOK
<1>2. /\ Ordered(work.plan, work.step) /\ Grown(step, work.step)
      /\ work.at \in 1..Len(work.step) /\ work.plan[work.at] = next
      /\ AllAmong(work.plan, work.at - 1, work.inherited)
      /\ work.reqs = <<>> => work.inherited # {}
  BY DEF IInv, Expanding
<1>3. /\ Len(work.step) \in Nat /\ DOMAIN work.step = 1..Len(work.step)
      /\ Len(step) \in Nat /\ DOMAIN step = 1..Len(step)
  BY <1>1, AtWork, LenProperties
<1>4. next \in DOMAIN work.step
  BY <1>2, <1>3 DEF Ordered, Permutes
<1>5. work.step[next].status = "running"
  BY <1>2, AtWork DEF Grown
<1>6. Sound(work.step)
  BY <1>1, <1>2, AtWork, GrownSound
<1>7. \A i \in DOMAIN work.step : i # next => work.step[i].status # "running"
  BY <1>2, AtWork DEF Grown
<1> QED BY <1>1, <1>2, <1>3, <1>4, <1>5, <1>6, <1>7, StatusOf

LEMMA ExpandFailsInv == IInv /\ ExpandFails => IInv'
<1> SUFFICES ASSUME IInv, ExpandFails PROVE IInv'
  OBVIOUS
<1>1. node = "expand" /\ FailRequirement(work.plan, work.step)
  BY DEF ExpandFails
<1> QED BY <1>1, AtExpansion, FailRequirementInv

LEMMA ExpandDoneInv == IInv /\ ExpandDone => IInv'
<1> SUFFICES ASSUME IInv, ExpandDone PROVE IInv'
  OBVIOUS
<1> DEFINE s  == work.step
           p  == work.plan
           at == work.at
<1>1. /\ node = "expand" /\ work.reqs = <<>> /\ plan' = p
      /\ step' = [s EXCEPT ![next] = AwaitTodos(s[next], work.inherited)]
      /\ node' = "schedule" /\ next' = 0 /\ work' = NoWork
      /\ UNCHANGED <<status, waiting, draft>>
  BY DEF ExpandDone
<1>2. /\ p \in Seq(Nat) /\ s \in Seq(Step) /\ work.inherited \in SUBSET Nat
      /\ Ordered(p, s) /\ Sound(s) /\ at \in 1..Len(s) /\ p[at] = next
      /\ s[next].status = "running"
      /\ AllAmong(p, at - 1, work.inherited)
      /\ work.inherited # {}
      /\ \A i \in DOMAIN s : i # next => s[i].status # "running"
  BY <1>1, AtExpansion
<1> HIDE DEF s, p, at
<1> DEFINE ids == work.inherited
           x   == AwaitTodos(s[next], ids)
<1>3. step' = [s EXCEPT ![next] = x]
  BY <1>1
<1>4. /\ step' \in Seq(Step) /\ DOMAIN step' = DOMAIN s
      /\ Ordered(p, step') /\ Sound(step')
      /\ step'[next].status = "waiting_dependency"
      /\ \A i \in DOMAIN s : i # next => step'[i] = s[i]
  <2>1. Awaitable(p, at, ids) /\ x = AwaitTodos(s[next], ids)
    BY <1>2 DEF Awaitable
  <2>2. s \in Seq(Step) /\ Ordered(p, s) /\ Sound(s) /\ at \in 1..Len(s) /\ next = p[at]
        /\ s[next].status = "running"
    BY <1>2
  <2> HIDE DEF ids, x
  <2>3. Waits(p, s, next, step')
    BY <1>3, <2>1, <2>2, AwaitOrdered
  <2> QED BY <2>3 DEF Waits
<1>5. \A i \in DOMAIN step' : step'[i].status # "running"
  BY <1>2, <1>4
<1> QED BY <1>1, <1>2, <1>4, <1>5, AtWork, BackToSchedule

LEMMA ExpandOneInv == IInv /\ ExpandOne => IInv'
<1> SUFFICES ASSUME IInv, ExpandOne PROVE IInv'
  OBVIOUS
<1> DEFINE key == Head(work.reqs)
           s   == work.step
           p   == work.plan
           at  == work.at
           n   == Len(s)
<1>1. node = "expand" /\ work.reqs # <<>> /\ UNCHANGED <<run, node, next, draft>>
  BY DEF ExpandOne
<1>2. PICK d \in ReqDrafts :
        /\ Delegable(d, Providers(key, s[next].worker))
        /\ work' =
             [plan      |-> Splice(p, at, [j \in 1..Len(d) |-> n + j]),
              step      |-> [AddSteps(s, d, next, key, s[next].depth + 1, work.inherited)
                               EXCEPT ![next] = Remember(@, key)],
              at        |-> at + Len(d),
              inherited |-> TerminalSteps(AddSteps(s, d, next, key, s[next].depth + 1,
                                                   work.inherited), (n + 1)..(n + Len(d))),
              reqs      |-> Tail(work.reqs)]
  BY DEF ExpandOne
<1> DEFINE m == Len(d)
           dep == s[next].depth + 1
           inh == work.inherited
           a == AddSteps(s, d, next, key, dep, inh)
           q == Splice(p, at, [j \in 1..m |-> n + j])
           r == Remember(a[next], key)
           t == [a EXCEPT ![next] = r]
           new == TerminalSteps(a, (n + 1)..(n + m))
<1>3. /\ work'.plan = q /\ work'.step = t /\ work'.at = at + m
      /\ work'.inherited = new /\ work'.reqs = Tail(work.reqs)
  BY <1>2
<1>4. /\ s \in Seq(Step) /\ p \in Seq(Nat) /\ Ordered(p, s) /\ Grown(step, s)
      /\ n \in Nat /\ DOMAIN s = 1..n /\ at \in 1..n /\ p[at] = next /\ next \in DOMAIN s
      /\ s[next] \in Step
      /\ inh \in SUBSET Nat /\ work.reqs \in Seq(Keys)
      /\ AllAmong(p, at - 1, inh)
      /\ Len(step) \in Nat /\ DOMAIN step = 1..Len(step)
  BY <1>1, AtExpansion
<1>5. /\ d \in Seq(Todo(STRING)) /\ Valid(d, "requirement")
      /\ m \in Nat /\ DOMAIN d = 1..m /\ m # 0
  <2>1. d \in Seq(Todo(STRING))
    BY DraftsAssumption
  <2>2. Valid(d, "requirement")
    BY <1>2 DEF Delegable
  <2>3. d # <<>>
    BY <2>2 DEF Valid
  <2> QED BY <2>1, <2>2, <2>3, EmptySeq, LenProperties
<1>6. key \in Keys /\ next \in Nat /\ dep \in Nat /\ Tail(work.reqs) \in Seq(Keys)
  <2>1. key \in Keys /\ Tail(work.reqs) \in Seq(Keys)
    BY <1>1, <1>4, HeadTailProperties
  <2>2. s[next].depth \in Nat
    BY <1>4 DEF Step
  <2> QED BY <1>4, <2>1, <2>2
<1> HIDE DEF key, dep, inh
<1>7. /\ a \in Seq(Step) /\ DOMAIN a = 1..(n + m) /\ Len(a) = n + m
      /\ \A i \in DOMAIN s : a[i] = s[i]
      /\ NewSteps(a, n, m, inh)
  <2>1. key \in Keys \cup {NoKey} /\ next \in Nat /\ dep \in Nat /\ inh \in SUBSET Nat
    BY <1>4, <1>6
  <2>2. s \in Seq(Step) /\ d \in Seq(Todo(STRING)) /\ Valid(d, "requirement")
    BY <1>4, <1>5
  <2> HIDE DEF s
  <2>3. Added(s, a, d, inh)
    BY <2>1, <2>2, AddStepsIs
  <2> QED BY <2>3 DEF Added
<1> HIDE DEF a, s, p, at, m, n
<1>8. /\ next \in DOMAIN a /\ r \in Step /\ a[next] = s[next]
      /\ r.status = s[next].status /\ r.depends_on = s[next].depends_on
      /\ r.required = s[next].required
  <2>1. next \in DOMAIN a /\ a[next] = s[next]
    BY <1>4, <1>5, <1>7
  <2>2. a[next] \in Step /\ key \in Keys
    BY <1>4, <1>6, <2>1
  <2> QED BY <2>1, <2>2, RememberStep
<1> HIDE DEF r
<1>9. /\ t \in Seq(Step) /\ Len(t) = n + m /\ DOMAIN t = 1..(n + m) /\ t[next] = r
      /\ \A i \in DOMAIN a : i # next => t[i] = a[i]
  BY <1>7, <1>8, UpdateStep DEF SameDeps
<1>9a. \A i \in DOMAIN a : i # next => t[i] = a[i]
  BY <1>9
<1> HIDE DEF t
<1>10. \A i \in 1..n : /\ t[i].depends_on = s[i].depends_on /\ t[i].status = s[i].status
                       /\ t[i].required = s[i].required
                       /\ i # next => t[i] = s[i]
  <2> SUFFICES ASSUME NEW i \in 1..n
               PROVE  /\ t[i].depends_on = s[i].depends_on /\ t[i].status = s[i].status
                      /\ t[i].required = s[i].required
                      /\ i # next => t[i] = s[i]
    OBVIOUS
  <2>1. i \in DOMAIN a /\ a[i] = s[i]
    <3>1. i \in DOMAIN s /\ i \in 1..(n + m)
      BY <1>4, <1>5
    <3> QED BY <1>7, <3>1
  <2>2. CASE i = next
    BY <1>8, <1>9, <2>2
  <2>3. CASE i # next
    BY <1>9, <2>1, <2>3
  <2> QED BY <2>2, <2>3
<1>11. \A i \in 1..m : t[n + i] = a[n + i]
  <2> SUFFICES ASSUME NEW i \in 1..m PROVE t[n + i] = a[n + i]
    OBVIOUS
  <2>1. n + i \in 1..(n + m) /\ n + i # next
    <3>1. n \in Nat /\ m \in Nat /\ next \in 1..n
      BY <1>4, <1>5
    <3> QED BY <3>1
  <2>2. n + i \in DOMAIN a
    BY <1>7, <2>1
  <2> QED BY <1>9a, <2>1, <2>2, Zenon
<1>12. NewPrecede(p, n, m, at, t)
  BY <1>4, <1>7, <1>11 DEF NewPrecede, NewSteps, AllAmong
<1> HIDE DEF q
<1>13. q \in Seq(Nat) /\ Ordered(q, t) /\ Inserted(p, q, n, m, at)
  <2>1. /\ Len(t) = Len(s) + m /\ at \in 1..Len(s) /\ NewPrecede(p, Len(s), m, at, t)
        /\ \A i \in 1..Len(s) : t[i].depends_on = s[i].depends_on
    BY <1>4, <1>9, <1>10, <1>12 DEF n
  <2>2. q = Splice(p, at, [j \in 1..m |-> Len(s) + j])
    BY DEF q, n
  <2> QED BY <1>4, <1>5, <1>9, <2>1, <2>2, SpliceOrdered DEF n
<1>14. new # {} /\ new \subseteq (n + 1)..(n + m)
  <2>1. \A i \in 1..m : \A x \in a[n + i].depends_on :
          x \in 1..n \/ \E j \in 1..(i - 1) : x = n + j
    <3>1. \A x \in inh : x \in 1..n
      <4> SUFFICES ASSUME NEW x \in inh PROVE x \in 1..n
        OBVIOUS
      <4>1. PICK k \in 1..(at - 1) : p[k] = x
        BY <1>4 DEF Among, AllAmong
      <4>2. k \in 1..n
        BY <1>4
      <4> QED BY <1>4, <4>1, <4>2 DEF Ordered, Permutes, n
    <3>2. ASSUME NEW i \in 1..m, NEW x \in a[n + i].depends_on
          PROVE  x \in inh \/ \E j \in 1..(i - 1) : x = n + j
      BY <1>7 DEF NewSteps
    <3> QED BY <3>1, <3>2
  <2>2. m \in Nat \ {0}
    BY <1>5
  <2> QED BY <1>4, <2>1, <2>2, TerminalExists
<1> HIDE DEF new
<1>15. ASSUME NEW x \in new PROVE Among(q, at + m - 1, x)
  <2>1. x - n \in 1..m /\ n + (x - n) = x /\ at + (x - n) - 1 \in 1..(at + m - 1)
    <3>1. n \in Nat /\ m \in Nat /\ at \in 1..n /\ x \in (n + 1)..(n + m)
      BY <1>4, <1>5, <1>14
    <3> QED BY <3>1
  <2>2. q[at + (x - n) - 1] = n + (x - n)
    BY <1>13, <2>1 DEF Inserted
  <2> QED BY <2>1, <2>2 DEF Among
<1>16. at + m \in 1..(n + m) /\ q[at + m] = next
  <2>1. at + m \in 1..(n + m) /\ at \in at..n
    <3>1. n \in Nat /\ m \in Nat /\ at \in 1..n
      BY <1>4, <1>5
    <3> QED BY <3>1
  <2> QED BY <1>4, <1>13, <2>1 DEF Inserted
<1>17. Grown(step, t)
  <2>1. Len(step) <= Len(t)
    BY <1>4, <1>5, <1>9 DEF Grown
  <2>2. ASSUME NEW i \in DOMAIN step
        PROVE  t[i].status = step[i].status /\ t[i].depends_on = step[i].depends_on
                 /\ t[i].required = step[i].required
    <3>1. i \in 1..n
      BY <1>4 DEF Grown
    <3> QED BY <1>4, <1>10, <3>1 DEF Grown
  <2>3. ASSUME NEW i \in DOMAIN t, i \notin DOMAIN step PROVE t[i].status = "pending"
    <3>1. CASE i \in 1..n
      BY <1>4, <1>10, <2>3, <3>1 DEF Grown
    <3>2. CASE i \notin 1..n
      <4>1. i - n \in 1..m /\ n + (i - n) = i
        BY <1>4, <1>5, <1>9, <3>2
      <4>2. t[n + (i - n)].status = "pending"
        BY <1>7, <1>11, <4>1 DEF NewSteps
      <4> QED BY <4>1, <4>2
    <3> QED BY <3>1, <3>2
  <2> QED BY <2>1, <2>2, <2>3 DEF Grown
<1>18. \A i \in DOMAIN step : i # next => t[i] = step[i]
  <2> SUFFICES ASSUME NEW i \in DOMAIN step, i # next PROVE t[i] = step[i]
    OBVIOUS
  <2>1. i \in 1..n
    BY <1>4 DEF Grown
  <2>2. s[i] = step[i]
    BY <1>1 DEF IInv, Expanding, s
  <2> QED BY <1>10, <2>1, <2>2
<1>19. TypeOK'
  <2>1. at + m \in Nat /\ new \in SUBSET Nat
    BY <1>4, <1>5, <1>14
  <2> QED BY <1>1, <1>3, <1>6, <1>9, <1>13, <2>1, RunKept DEF IInv, TypeOK
<1>20. Expanding'
  <2>1. Ordered(work'.plan, work'.step) /\ Grown(step', work'.step)
    BY <1>1, <1>3, <1>13, <1>17
  <2>2. AllAmong(work'.plan, work'.at - 1, work'.inherited)
    <3>1. AllAmong(q, at + m - 1, new)
      BY <1>15 DEF AllAmong
    <3>2. work'.plan = q /\ work'.at = at + m /\ work'.inherited = new
      BY <1>3
    <3>3. work'.at - 1 = at + m - 1
      BY <1>4, <1>5, <3>2
    <3> QED BY <3>1, <3>2, <3>3, Zenon
  <2>3. work'.at \in 1..Len(work'.step) /\ work'.plan[work'.at] = next'
    BY <1>1, <1>3, <1>9, <1>16
  <2>4. \A i \in DOMAIN step' : i # next' => work'.step[i] = step'[i]
    BY <1>1, <1>3, <1>18
  <2>5. work'.reqs = <<>> => work'.inherited # {}
    BY <1>3, <1>14
  <2> QED BY <2>1, <2>2, <2>3, <2>4, <2>5
        DEF Expanding, Ordered, Permutes, Precede, Among, AllAmong, Grown
<1>21. Fresh' /\ RunOpen' /\ OneRuns'
  BY <1>1, RunKept DEF IInv, Fresh, RunOpen, OneRuns, Active, SomeStatus, AllSucceeded, Succeeded
<1>22. NeverStranded' /\ GuardNeverRefuses'
  BY <1>1 DEF NeverStranded, GuardNeverRefuses
<1> QED BY <1>1, <1>19, <1>20, <1>21, <1>22, RunKept DEF IInv

-----------------------------------------------------------------------------
(* Scheduling *)

LEMMA ReadyStep ==
  ASSUME NEW s \in Step
  PROVE  /\ Ready(s) \in Step /\ Ready(s).status = "ready"
         /\ Ready(s).depends_on = s.depends_on /\ Ready(s).required = s.required
<1> DEFINE e == IF s.status = "waiting_dependency" THEN "none" ELSE s.error
<1>1. e \in ErrorCode
  BY DEF Step, ErrorCode
<1>2. Ready(s) = Mark(s, "ready", e)
  BY DEF Ready
<1> HIDE DEF e
<1> QED BY <1>1, <1>2, MarkStep DEF StepStatus

\* The scheduler's first pass, from any state in which it may run.
LEMMA AtSchedule ==
  ASSUME IInv, node = "schedule",
         NEW B \in SUBSET DOMAIN plan, IsBlockedSet(plan, step, B),
         NEW t, t = Block(plan, step, B)
  PROVE  /\ plan \in Seq(Nat) /\ step \in Seq(Step) /\ Ordered(plan, step)
         /\ t \in Seq(Step) /\ DOMAIN t = DOMAIN step
         /\ SameDeps(step, t) /\ MovesOn(step, t) /\ Ordered(plan, t) /\ Sound(t)
         /\ ~SomeStatus(t, "running")
         /\ \A i \in DOMAIN step : step[i].status = "waiting_user" => t[i].status = "waiting_user"
         /\ \A i \in DOMAIN step : step[i].status = "waiting_dependency" => step[i].depends_on # {}
<1>1. /\ plan \in Seq(Nat) /\ step \in Seq(Step) /\ Ordered(plan, step) /\ Sound(step)
  BY DEF IInv, TypeOK, DepsPrecede
<1>2. SameDeps(step, t) /\ MovesOn(step, t)
  BY <1>1, BlockMovesOn
<1>3. /\ t \in Seq(Step) /\ DOMAIN t = DOMAIN step
      /\ \A i \in DOMAIN step :
           t[i].status = IF \E k \in B : plan[k] = i THEN "blocked" ELSE step[i].status
  BY <1>1, BlockKeeps
<1>4. Ordered(plan, t) /\ Sound(t)
  BY <1>1, <1>2, OrderedKept, SoundKept
<1>5. ~SomeStatus(t, "running")
  <2>1. \A i \in DOMAIN step : step[i].status # "running"
    BY DEF IInv, OneRuns
  <2> QED BY <1>3, <2>1 DEF SomeStatus
<1>6. ASSUME NEW i \in DOMAIN step, step[i].status = "waiting_user"
      PROVE  t[i].status = "waiting_user"
  <2>1. ASSUME NEW k \in B, plan[k] = i PROVE FALSE
    <3>1. step[i].status \in Schedulable
      BY <2>1 DEF IsBlockedSet
    <3> QED BY <1>6, <3>1 DEF Schedulable
  <2> QED BY <1>3, <1>6, <2>1
<1> QED BY <1>1, <1>2, <1>3, <1>4, <1>5, <1>6 DEF Sound

LEMMA ScheduleExecuteInv == IInv /\ ScheduleExecute => IInv'
<1> SUFFICES ASSUME IInv, ScheduleExecute PROVE IInv'
  OBVIOUS
<1>1. /\ node = "schedule" /\ status' = "running" /\ waiting' = NoWait /\ node' = "execute"
      /\ UNCHANGED <<plan, draft, work>>
  BY DEF ScheduleExecute
<1>2. PICK B \in SUBSET DOMAIN plan :
        /\ IsBlockedSet(plan, step, B)
        /\ \E k \in DOMAIN plan :
             /\ IsFirstDispatchable(plan, Block(plan, step, B), k)
             /\ step' = [Block(plan, step, B) EXCEPT ![plan[k]] = Ready(@)]
             /\ next' = plan[k]
  BY DEF ScheduleExecute
<1> DEFINE b == Block(plan, step, B)
<1>3. PICK k \in DOMAIN plan :
        /\ IsFirstDispatchable(plan, b, k)
        /\ step' = [b EXCEPT ![plan[k]] = Ready(b[plan[k]])]
        /\ next' = plan[k]
  BY <1>2
<1> DEFINE i == plan[k]
           x == Ready(b[i])
<1>4. /\ plan \in Seq(Nat) /\ b \in Seq(Step) /\ Ordered(plan, b) /\ Sound(b)
      /\ ~SomeStatus(b, "running")
  BY <1>1, <1>2, AtSchedule
<1> HIDE DEF b
<1>5. Dispatchable(b, i)
  BY <1>3 DEF IsFirstDispatchable
<1>6. i \in DOMAIN b /\ i \in Nat
  BY <1>4, LenProperties DEF Ordered, Permutes
<1>7. /\ AllSucceeded(b, b[i].depends_on)
      /\ b[i].status \notin StepTerminal
  BY <1>5 DEF Dispatchable, StepTerminal, StepFailed
<1>8. x \in Step /\ x.status = "ready" /\ x.depends_on = b[i].depends_on
  BY <1>4, <1>6, StatusOf, ReadyStep
<1> HIDE DEF i, x
<1>9. step' = [b EXCEPT ![i] = x] /\ next' = i
  BY <1>3 DEF i, x
<1>10. /\ step' \in Seq(Step) /\ SameDeps(b, step') /\ MovesOn(b, step')
       /\ step'[i] = x
       /\ \A j \in DOMAIN b : j # i => step'[j] = b[j]
  BY <1>4, <1>6, <1>7, <1>8, <1>9, OneStepMoves
<1>11. Ordered(plan', step') /\ Sound(step')
  BY <1>1, <1>4, <1>10, OrderedKept, SoundKept
<1>12. TypeOK'
  BY <1>1, <1>4, <1>6, <1>9, <1>10
     DEF IInv, TypeOK, RunStatus, NoWait, WaitingContext, Active
<1>13. DepsPrecede'
  BY <1>11 DEF DepsPrecede, Ordered, Permutes, Precede, Among
<1>14. Sound(step)'
  BY <1>11 DEF Sound, AllSucceeded, Succeeded, Failed
<1>15. OneRuns'
  <2>1. \A d \in b[i].depends_on : Succeeded(step', d)
    <3>1. b[i].depends_on \subseteq DOMAIN b
      BY <1>4, <1>6, DepsKnown
    <3> QED BY <1>7, <1>10, <3>1 DEF AllSucceeded, MovesOn
  <2>2. AllSucceeded(step, step[next].depends_on)'
    BY <1>8, <1>9, <1>10, <2>1 DEF AllSucceeded, Succeeded
  <2>3. next' \in DOMAIN step' /\ step'[next'].status = "ready"
    BY <1>6, <1>8, <1>9, <1>10 DEF SameDeps
  <2>4. \A j \in DOMAIN step' : step'[j].status # "running"
    BY <1>4, <1>8, <1>10 DEF SameDeps, SomeStatus
  <2> QED BY <1>1, <2>2, <2>3, <2>4 DEF OneRuns
<1>16. Fresh' /\ RunOpen' /\ Expanding'
  BY <1>1 DEF Fresh, RunOpen, Expanding, RunTerminal
<1>17. WaitingIsTrue' /\ NeverStranded' /\ GuardNeverRefuses' /\ VerdictTrue'
  BY <1>1 DEF WaitingIsTrue, NeverStranded, GuardNeverRefuses, VerdictTrue
<1> QED BY <1>12, <1>13, <1>14, <1>15, <1>16, <1>17 DEF IInv

\* The two answers that dispatch nothing.
LEMMA NothingDispatched ==
  ASSUME IInv, node = "schedule", UNCHANGED plan,
         NEW B \in SUBSET DOMAIN plan, IsBlockedSet(plan, step, B),
         step' = Block(plan, step, B), NothingToDispatch(step')
  PROVE  /\ plan' \in Seq(Nat) /\ step' \in Seq(Step) /\ DepsPrecede' /\ Sound(step)'
         /\ DOMAIN step' = DOMAIN step
         /\ \A i \in DOMAIN step' : step'[i].status # "running"
         /\ \A i \in DOMAIN step :
              step[i].status = "waiting_user" => step'[i].status = "waiting_user"
         /\ \/ SomeStatus(step', "waiting_user")
            \/ \A i \in DOMAIN step' : step'[i].status \in StepTerminal
<1> DEFINE b == Block(plan, step, B)
<1>1. /\ plan \in Seq(Nat) /\ step \in Seq(Step) /\ Ordered(plan, step)
      /\ b \in Seq(Step) /\ DOMAIN b = DOMAIN step
      /\ SameDeps(step, b) /\ MovesOn(step, b)
      /\ ~SomeStatus(b, "running")
      /\ \A i \in DOMAIN step : step[i].status = "waiting_user" => b[i].status = "waiting_user"
      /\ \A i \in DOMAIN step : step[i].status = "waiting_dependency" => step[i].depends_on # {}
  BY AtSchedule
<1>2. \/ SomeStatus(b, "waiting_user")
      \/ \A i \in DOMAIN step : b[i].status \in StepTerminal
  BY <1>1, NothingLeft
<1> HIDE DEF b
<1>3. step' = b
  BY DEF b
<1>4. plan' \in Seq(Nat) /\ DepsPrecede' /\ Sound(step)'
  BY <1>1, <1>3, StepsKept
<1> QED BY <1>1, <1>2, <1>3, <1>4 DEF SomeStatus

LEMMA ScheduleWaitInv == IInv /\ ScheduleWait => IInv'
<1> SUFFICES ASSUME IInv, ScheduleWait PROVE IInv'
  OBVIOUS
<1>1. /\ node = "schedule" /\ node' = "ending" /\ MustWait(step') /\ NothingToDispatch(step')
      /\ status' = IF SomeStatus(step', "waiting_user") /\ ~SomeStatus(step', "running")
                   THEN "waiting_user" ELSE status
      /\ UNCHANGED <<waiting, plan, next, draft, work>>
  BY DEF ScheduleWait
<1>2. PICK B \in SUBSET DOMAIN plan : IsBlockedSet(plan, step, B) /\ step' = Block(plan, step, B)
  BY DEF ScheduleWait
<1>3. /\ plan' \in Seq(Nat) /\ step' \in Seq(Step) /\ DepsPrecede' /\ Sound(step)'
      /\ DOMAIN step' = DOMAIN step
      /\ \A i \in DOMAIN step' : step'[i].status # "running"
      /\ \A i \in DOMAIN step :
           step[i].status = "waiting_user" => step'[i].status = "waiting_user"
      /\ \/ SomeStatus(step', "waiting_user")
         \/ \A i \in DOMAIN step' : step'[i].status \in StepTerminal
  BY <1>1, <1>2, NothingDispatched
<1>4. SomeStatus(step', "waiting_user")
  BY <1>1, <1>3 DEF MustWait, SomeStatus, StepTerminal, StepFailed
<1>5. status' = "waiting_user"
  BY <1>1, <1>3, <1>4 DEF SomeStatus
<1>6. SomeStatus(step, "waiting_user")'
  BY <1>4 DEF SomeStatus
<1>7. TypeOK'
  BY <1>1, <1>3, <1>5 DEF IInv, TypeOK, RunStatus, Active
<1>8. Fresh' /\ RunOpen' /\ OneRuns' /\ Expanding'
  BY <1>1, <1>3, <1>5, <1>6 DEF Fresh, RunOpen, OneRuns, Expanding, Active
<1>9. WaitingIsTrue'
  BY <1>1, <1>3, <1>5 DEF IInv, WaitingIsTrue
<1>10. NeverStranded' /\ GuardNeverRefuses' /\ VerdictTrue'
  BY <1>1, <1>5, <1>6 DEF NeverStranded, GuardNeverRefuses, VerdictTrue
<1> QED BY <1>3, <1>7, <1>8, <1>9, <1>10 DEF IInv

LEMMA ScheduleFinalizeInv == IInv /\ ScheduleFinalize => IInv'
<1> SUFFICES ASSUME IInv, ScheduleFinalize PROVE IInv'
  OBVIOUS
<1>1. /\ node = "schedule" /\ node' = "finalize" /\ ~MustWait(step') /\ NothingToDispatch(step')
      /\ UNCHANGED <<status, waiting, plan, next, draft, work>>
  BY DEF ScheduleFinalize
<1>2. PICK B \in SUBSET DOMAIN plan : IsBlockedSet(plan, step, B) /\ step' = Block(plan, step, B)
  BY DEF ScheduleFinalize
<1>3. /\ plan' \in Seq(Nat) /\ step' \in Seq(Step) /\ DepsPrecede' /\ Sound(step)'
      /\ DOMAIN step' = DOMAIN step
      /\ \A i \in DOMAIN step' : step'[i].status # "running"
      /\ \A i \in DOMAIN step :
           step[i].status = "waiting_user" => step'[i].status = "waiting_user"
      /\ \/ SomeStatus(step', "waiting_user")
         \/ \A i \in DOMAIN step' : step'[i].status \in StepTerminal
  BY <1>1, <1>2, NothingDispatched
<1>4. ~SomeStatus(step', "waiting_user") /\ ~SomeStatus(step, "waiting_user")
  BY <1>1, <1>3 DEF MustWait, SomeStatus
<1>5. status = "running"
  BY <1>1, <1>4 DEF IInv, TypeOK, RunOpen, RunStatus, Active
<1>6. GuardNeverRefuses'
  BY <1>3, <1>4 DEF GuardNeverRefuses, MayFinalize
<1>7. TypeOK'
  BY <1>1, <1>3 DEF IInv, TypeOK, Active
<1>8. Fresh' /\ RunOpen' /\ OneRuns' /\ Expanding'
  BY <1>1, <1>3, <1>5 DEF Fresh, RunOpen, OneRuns, Expanding, RunTerminal
<1>9. WaitingIsTrue'
  BY <1>1, <1>3, <1>5 DEF IInv, WaitingIsTrue
<1>10. NeverStranded' /\ VerdictTrue'
  BY <1>1, <1>5 DEF NeverStranded, VerdictTrue
<1> QED BY <1>3, <1>6, <1>7, <1>8, <1>9, <1>10 DEF IInv

-----------------------------------------------------------------------------
(* Planning, the end of a run, and the user *)

LEMMA ValidateNodeInv == IInv /\ ValidateNode => IInv'
<1> SUFFICES ASSUME IInv, ValidateNode PROVE IInv'
  OBVIOUS
<1> DEFINE m == Len(draft)
           t == AddSteps(<<>>, draft, NoOwner, NoKey, 0, {})
           p == [i \in 1..m |-> i]
<1>1. /\ node = "validate" /\ Valid(draft, "user_intent") /\ plan' = p /\ step' = t
      /\ status' = "running" /\ node' = "schedule"
      /\ UNCHANGED <<waiting, next, draft, work>>
  BY DEF ValidateNode
<1>2. waiting' = NoWait
  BY <1>1 DEF IInv, Fresh
<1>3. draft \in Seq(Todo(STRING)) /\ m \in Nat
  <2>1. draft \in Drafts
    BY <1>1 DEF IInv, TypeOK, Valid
  <2> QED BY <2>1, DraftsAssumption, LenProperties
<1>4. /\ t \in Seq(Step) /\ DOMAIN t = 1..m /\ Len(t) = m /\ NewSteps(t, 0, m, {})
  <2>1. <<>> \in Seq(Step) /\ Len(<<>>) = 0
    OBVIOUS
  <2>2. NoOwner \in Nat /\ NoKey \in Keys \cup {NoKey} /\ 0 \in Nat /\ {} \in SUBSET Nat
    BY DEF NoOwner
  <2>3. Valid(draft, "user_intent") /\ draft \in Seq(Todo(STRING))
    BY <1>1, <1>3
  <2>4. Added(<<>>, t, draft, {})
    BY <2>1, <2>2, <2>3, AddStepsIs
  <2> HIDE DEF t
  <2>5. Len(<<>>) + m = m
    BY <1>3, <2>1
  <2> QED BY <2>1, <2>4, <2>5 DEF Added
<1> HIDE DEF t
<1>5. \A i \in 1..m : /\ t[i].status = "pending"
                      /\ \A x \in t[i].depends_on : x \in 1..(i - 1)
  <2> SUFFICES ASSUME NEW i \in 1..m
               PROVE  /\ t[i].status = "pending"
                      /\ \A x \in t[i].depends_on : x \in 1..(i - 1)
    OBVIOUS
  <2>1. 0 + i = i
    BY <1>3
  <2>2. /\ t[i].status = "pending"
        /\ \A x \in t[i].depends_on : \E j \in 1..(i - 1) : x = 0 + j
    BY <1>4, <2>1 DEF NewSteps
  <2> QED BY <1>3, <2>2
<1>6. p \in Seq(Nat) /\ Len(p) = m /\ \A k \in 1..m : p[k] = k
  BY <1>3
<1> HIDE DEF p
<1>7. Ordered(p, t)
  <2>1. Permutes(p, m)
    BY <1>6 DEF Permutes
  <2>2. Precede(p, m, t)
    <3> SUFFICES ASSUME NEW k \in 1..m, NEW d \in t[p[k]].depends_on PROVE Among(p, k - 1, d)
      BY DEF Precede
    <3>1. d \in 1..(k - 1)
      BY <1>5, <1>6
    <3>2. d \in 1..m
      BY <1>3, <3>1
    <3> QED BY <1>6, <3>1, <3>2 DEF Among
  <2> QED BY <1>4, <1>6, <2>1, <2>2 DEF Ordered
<1>8. Sound(t)
  BY <1>4, <1>5 DEF Sound
<1>9. \A i \in DOMAIN step' : step'[i].status # "running"
  BY <1>1, <1>4, <1>5
<1>10. next' \in Nat
  BY <1>1 DEF IInv, TypeOK
<1> QED BY <1>1, <1>2, <1>4, <1>6, <1>7, <1>8, <1>9, <1>10, BackToSchedule

LEMMA ResumeInv == IInv /\ Resume => IInv'
<1> SUFFICES ASSUME IInv, Resume PROVE IInv'
  OBVIOUS
<1> DEFINE i == waiting.step
           x == Mark(step[i], "pending", "none")
<1>1. /\ status = "waiting_user" /\ waiting # NoWait
      /\ step' = [step EXCEPT ![i] = x]
      /\ status' = "running" /\ waiting' = NoWait /\ node' = "schedule"
      /\ UNCHANGED <<plan, next, draft, work>>
  BY DEF Resume
<1>2. /\ step \in Seq(Step) /\ i \in DOMAIN step /\ step[i].status = "waiting_user"
      /\ Ordered(plan, step) /\ Sound(step) /\ plan \in Seq(Nat) /\ next \in Nat
  BY <1>1 DEF IInv, TypeOK, WaitingIsTrue, DepsPrecede
<1>3. AllSucceeded(step, step[i].depends_on)
  BY <1>2 DEF Sound
<1>4. x \in Step /\ x.status = "pending" /\ x.depends_on = step[i].depends_on
  <2>1. "pending" \in StepStatus /\ "none" \in ErrorCode
    BY DEF StepStatus, ErrorCode
  <2>2. step[i] \in Step
    BY <1>2, StatusOf
  <2> HIDE DEF i
  <2> QED BY <2>1, <2>2, MarkStep
<1> HIDE DEF x, i
<1>5. step[i].status \notin StepTerminal
  BY <1>2 DEF StepTerminal, StepFailed
<1>6. /\ step' \in Seq(Step) /\ SameDeps(step, step') /\ MovesOn(step, step')
      /\ step'[i] = x
      /\ \A j \in DOMAIN step : j # i => step'[j] = step[j]
  BY <1>1, <1>2, <1>3, <1>4, <1>5, OneStepMoves
<1>7. Ordered(plan', step') /\ Sound(step')
  BY <1>1, <1>2, <1>6, OrderedKept, SoundKept
<1>8. \A j \in DOMAIN step' : step'[j].status # "running"
  <2>1. \A j \in DOMAIN step : step[j].status # "running"
    BY <1>1 DEF IInv, OneRuns
  <2> QED BY <1>4, <1>6, <2>1 DEF SameDeps
<1> QED BY <1>1, <1>2, <1>6, <1>7, <1>8, BackToSchedule

\* Closing some unfinished steps as failed or cancelled.
LEMMA CloseSome ==
  ASSUME NEW s \in Seq(Step), NEW t, DOMAIN t = DOMAIN s, t = [i \in DOMAIN s |-> t[i]],
         \A i \in DOMAIN s :
           \/ t[i] = s[i]
           \/ /\ s[i].status \notin StepTerminal
              /\ t[i] \in Step /\ t[i].status \in {"failed", "cancelled"}
              /\ t[i].depends_on = s[i].depends_on
  PROVE  t \in Seq(Step) /\ SameDeps(s, t) /\ MovesOn(s, t)
<1>1. Len(s) \in Nat /\ DOMAIN s = 1..Len(s)
  BY LenProperties
<1>2. \A i \in DOMAIN s : t[i] \in Step /\ t[i].depends_on = s[i].depends_on
  BY StatusOf
<1>3. t \in Seq(Step) /\ Len(t) = Len(s)
  <2>1. t \in [1..Len(s) -> Step]
    BY <1>1, <1>2
  <2> QED BY <1>1, <2>1, FcnSeq
<1>4. SameDeps(s, t)
  BY <1>2, <1>3 DEF SameDeps
<1>5. MovesOn(s, t)
  BY DEF MovesOn, Succeeded, Failed, StepTerminal, StepFailed
<1> QED BY <1>3, <1>4, <1>5

\* A run that is over with its steps no longer running.
LEMMA ItIsOver ==
  ASSUME IInv, UNCHANGED <<plan, next, draft, work>>, step' \in Seq(Step),
         SameDeps(step, step'), MovesOn(step, step'),
         status' \in {"failed", "cancelled"}, waiting' = NoWait, node' = "end",
         \A i \in DOMAIN step' : step'[i].status # "running"
  PROVE  IInv'
<1>1. plan' \in Seq(Nat) /\ DepsPrecede' /\ Sound(step)'
  BY StepsKept
<1>2. TypeOK'
  BY <1>1 DEF IInv, TypeOK, RunStatus, RunTerminal, WaitingContext, NoWait
<1>3. Fresh' /\ RunOpen' /\ OneRuns' /\ Expanding'
  BY DEF Fresh, RunOpen, OneRuns, Expanding, Active
<1>4. WaitingIsTrue' /\ NeverStranded' /\ GuardNeverRefuses' /\ VerdictTrue'
  BY DEF WaitingIsTrue, NeverStranded, GuardNeverRefuses, VerdictTrue, RunTerminal
<1> QED BY <1>1, <1>2, <1>3, <1>4 DEF IInv

LEMMA FailRunInv == IInv /\ FailRun => IInv'
<1> SUFFICES ASSUME IInv, FailRun PROVE IInv'
  OBVIOUS
<1>1. /\ status' = "failed" /\ waiting' = NoWait /\ node' = "end"
      /\ step' = [i \in DOMAIN step |->
                    IF step[i].status = "running"
                    THEN Mark(step[i], "failed", "WORKFLOW_ERROR")
                    ELSE step[i]]
      /\ UNCHANGED <<plan, next, draft, work>>
  BY DEF FailRun
<1>2. step \in Seq(Step)
  BY DEF IInv, TypeOK
<1>3. ASSUME NEW i \in DOMAIN step, step[i].status = "running"
      PROVE  /\ step'[i] \in Step /\ step'[i].status = "failed"
             /\ step'[i].depends_on = step[i].depends_on
             /\ step[i].status \notin StepTerminal
  <2>1. "failed" \in StepStatus /\ "WORKFLOW_ERROR" \in ErrorCode
    BY DEF StepStatus, StepTerminal, StepFailed, ErrorCode
  <2>2. step'[i] = Mark(step[i], "failed", "WORKFLOW_ERROR") /\ step[i] \in Step
    BY <1>1, <1>2, <1>3, StatusOf
  <2> QED BY <1>3, <2>1, <2>2, MarkStep DEF StepTerminal, StepFailed
<1>4. ASSUME NEW i \in DOMAIN step, step[i].status # "running" PROVE step'[i] = step[i]
  BY <1>1, <1>4
<1>5. DOMAIN step' = DOMAIN step /\ step' = [i \in DOMAIN step |-> step'[i]]
  BY <1>1
<1>6. step' \in Seq(Step) /\ SameDeps(step, step') /\ MovesOn(step, step')
  BY <1>2, <1>3, <1>4, <1>5, CloseSome
<1>7. \A i \in DOMAIN step' : step'[i].status # "running"
  BY <1>3, <1>4, <1>5
<1> QED BY <1>1, <1>6, <1>7, ItIsOver

LEMMA CancelRunInv == IInv /\ CancelRun => IInv'
<1> SUFFICES ASSUME IInv, CancelRun PROVE IInv'
  OBVIOUS
<1>1. /\ status' = "cancelled" /\ waiting' = NoWait /\ node' = "end"
      /\ step' = [i \in DOMAIN step |->
                    IF step[i].status \in StepTerminal THEN step[i]
                    ELSE WithStatus(step[i], "cancelled")]
      /\ UNCHANGED <<plan, next, draft, work>>
  BY DEF CancelRun
<1>2. step \in Seq(Step)
  BY DEF IInv, TypeOK
<1>3. ASSUME NEW i \in DOMAIN step, step[i].status \notin StepTerminal
      PROVE  /\ step'[i] \in Step /\ step'[i].status = "cancelled"
             /\ step'[i].depends_on = step[i].depends_on
  <2>1. "cancelled" \in StepStatus
    BY DEF StepStatus, StepTerminal, StepFailed
  <2>2. step'[i] = WithStatus(step[i], "cancelled") /\ step[i] \in Step
    BY <1>1, <1>2, <1>3, StatusOf
  <2> QED BY <2>1, <2>2, WithStatusStep
<1>4. ASSUME NEW i \in DOMAIN step, step[i].status \in StepTerminal PROVE step'[i] = step[i]
  BY <1>1, <1>4
<1>5. DOMAIN step' = DOMAIN step /\ step' = [i \in DOMAIN step |-> step'[i]]
  BY <1>1
<1>6. step' \in Seq(Step) /\ SameDeps(step, step') /\ MovesOn(step, step')
  BY <1>2, <1>3, <1>4, <1>5, CloseSome
<1>7. \A i \in DOMAIN step' : step'[i].status # "running"
  BY <1>3, <1>4, <1>5 DEF StepTerminal, StepFailed
<1> QED BY <1>1, <1>6, <1>7, ItIsOver

LEMMA FinalizeNodeInv == IInv /\ FinalizeNode => IInv'
<1> SUFFICES ASSUME IInv, FinalizeNode PROVE IInv'
  OBVIOUS
<1>1. /\ node = "finalize" /\ MayFinalize(step) /\ status' = FinalStatus(step)
      /\ waiting' = NoWait /\ node' = "ending" /\ UNCHANGED <<plan, step, next, draft, work>>
  BY DEF FinalizeNode
<1>2. /\ status' \in {"succeeded", "failed", "partially_succeeded"}
      /\ status' = "succeeded" => \A i \in DOMAIN step : step[i].required => ~Failed(step, i)
  BY <1>1 DEF FinalStatus
<1>3. VerdictTrue'
  <2>1. \A i \in DOMAIN step : Failed(step, i) \/ Succeeded(step, i)
    BY <1>1 DEF MayFinalize, StepTerminal, Failed, Succeeded
  <2> QED BY <1>1, <1>2, <2>1 DEF VerdictTrue, Succeeded
<1>4. TypeOK'
  BY <1>1, <1>2 DEF IInv, TypeOK, RunStatus, RunTerminal, WaitingContext, NoWait, Active
<1>5. \A i \in DOMAIN step : step[i].status # "running"
  BY <1>1 DEF MayFinalize, StepTerminal, StepFailed
<1>6. Fresh' /\ RunOpen' /\ OneRuns' /\ Expanding'
  BY <1>1, <1>2, <1>5 DEF Fresh, RunOpen, OneRuns, Expanding, Active
<1>7. WaitingIsTrue' /\ NeverStranded' /\ GuardNeverRefuses'
  BY <1>1, <1>2 DEF WaitingIsTrue, NeverStranded, GuardNeverRefuses, RunTerminal
<1>8. DepsPrecede'
  <2>1. Ordered(plan', step')
    BY <1>1 DEF IInv, DepsPrecede
  <2> QED BY <2>1 DEF DepsPrecede, Ordered, Permutes, Precede, Among
<1>9. Sound(step)'
  <2>1. Sound(step')
    BY <1>1 DEF IInv
  <2> QED BY <2>1 DEF Sound, AllSucceeded, Succeeded, Failed
<1> QED BY <1>3, <1>4, <1>6, <1>7, <1>8, <1>9 DEF IInv

LEMMA GraphEndsInv == IInv /\ GraphEnds => IInv'
<1> SUFFICES ASSUME IInv, GraphEnds PROVE IInv'
  OBVIOUS
<1>1. node = "ending" /\ node' = "end" /\ UNCHANGED <<run, next, draft, work>>
  BY DEF GraphEnds
<1>2. TypeOK'
  BY <1>1, RunKept DEF IInv, TypeOK, Active
<1>3. Fresh' /\ RunOpen' /\ Expanding'
  BY <1>1, RunKept DEF IInv, Fresh, RunOpen, Expanding, Active, SomeStatus
<1>4. OneRuns'
  BY <1>1 DEF IInv, OneRuns
<1>5. NeverStranded' /\ GuardNeverRefuses'
  BY <1>1 DEF IInv, NeverStranded, GuardNeverRefuses, SomeStatus
<1> QED BY <1>1, <1>2, <1>3, <1>4, <1>5, RunKept DEF IInv

-----------------------------------------------------------------------------
(* All of them *)

LEMMA StutterInv == IInv /\ UNCHANGED vars => IInv'
<1> SUFFICES ASSUME IInv, UNCHANGED vars PROVE IInv'
  OBVIOUS
<1>1. UNCHANGED <<run, node, next, draft, work>>
  BY DEF vars
<1>2. TypeOK'
  BY <1>1, RunKept DEF IInv, TypeOK
<1>3. Expanding'
  <2>1. /\ node' = node /\ step' = step /\ work' = work /\ next' = next
    BY <1>1
  <2>2. node = "expand" => /\ Ordered(work'.plan, work'.step) /\ Grown(step', work'.step)
                           /\ AllAmong(work'.plan, work'.at - 1, work'.inherited)
    BY <2>1 DEF IInv, Expanding
  <2>3. node = "expand" =>
          /\ \A i \in DOMAIN step' : i # next' => work'.step[i] = step'[i]
          /\ work'.at \in 1..Len(work'.step) /\ work'.plan[work'.at] = next'
          /\ work'.reqs = <<>> => work'.inherited # {}
    BY <2>1 DEF IInv, Expanding
  <2> QED BY <2>1, <2>2, <2>3
        DEF Expanding, Ordered, Permutes, Precede, Among, AllAmong, Grown
<1>4. Fresh' /\ RunOpen' /\ OneRuns'
  BY <1>1 DEF IInv, Fresh, RunOpen, OneRuns, SomeStatus, AllSucceeded, Succeeded
<1>5. NeverStranded' /\ GuardNeverRefuses'
  BY <1>1 DEF IInv, NeverStranded, GuardNeverRefuses, SomeStatus, MayFinalize
<1> QED BY <1>1, <1>2, <1>3, <1>4, <1>5, RunKept DEF IInv

LEMMA NextInv == IInv /\ [Next]_vars => IInv'
<1> SUFFICES ASSUME IInv, [Next]_vars PROVE IInv'
  OBVIOUS
<1>1. CASE PlanNode \/ ValidateNode
  BY <1>1, PlanNodeInv, ValidateNodeInv
<1>2. CASE Schedule
  BY <1>2, ScheduleExecuteInv, ScheduleWaitInv, ScheduleFinalizeInv DEF Schedule
<1>3. CASE ExecuteNode \/ Worker
  BY <1>3, ExecuteNodeInv, WorkerSucceedsInv, WorkerFailsInv, WorkerAsksUserInv,
     WorkerRequiresInv, WorkerRequiresInVainInv DEF Worker
<1>4. CASE Expand
  BY <1>4, ExpandOneInv, ExpandFailsInv, ExpandDoneInv DEF Expand
<1>5. CASE FinalizeNode \/ GraphEnds \/ NodeRaises \/ FailRun
  BY <1>5, FinalizeNodeInv, GraphEndsInv, NodeRaisesInv, FailRunInv
<1>6. CASE Disconnect \/ Resume \/ CancelRun
  BY <1>6, DisconnectInv, ResumeInv, CancelRunInv
<1>7. CASE Over \/ UNCHANGED vars
  BY <1>7, StutterInv DEF Over
<1> QED BY <1>1, <1>2, <1>3, <1>4, <1>5, <1>6, <1>7 DEF Next, Graph
=============================================================================
