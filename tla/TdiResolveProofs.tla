-------------------------- MODULE TdiResolveProofs --------------------------
(***************************************************************************)
(* Proofs about the log queue of the TDI firewall and about how it learns  *)
(* process names, for a ring of any size, and any number of processes and  *)
(* threads.  They go from the arithmetic of the ring, by the queue as a    *)
(* list of requests and the sum of what it has counted, to an invariant of *)
(* the ring (Inv), and from that to one of the names (NameInv), which says *)
(* where the request of the first thread that waits for a name is.         *)
(***************************************************************************)
EXTENDS TdiResolve, WellFoundedInduction, TLAPS

-----------------------------------------------------------------------------
(* Induction and sums                                                      *)

\* A nonempty set of naturals has a least element.
LEMMA LeastNatural ==
    ASSUME NEW S, S \subseteq Nat, S # {}
    PROVE  \E x \in S : \A y \in S : x <= y
<1> DEFINE less == {p \in Nat \X Nat : p[1] < p[2]}
<1>1. less = OpToRel(<, Nat)
  BY Zenon DEF OpToRel
<1>2. IsWellFoundedOn(less, Nat)
  BY <1>1, NatLessThanWellFounded
<1>3. \A x, y \in S : <<y, x>> \in less <=> y < x
  OBVIOUS
<1> HIDE DEF less
<1>4. PICK x \in S : \A y \in S : ~ (<<y, x>> \in less)
  BY <1>2, WFMin, Zenon
<1>5. ASSUME NEW y \in S
      PROVE  x <= y
  <2>1. ~ (y < x)
    BY <1>3, <1>4
  <2>2. x \in Nat /\ y \in Nat
    OBVIOUS
  <2> QED BY <2>1, <2>2
<1> QED BY <1>5

\* g is the sum of w over each set of naturals below n.
IsSum(g, w, n) ==
    /\ g \in [SUBSET (0..(n - 1)) -> Nat]
    /\ g[{}] = 0 /\ (\A i \in 0..(n - 1) : w[i] \in Nat)
    /\ \A s \in SUBSET (0..(n - 1)) : \A x \in s : g[s] = w[x] + g[s \ {x}]

\* There are sums of w below each number.
Summable(w) == {n \in Nat : \E g : IsSum(g, w, n)}

\* The empty sum.
LEMMA SumBelowZero ==
    ASSUME NEW w
    PROVE  0 \in Summable(w)
<1>1. 0..(0 - 1) = {}
  OBVIOUS
<1>2. IsSum([s \in SUBSET {} |-> 0], w, 0)
  BY <1>1 DEF IsSum
<1> QED BY <1>2 DEF Summable

\* One more number.
LEMMA SumBelowNext ==
    ASSUME NEW n \in Nat, NEW w, w[n] \in Nat, n \in Summable(w)
    PROVE  n + 1 \in Summable(w)
<1>1. PICK g : IsSum(g, w, n)
  BY DEF Summable
<1> DEFINE B == 0..(n - 1)
           C == 0..(n + 1 - 1)
           h == [s \in SUBSET C |-> IF n \in s THEN w[n] + g[s \ {n}] ELSE g[s]]
<1>2. C = B \cup {n} /\ ~ n \in B
  OBVIOUS
<1>3. \A s \in SUBSET C : s \ {n} \in SUBSET B /\ (~ n \in s => s \in SUBSET B)
  BY <1>2
<1>4. g \in [SUBSET B -> Nat] /\ g[{}] = 0
  BY <1>1 DEF IsSum
<1>5. \A s \in SUBSET B : \A x \in s : g[s] = w[x] + g[s \ {x}]
  BY <1>1 DEF IsSum
<1> HIDE DEF B, C
<1>6. h \in [SUBSET C -> Nat]
  <2> SUFFICES ASSUME NEW s \in SUBSET C
               PROVE  h[s] \in Nat
    OBVIOUS
  <2>1. CASE n \in s
    <3>1. g[s \ {n}] \in Nat
      BY <1>3, <1>4
    <3> QED BY <2>1, <3>1
  <2>2. CASE ~ n \in s
    BY <1>3, <1>4, <2>2
  <2> QED BY <2>1, <2>2
<1>7. h[{}] = 0
  BY <1>4
<1>8. ASSUME NEW s \in SUBSET C, NEW x \in s
      PROVE  h[s] = w[x] + h[s \ {x}]
  <2>1. s \ {x} \in SUBSET C
    OBVIOUS
  <2>2. CASE x = n
    <3>1. ~ n \in s \ {x}
      BY <2>2
    <3>2. h[s \ {x}] = g[s \ {x}]
      BY <2>1, <3>1
    <3> QED BY <2>2, <3>2
  <2>3. CASE x # n /\ n \in s
    <3>1. h[s] = w[n] + g[s \ {n}] /\ h[s \ {x}] = w[n] + g[(s \ {x}) \ {n}]
      BY <2>1, <2>3
    <3>2. x \in s \ {n} /\ s \ {n} \in SUBSET B /\ (s \ {x}) \ {n} = (s \ {n}) \ {x}
      BY <1>3, <2>3
    <3>3. g[s \ {n}] = w[x] + g[(s \ {n}) \ {x}]
      BY <1>5, <3>2
    <3>4. g[s \ {n}] \in Nat /\ g[(s \ {n}) \ {x}] \in Nat
      BY <1>4, <3>2
    <3>5. h[s] = w[n] + g[s \ {n}]
      BY <3>1
    <3>6. h[s \ {x}] = w[n] + g[(s \ {n}) \ {x}]
      BY <3>1, <3>2
    <3>7. w[x] \in Int
      BY <1>1, <1>2, <2>3 DEF IsSum, B
    <3> HIDE DEF h
    <3> QED BY <3>3, <3>4, <3>5, <3>6, <3>7
  <2>4. CASE ~ n \in s
    <3>1. s \in SUBSET B /\ h[s] = g[s] /\ h[s \ {x}] = g[s \ {x}]
      BY <1>3, <2>1, <2>4
    <3> QED BY <1>5, <3>1
  <2> QED BY <2>2, <2>3, <2>4
<1>9. \A i \in C : w[i] \in Nat
  BY <1>1, <1>2 DEF IsSum, B
<1>10. IsSum(h, w, n + 1)
  <2> HIDE DEF h
  <2> QED BY <1>6, <1>7, <1>8, <1>9 DEF IsSum, C
<1> QED BY <1>10 DEF Summable

\* There is a sum over the sets below any number.
LEMMA SumExists ==
    ASSUME NEW n \in Nat, NEW w, \A i \in 0..(n - 1) : w[i] \in Nat
    PROVE  \E g : IsSum(g, w, n)
<1> DEFINE T == {m \in 0..n : ~ m \in Summable(w)}
<1>1. T = {}
  <2> SUFFICES ASSUME T # {}
               PROVE  FALSE
    OBVIOUS
  <2>1. T \subseteq Nat
    OBVIOUS
  <2>2. PICK m \in T : \A k \in T : m <= k
    BY <2>1, LeastNatural
  <2>3. CASE m = 0
    BY <2>3, SumBelowZero
  <2>4. CASE m # 0
    <3>1. m - 1 \in Nat /\ m - 1 \in 0..(n - 1) /\ m - 1 + 1 = m
      BY <2>4
    <3>2. m - 1 \in Summable(w)
      BY <2>2, <3>1
    <3> QED BY <3>1, <3>2, SumBelowNext
  <2> QED BY <2>3, <2>4
<1>2. n \in Summable(w)
  BY <1>1
<1> QED BY <1>2 DEF Summable

\* What holds of the empty set, and of any other when it holds of that set
\* without one of its slots, holds of every set of slots.
LEMMA SlotInduction ==
    ASSUME NEW Good, {} \in Good,
           \A s \in SUBSET Slots : s # {} => \E x \in s : s \ {x} \in Good => s \in Good
    PROVE  SUBSET Slots \subseteq Good
<1> DEFINE one == [i \in 0..(QueueSize - 1) |-> 1]
<1>1. PICK size : IsSum(size, one, QueueSize)
  BY QueueAssumption, SumExists
<1>2. size \in [SUBSET Slots -> Nat]
  BY <1>1 DEF IsSum, Slots
<1>3. \A s \in SUBSET Slots : \A x \in s : size[s] = 1 + size[s \ {x}]
  <2> SUFFICES ASSUME NEW s \in SUBSET Slots, NEW x \in s
               PROVE  size[s] = 1 + size[s \ {x}]
    OBVIOUS
  <2>1. size[s] = one[x] + size[s \ {x}]
    BY <1>1 DEF IsSum, Slots
  <2> QED BY <2>1 DEF Slots
<1> HIDE DEF one
<1>4. SUFFICES ASSUME (SUBSET Slots) \ Good # {}
               PROVE  FALSE
  OBVIOUS
<1> DEFINE T == {size[s] : s \in (SUBSET Slots) \ Good}
<1>5. T \subseteq Nat /\ T # {}
  <2>1. \A s \in (SUBSET Slots) \ Good : size[s] \in Nat
    BY <1>2
  <2>2. PICK s \in (SUBSET Slots) \ Good : TRUE
    BY <1>4
  <2>3. size[s] \in T
    BY <2>2
  <2> QED BY <2>1, <2>3
<1>6. PICK m \in T : \A k \in T : m <= k
  <2> HIDE DEF T
  <2> QED BY <1>5, LeastNatural
<1>7. PICK s \in (SUBSET Slots) \ Good : m = size[s]
  OBVIOUS
<1>8. PICK x \in s : s \ {x} \in Good => s \in Good
  <2> HIDE DEF T
  <2>1. s \in SUBSET Slots /\ ~ s \in Good
    OBVIOUS
  <2>2. s # {}
    BY <2>1
  <2> QED BY <2>1, <2>2
<1>9. s \ {x} \in SUBSET Slots /\ ~ s \ {x} \in Good
  <2> HIDE DEF T
  <2>1. s \in SUBSET Slots /\ ~ s \in Good
    OBVIOUS
  <2> QED BY <1>8, <2>1
<1>10. size[s \ {x}] \in T /\ size[s \ {x}] \in Nat /\ size[s] \in Nat
  <2>1. s \ {x} \in (SUBSET Slots) \ Good
    BY <1>9
  <2>2. size[s \ {x}] \in T
    BY <2>1
  <2> HIDE DEF T
  <2> QED BY <1>2, <1>7, <2>1, <2>2
<1>11. size[s] = 1 + size[s \ {x}]
  BY <1>3, <1>7, <1>8
<1>12. m <= size[s \ {x}]
  BY <1>6, <1>10
<1> HIDE DEF T
<1> QED BY <1>7, <1>10, <1>11, <1>12

\* What the recursion that defines Counted goes through.
Step(d, f, s) ==
    IF s = {} THEN 0
    ELSE (1 + d[CHOOSE x \in s : TRUE].skipped) + f[s \ {CHOOSE x \in s : TRUE}]

\* Counted unfolded.
LEMMA CountedUnfolds ==
    ASSUME NEW d, NEW S
    PROVE  Counted(d, S) = (CHOOSE f : f = [s \in SUBSET S |-> Step(d, f, s)])[S]
  BY Zenon DEF Counted, MapThenSumSet, MapThenFoldSet, Step

\* The requests in slots have counted their losses.
Counting(d, S) == \A i \in S : d[i].skipped \in Nat

\* The sum that Counted is, for slots of any number.
LEMMA CountedIsSum ==
    ASSUME NEW d, Counting(d, Slots)
    PROVE  \E g : /\ IsSum(g, [i \in Slots |-> 1 + d[i].skipped], QueueSize)
                  /\ \A S \in SUBSET Slots : Counted(d, S) = g[S]
<1> DEFINE w == [i \in Slots |-> 1 + d[i].skipped]
<1>1. \A i \in 0..(QueueSize - 1) : w[i] \in Nat /\ w[i] = 1 + d[i].skipped
  BY DEF Counting, Slots
<1>2. PICK g : IsSum(g, w, QueueSize)
  <2> HIDE DEF w
  <2> QED BY <1>1, QueueAssumption, SumExists
<1>3. \A s \in SUBSET Slots : \A x \in s : g[s] = (1 + d[x].skipped) + g[s \ {x}]
  <2> SUFFICES ASSUME NEW s \in SUBSET Slots, NEW x \in s
               PROVE  g[s] = (1 + d[x].skipped) + g[s \ {x}]
    OBVIOUS
  <2> HIDE DEF w
  <2>1. x \in 0..(QueueSize - 1)
    BY DEF Slots
  <2>2. g[s] = w[x] + g[s \ {x}]
    BY <1>2 DEF IsSum, Slots
  <2> QED BY <1>1, <2>1, <2>2
<1>4. g[{}] = 0
  BY <1>2 DEF IsSum
<1>5. ASSUME NEW S \in SUBSET Slots
      PROVE  Counted(d, S) = g[S]
  <2> DEFINE F == [s \in SUBSET S |-> g[s]]
             f == CHOOSE h : h = [s \in SUBSET S |-> Step(d, h, s)]
  <2>1. \A s \in SUBSET S : s # {} =>
            /\ (CHOOSE x \in s : TRUE) \in s
            /\ s \ {CHOOSE x \in s : TRUE} \in SUBSET S
    OBVIOUS
  <2>2. \A s \in SUBSET S : F[s] = Step(d, F, s)
    <3> SUFFICES ASSUME NEW s \in SUBSET S
                 PROVE  F[s] = Step(d, F, s)
      OBVIOUS
    <3>1. CASE s = {}
      BY <1>4, <3>1 DEF Step
    <3>2. CASE s # {}
      <4>1. PICK x : x = CHOOSE y \in s : TRUE
        OBVIOUS
      <4>2. x \in s /\ s \ {x} \in SUBSET S /\ s \in SUBSET Slots
        BY <2>1, <3>2, <4>1
      <4>3. g[s] = (1 + d[x].skipped) + g[s \ {x}]
        BY <1>3, <4>2
      <4>4. F[s] = g[s] /\ F[s \ {x}] = g[s \ {x}]
        BY <4>2
      <4> HIDE DEF F
      <4>5. Step(d, F, s) = (1 + d[x].skipped) + F[s \ {x}]
        BY <3>2, <4>1 DEF Step
      <4> QED BY <4>3, <4>4, <4>5
    <3> QED BY <3>1, <3>2
  <2>3. F = [s \in SUBSET S |-> Step(d, F, s)]
    <3>1. F = [s \in SUBSET S |-> F[s]]
      OBVIOUS
    <3> HIDE DEF F
    <3> QED BY <2>2, <3>1
  <2>4. f = [s \in SUBSET S |-> Step(d, f, s)]
    <3> HIDE DEF F
    <3>1. \E h : h = [s \in SUBSET S |-> Step(d, h, s)]
      BY <2>3
    <3> QED BY <3>1, Zenon
  <2>5. Counted(d, S) = f[S]
    BY CountedUnfolds
  <2> HIDE DEF f, F
  <2> DEFINE Good == {s \in SUBSET Slots : s \subseteq S => f[s] = g[s]}
  <2>6. {} \in Good
    BY <1>4, <2>4 DEF Step
  <2>7. \A s \in SUBSET Slots : s # {} => \E x \in s : s \ {x} \in Good => s \in Good
    <3> SUFFICES ASSUME NEW s \in SUBSET Slots, s # {}
                 PROVE  \E x \in s : s \ {x} \in Good => s \in Good
      OBVIOUS
    <3>1. PICK x : x = CHOOSE y \in s : TRUE
      OBVIOUS
    <3>2. x \in s
      BY <3>1
    <3>3. ASSUME s \ {x} \in Good, s \subseteq S
          PROVE  f[s] = g[s]
      <4>1. f[s] = Step(d, f, s)
        BY <2>4, <3>3
      <4>2. f[s] = (1 + d[x].skipped) + f[s \ {x}]
        BY <3>1, <4>1 DEF Step
      <4>3. f[s \ {x}] = g[s \ {x}]
        BY <3>3
      <4>4. g[s] = (1 + d[x].skipped) + g[s \ {x}]
        BY <1>3, <3>2
      <4> QED BY <4>2, <4>3, <4>4
    <3> QED BY <3>2, <3>3
  <2>8. SUBSET Slots \subseteq Good
    <3> HIDE DEF Good
    <3> QED BY <2>6, <2>7, SlotInduction
  <2> QED BY <2>5, <2>8
<1> QED BY <1>2, <1>5

\* Nothing is counted in no slots, and a slot adds its request and what that
\* has counted.
LEMMA CountedSteps ==
    ASSUME NEW d, Counting(d, Slots)
    PROVE  /\ Counted(d, {}) = 0
           /\ \A S \in SUBSET Slots : Counted(d, S) \in Nat
           /\ \A S \in SUBSET Slots : \A x \in S :
                Counted(d, S) = 1 + d[x].skipped + Counted(d, S \ {x})
<1> DEFINE w == [i \in Slots |-> 1 + d[i].skipped]
<1>1. PICK g : /\ IsSum(g, w, QueueSize)
               /\ \A S \in SUBSET Slots : Counted(d, S) = g[S]
  BY CountedIsSum
<1>2. g \in [SUBSET Slots -> Nat] /\ g[{}] = 0
  BY <1>1 DEF IsSum, Slots
<1>3. ASSUME NEW S \in SUBSET Slots, NEW x \in S
      PROVE  Counted(d, S) = 1 + d[x].skipped + Counted(d, S \ {x})
  <2>1. S \ {x} \in SUBSET Slots /\ x \in Slots
    OBVIOUS
  <2>2. w[x] = 1 + d[x].skipped
    BY <2>1
  <2> HIDE DEF w
  <2>3. g[S] = w[x] + g[S \ {x}]
    BY <1>1 DEF IsSum, Slots
  <2> QED BY <1>1, <2>1, <2>2, <2>3
<1>4. \A S \in SUBSET Slots : Counted(d, S) \in Nat
  BY <1>1, <1>2
<1>5. Counted(d, {}) = 0
  BY <1>1, <1>2
<1> QED BY <1>3, <1>4, <1>5

\* Only what the requests in the slots have counted matters.
LEMMA CountedSame ==
    ASSUME NEW d, NEW e, Counting(d, Slots), Counting(e, Slots),
           NEW S \in SUBSET Slots, \A i \in S : d[i].skipped = e[i].skipped
    PROVE  Counted(d, S) = Counted(e, S)
<1> DEFINE Good == {s \in SUBSET Slots : s \subseteq S => Counted(d, s) = Counted(e, s)}
<1>1. {} \in Good
  BY CountedSteps
<1>2. ASSUME NEW s \in SUBSET Slots, s # {}
      PROVE  \E x \in s : s \ {x} \in Good => s \in Good
  <2>1. PICK x \in s : TRUE
    BY <1>2
  <2>2. ASSUME s \ {x} \in Good, s \subseteq S
        PROVE  Counted(d, s) = Counted(e, s)
    <3>1. Counted(d, s \ {x}) = Counted(e, s \ {x}) /\ d[x].skipped = e[x].skipped
      BY <2>2
    <3>2. Counted(d, s) = 1 + d[x].skipped + Counted(d, s \ {x})
      BY CountedSteps
    <3>3. Counted(e, s) = 1 + e[x].skipped + Counted(e, s \ {x})
      BY CountedSteps
    <3> QED BY <3>1, <3>2, <3>3
  <2> QED BY <2>2
<1>3. SUBSET Slots \subseteq Good
  <2> HIDE DEF Good
  <2> QED BY <1>1, <1>2, SlotInduction
<1> QED BY <1>3

\* The slots of two sets that have none in common are counted together.
LEMMA CountedUnion ==
    ASSUME NEW d, Counting(d, Slots),
           NEW S \in SUBSET Slots, NEW R \in SUBSET Slots, S \cap R = {}
    PROVE  Counted(d, S \cup R) = Counted(d, S) + Counted(d, R)
<1> DEFINE Good == {s \in SUBSET Slots :
                      s \subseteq R => Counted(d, S \cup s) = Counted(d, S) + Counted(d, s)}
<1>1. {} \in Good
  <2>1. Counted(d, {}) = 0 /\ Counted(d, S) \in Nat
    BY CountedSteps
  <2>2. S \cup {} = S
    OBVIOUS
  <2> QED BY <2>1, <2>2
<1>2. ASSUME NEW s \in SUBSET Slots, s # {}
      PROVE  \E x \in s : s \ {x} \in Good => s \in Good
  <2>1. PICK x \in s : TRUE
    BY <1>2
  <2>2. ASSUME s \ {x} \in Good, s \subseteq R
        PROVE  Counted(d, S \cup s) = Counted(d, S) + Counted(d, s)
    <3>1. Counted(d, S \cup (s \ {x})) = Counted(d, S) + Counted(d, s \ {x})
      BY <2>2
    <3>2. Counted(d, s) = 1 + d[x].skipped + Counted(d, s \ {x})
      BY CountedSteps
    <3>3. ~ x \in S /\ S \cup s \in SUBSET Slots /\ x \in S \cup s
      BY <2>2
    <3>4. (S \cup s) \ {x} = S \cup (s \ {x})
      BY <3>3
    <3>5. Counted(d, S \cup s) = 1 + d[x].skipped + Counted(d, (S \cup s) \ {x})
      BY <3>3, CountedSteps
    <3>6. /\ Counted(d, S) \in Nat
          /\ Counted(d, s \ {x}) \in Nat
          /\ d[x].skipped \in Nat
      <4>1. s \ {x} \in SUBSET Slots /\ x \in Slots
        OBVIOUS
      <4>2. d[x].skipped \in Nat
        BY <4>1 DEF Counting
      <4> QED BY <4>1, <4>2, CountedSteps
    <3>7. Counted(d, S \cup s) = 1 + d[x].skipped + Counted(d, S \cup (s \ {x}))
      BY <3>4, <3>5, Zenon
    <3> HIDE DEF Good
    <3> QED BY <3>1, <3>2, <3>6, <3>7
  <2> QED BY <2>2
<1>3. SUBSET Slots \subseteq Good
  <2> HIDE DEF Good
  <2> QED BY <1>1, <1>2, SlotInduction
<1> QED BY <1>3

-----------------------------------------------------------------------------
(* The ring                                                                *)

\* A division with remainder, for any divisor.
LEMMA Division ==
    ASSUME NEW a \in Int, NEW d \in Nat, d > 0
    PROVE  /\ a \div d \in Int
           /\ a % d \in 0..d-1
           /\ a = d * (a \div d) + (a % d)
  BY SMT

\* Products are monotonic.
LEMMA Product ==
    ASSUME NEW a \in Int, NEW b \in Int, NEW c \in Nat, a <= b
    PROVE  c * a <= c * b /\ c * a \in Int /\ c * b \in Int
  BY SMT

\* A number near the ring is brought into it by its size, added or taken once.
LEMMA WrapOnce ==
    ASSUME NEW x \in Int, - QueueSize <= x, x < 2 * QueueSize
    PROVE  x % QueueSize = IF x < 0 THEN x + QueueSize
                           ELSE IF x < QueueSize THEN x ELSE x - QueueSize
<1>1. QueueSize \in Nat /\ QueueSize > 0
  BY QueueAssumption
<1>2. PICK q \in Int, r \in 0..QueueSize-1 :
          q = x \div QueueSize /\ r = x % QueueSize /\ x = QueueSize * q + r
  BY <1>1, Division
<1>3. q <= 1
  <2> SUFFICES ASSUME 2 <= q
               PROVE  FALSE
    OBVIOUS
  <2>1. QueueSize * 2 <= QueueSize * q /\ QueueSize * q \in Int
    BY <1>1, Product
  <2> QED BY <1>1, <1>2, <2>1
<1>4. -1 <= q
  <2> SUFFICES ASSUME q <= -2
               PROVE  FALSE
    OBVIOUS
  <2>1. QueueSize * q <= QueueSize * (-2) /\ QueueSize * q \in Int
    BY <1>1, Product
  <2> QED BY <1>1, <1>2, <2>1
<1>5. CASE q = 0
  BY <1>1, <1>2, <1>5
<1>6. CASE q = 1
  BY <1>1, <1>2, <1>6
<1>7. CASE q = -1
  BY <1>1, <1>2, <1>7
<1> QED BY <1>3, <1>4, <1>5, <1>6, <1>7

\* How far the head of a ring is from its tail, and the k-th slot after a tail.
Span(h, t) == (h - t) % QueueSize
Place(t, k) == (t + k - 1) % QueueSize
Window(h, t) == {Place(t, k) : k \in 1..Span(h, t)}

\* The distance without a division.
LEMMA SpanForm ==
    ASSUME NEW h \in Slots, NEW t \in Slots
    PROVE  /\ Span(h, t) = IF h < t THEN h - t + QueueSize ELSE h - t
           /\ Span(h, t) \in 0..(QueueSize - 1)
<1>1. QueueSize \in Nat /\ h \in Nat /\ t \in Nat /\ h < QueueSize /\ t < QueueSize
  BY QueueAssumption DEF Slots
<1>2. h - t \in Int /\ - QueueSize <= h - t /\ h - t < 2 * QueueSize
  BY <1>1
<1>3. (h - t) % QueueSize = IF h - t < 0 THEN h - t + QueueSize
                            ELSE IF h - t < QueueSize THEN h - t ELSE h - t - QueueSize
  BY <1>2, WrapOnce
<1>4. Span(h, t) = (h - t) % QueueSize
  BY DEF Span
<1> QED BY <1>1, <1>3, <1>4

\* The place without a division.
LEMMA PlaceForm ==
    ASSUME NEW t \in Slots, NEW k \in 1..QueueSize
    PROVE  /\ Place(t, k) = IF t + k - 1 < QueueSize THEN t + k - 1 ELSE t + k - 1 - QueueSize
           /\ Place(t, k) \in Slots
<1>1. QueueSize \in Nat /\ t \in Nat /\ t < QueueSize
  BY QueueAssumption DEF Slots
<1>2. t + k - 1 \in Int /\ 0 <= t + k - 1 /\ t + k - 1 < 2 * QueueSize
  BY <1>1
<1>3. (t + k - 1) % QueueSize =
          IF t + k - 1 < 0 THEN t + k - 1 + QueueSize
          ELSE IF t + k - 1 < QueueSize THEN t + k - 1 ELSE t + k - 1 - QueueSize
  BY <1>1, <1>2, WrapOnce
<1>4. Place(t, k) = (t + k - 1) % QueueSize
  BY DEF Place
<1>5. Place(t, k) = IF t + k - 1 < QueueSize THEN t + k - 1 ELSE t + k - 1 - QueueSize
  BY <1>2, <1>3, <1>4
<1>6. Place(t, k) \in 0..(QueueSize - 1)
  BY <1>1, <1>2, <1>5
<1> QED BY <1>5, <1>6 DEF Slots

\* The next slot without a division.
LEMMA NextForm ==
    ASSUME NEW i \in Slots
    PROVE  /\ NextSlot(i) = IF i + 1 < QueueSize THEN i + 1 ELSE 0
           /\ NextSlot(i) \in Slots
<1>1. QueueSize \in Nat /\ i \in Nat /\ i < QueueSize /\ 1 < QueueSize
  BY QueueAssumption DEF Slots
<1>2. i + 1 \in Int /\ - QueueSize <= i + 1 /\ i + 1 < 2 * QueueSize
  BY <1>1
<1>3. (i + 1) % QueueSize =
          IF i + 1 < 0 THEN i + 1 + QueueSize
          ELSE IF i + 1 < QueueSize THEN i + 1 ELSE i + 1 - QueueSize
  <2>1. PICK x \in Int : x = i + 1
    BY <1>2
  <2>2. x % QueueSize = IF x < 0 THEN x + QueueSize
                        ELSE IF x < QueueSize THEN x ELSE x - QueueSize
    BY <1>2, <2>1, WrapOnce
  <2> QED BY <1>1, <2>1, <2>2
<1>4. NextSlot(i) = IF i + 1 < QueueSize THEN i + 1 ELSE 0
  BY <1>1, <1>3 DEF NextSlot
<1>5. NextSlot(i) \in 0..(QueueSize - 1)
  BY <1>1, <1>4
<1> QED BY <1>4, <1>5 DEF Slots

\* Different places are different slots; the first is the tail, and the one
\* after the last is the head.
LEMMA PlacesDiffer ==
    ASSUME NEW h \in Slots, NEW t \in Slots
    PROVE  /\ \A j, k \in 1..QueueSize : Place(t, j) = Place(t, k) => j = k
           /\ Place(t, 1) = t
           /\ Place(t, Span(h, t) + 1) = h
           /\ NextSlot(h) = t <=> Span(h, t) = QueueSize - 1
<1>1. /\ QueueSize \in Nat /\ h \in Nat /\ t \in Nat
      /\ h < QueueSize /\ t < QueueSize /\ 1 < QueueSize
  BY QueueAssumption DEF Slots
<1>2. /\ Span(h, t) = IF h < t THEN h - t + QueueSize ELSE h - t
      /\ Span(h, t) \in 0..(QueueSize - 1)
  BY SpanForm
<1>3. \A k \in 1..QueueSize :
          Place(t, k) = IF t + k - 1 < QueueSize THEN t + k - 1 ELSE t + k - 1 - QueueSize
  BY PlaceForm
<1>4. ASSUME NEW j \in 1..QueueSize, NEW k \in 1..QueueSize, Place(t, j) = Place(t, k)
      PROVE  j = k
  BY <1>1, <1>3, <1>4
<1>5. Place(t, 1) = t
  <2>1. 1 \in 1..QueueSize
    BY <1>1
  <2> QED BY <1>1, <1>3, <2>1
<1>6. Place(t, Span(h, t) + 1) = h
  <2>1. Span(h, t) + 1 \in 1..QueueSize
    BY <1>1, <1>2
  <2> QED BY <1>1, <1>2, <1>3, <2>1
<1>7. NextSlot(h) = IF h + 1 < QueueSize THEN h + 1 ELSE 0
  BY NextForm
<1>8. NextSlot(h) = t <=> Span(h, t) = QueueSize - 1
  BY <1>1, <1>2, <1>7
<1> QED BY <1>4, <1>5, <1>6, <1>8

\* A tail that has moved by n: what is nearer, and what follows.
LEMMA TailMoves ==
    ASSUME NEW h \in Slots, NEW t \in Slots, NEW n \in 0..Span(h, t)
    PROVE  LET u == (t + n) % QueueSize
           IN  /\ u \in Slots
               /\ Span(h, u) = Span(h, t) - n
               /\ \A k \in 1..(QueueSize - n) : Place(u, k) = Place(t, k + n)
<1> DEFINE u == (t + n) % QueueSize
<1>1. QueueSize \in Nat /\ h \in Nat /\ t \in Nat /\ h < QueueSize /\ t < QueueSize
  BY QueueAssumption DEF Slots
<1>2. /\ Span(h, t) = IF h < t THEN h - t + QueueSize ELSE h - t
      /\ Span(h, t) \in 0..(QueueSize - 1)
  BY SpanForm
<1>3. n \in Nat /\ n <= Span(h, t)
  BY <1>2
<1>4. t + n \in Int /\ - QueueSize <= t + n /\ t + n < 2 * QueueSize
  BY <1>1, <1>2, <1>3
<1>5. u = IF t + n < 0 THEN t + n + QueueSize
          ELSE IF t + n < QueueSize THEN t + n ELSE t + n - QueueSize
  <2>1. PICK x \in Int : x = t + n
    BY <1>4
  <2>2. x % QueueSize = IF x < 0 THEN x + QueueSize
                        ELSE IF x < QueueSize THEN x ELSE x - QueueSize
    BY <1>4, <2>1, WrapOnce
  <2> QED BY <1>1, <2>1, <2>2
<1>6. u = IF t + n < QueueSize THEN t + n ELSE t + n - QueueSize
  BY <1>1, <1>3, <1>5
<1> HIDE DEF u
<1>7. u \in Slots
  <2>1. u \in 0..(QueueSize - 1)
    BY <1>1, <1>3, <1>4, <1>6
  <2> QED BY <2>1 DEF Slots
<1>8. Span(h, u) = IF h < u THEN h - u + QueueSize ELSE h - u
  BY <1>7, SpanForm
<1>9. Span(h, u) = Span(h, t) - n
  BY <1>1, <1>2, <1>3, <1>6, <1>8
<1>10. ASSUME NEW k \in 1..(QueueSize - n)
       PROVE  Place(u, k) = Place(t, k + n)
  <2>1. k \in 1..QueueSize /\ k + n \in 1..QueueSize
    BY <1>1, <1>3
  <2>2. Place(u, k) = IF u + k - 1 < QueueSize THEN u + k - 1 ELSE u + k - 1 - QueueSize
    BY <1>7, <2>1, PlaceForm
  <2>3. Place(t, k + n) = IF t + (k + n) - 1 < QueueSize THEN t + (k + n) - 1
                          ELSE t + (k + n) - 1 - QueueSize
    BY <2>1, PlaceForm
  <2> QED BY <1>1, <1>2, <1>3, <1>6, <2>1, <2>2, <2>3
<1> QED BY <1>7, <1>9, <1>10 DEF u

\* A head that has moved by one.
LEMMA HeadMoves ==
    ASSUME NEW h \in Slots, NEW t \in Slots, NextSlot(h) # t
    PROVE  Span(NextSlot(h), t) = Span(h, t) + 1
<1>1. QueueSize \in Nat /\ h \in Nat /\ t \in Nat /\ h < QueueSize /\ t < QueueSize
  BY QueueAssumption DEF Slots
<1>2. Span(h, t) = IF h < t THEN h - t + QueueSize ELSE h - t
  BY SpanForm
<1>3. NextSlot(h) = (IF h + 1 < QueueSize THEN h + 1 ELSE 0) /\ NextSlot(h) \in Slots
  BY NextForm
<1>4. Span(NextSlot(h), t) = IF NextSlot(h) < t THEN NextSlot(h) - t + QueueSize
                             ELSE NextSlot(h) - t
  BY <1>3, SpanForm
<1> QED BY <1>1, <1>2, <1>3, <1>4

\* The head is not in the window.
LEMMA HeadIsOutside ==
    ASSUME NEW h \in Slots, NEW t \in Slots
    PROVE  Window(h, t) \subseteq Slots /\ ~ h \in Window(h, t)
<1>1. Span(h, t) \in 0..(QueueSize - 1) /\ QueueSize \in Nat
  BY SpanForm, QueueAssumption
<1>2. Place(t, Span(h, t) + 1) = h
  BY PlacesDiffer
<1>3. \A j, k \in 1..QueueSize : Place(t, j) = Place(t, k) => j = k
  BY PlacesDiffer
<1>4. Window(h, t) \subseteq Slots
  <2> SUFFICES ASSUME NEW k \in 1..Span(h, t)
               PROVE  Place(t, k) \in Slots
    BY DEF Window
  <2>1. k \in 1..QueueSize
    BY <1>1
  <2> QED BY <2>1, PlaceForm
<1>5. ASSUME NEW k \in 1..Span(h, t), h = Place(t, k)
      PROVE  FALSE
  <2>1. k \in 1..QueueSize /\ Span(h, t) + 1 \in 1..QueueSize
    BY <1>1
  <2>2. k = Span(h, t) + 1
    BY <1>2, <1>3, <1>5, <2>1
  <2> QED BY <1>1, <2>2
<1> QED BY <1>4, <1>5 DEF Window

\* A window that grows.
LEMMA WindowGrows ==
    ASSUME NEW h \in Slots, NEW t \in Slots, NextSlot(h) # t
    PROVE  Window(NextSlot(h), t) = Window(h, t) \cup {h}
<1>1. Span(h, t) \in 0..(QueueSize - 1) /\ QueueSize \in Nat
  BY SpanForm, QueueAssumption
<1>2. Place(t, Span(h, t) + 1) = h
  BY PlacesDiffer
<1>3. Span(NextSlot(h), t) = Span(h, t) + 1
  BY HeadMoves
<1>4. 1..(Span(h, t) + 1) = 1..Span(h, t) \cup {Span(h, t) + 1}
  BY <1>1
<1> QED BY <1>2, <1>3, <1>4 DEF Window

\* A window whose first n places are given up.
LEMMA WindowShrinks ==
    ASSUME NEW h \in Slots, NEW t \in Slots, NEW n \in 0..Span(h, t)
    PROVE  /\ {Place(t, k) : k \in 1..n} \subseteq Window(h, t)
           /\ Window(h, (t + n) % QueueSize) = Window(h, t) \ {Place(t, k) : k \in 1..n}
<1> DEFINE u == (t + n) % QueueSize
           Read == {Place(t, k) : k \in 1..n}
<1>1. Span(h, t) \in 0..(QueueSize - 1) /\ QueueSize \in Nat
  BY SpanForm, QueueAssumption
<1>2. n \in Nat /\ n <= Span(h, t)
  BY <1>1
<1>3. /\ u \in Slots
      /\ Span(h, u) = Span(h, t) - n
      /\ \A k \in 1..(QueueSize - n) : Place(u, k) = Place(t, k + n)
  BY TailMoves
<1>4. \A j, k \in 1..QueueSize : Place(t, j) = Place(t, k) => j = k
  BY PlacesDiffer
<1> HIDE DEF u
<1>5. Read \subseteq Window(h, t)
  <2>1. 1..n \subseteq 1..Span(h, t)
    BY <1>1, <1>2
  <2> QED BY <2>1 DEF Window
<1>6. ASSUME NEW i \in Window(h, u)
      PROVE  i \in Window(h, t) \ Read
  <2>1. PICK k \in 1..Span(h, u) : i = Place(u, k)
    BY DEF Window
  <2>2. k \in 1..(QueueSize - n) /\ k + n \in 1..Span(h, t) /\ k + n \in 1..QueueSize
    BY <1>1, <1>2, <1>3
  <2>3. i = Place(t, k + n)
    BY <1>3, <2>1, <2>2
  <2>4. ASSUME NEW j \in 1..n, i = Place(t, j)
        PROVE  FALSE
    <3>1. j \in 1..QueueSize
      BY <1>1, <1>2
    <3>2. j = k + n
      BY <1>4, <2>2, <2>3, <2>4, <3>1
    <3> QED BY <1>2, <3>2
  <2>5. i \in Window(h, t)
    BY <2>2, <2>3 DEF Window
  <2> QED BY <2>4, <2>5
<1>7. ASSUME NEW i \in Window(h, t) \ Read
      PROVE  i \in Window(h, u)
  <2>1. PICK k \in 1..Span(h, t) : i = Place(t, k)
    BY DEF Window
  <2>2. ~ k \in 1..n
    BY <2>1
  <2>3. k - n \in 1..Span(h, u) /\ k - n \in 1..(QueueSize - n) /\ k - n + n = k
    BY <1>1, <1>2, <1>3, <2>2
  <2>4. i = Place(u, k - n)
    BY <1>3, <2>1, <2>3
  <2> QED BY <2>3, <2>4 DEF Window
<1>8. Window(h, u) = Window(h, t) \ Read
  <2> HIDE DEF Read
  <2> QED BY <1>6, <1>7
<1> QED BY <1>5, <1>8 DEF u

\* The types of the ring and of what reads it.
RingTypes ==
    /\ data \in [Slots -> Request]
    /\ head \in Slots /\ tail \in Slots
    /\ heap \subseteq (1..MaxRequests) \X {"pname", "sid"}
    /\ {logged, reported, lastRead} \subseteq 0..MaxRequests
    /\ {freedTwice, fresh, event, signalled, gotLog, unloaded} \subseteq BOOLEAN

\* The request that is k-th in the queue.
Queue(k) == data[SlotAt(k)]

\* What is queued are requests of processes, in the order of their numbers,
\* which are those after the last that was read.
RequestsInOrder ==
    /\ lastRead <= logged
    /\ \A k \in 1..Length :
         /\ lastRead < Queue(k).id /\ Queue(k).id <= logged
         /\ Queue(k).pid \in Pids
         /\ \A j \in 1..(k - 1) : Queue(j).id < Queue(k).id

RingInv == RingTypes /\ RequestsInOrder /\ LossesAreCounted /\ MemoryIsOwned

\* The types of the rest.
PlaceTypes ==
    /\ plist \in Seq([pid : Pids, pname : BOOLEAN, event : Threads \cup {NoThread}])
    /\ alive \in [Pids -> BOOLEAN]
    /\ pc \in [Threads -> {"idle", "enter", "add", "log", "test", "set", "wait", "leave",
                           "addnull"}]
    /\ woken \in [Threads -> BOOLEAN]
    /\ asked \in [Threads -> Lost..MaxRequests]
    /\ creates \in [Pids -> 0..2]
    /\ app \in {"closed", "opening", "idle", "reading", "closing"}
    /\ answers \subseteq [id : 1..MaxRequests, pid : Pids]
    /\ adding \in Pids \cup {NoPid}

\* The driver is unloaded when nobody uses it, and there is an event only
\* while the application has the device open.
AppInv ==
    /\ unloaded => app = "closed" /\ \A t \in Threads : pc[t] = "idle"
    /\ event => app \in {"opening", "idle", "reading"}
    /\ app \in {"opening", "idle"} /\ event /\ fresh /\ Length > 0
         => signalled \/ \E t \in Threads : pc[t] \in {"test", "set"}

Inv == RingInv /\ PlaceTypes /\ AppInv

-----------------------------------------------------------------------------
(* What is in the ring                                                     *)

\* The queue in terms of places.
LEMMA QueueIsWindow ==
    /\ Length = Span(head, tail) /\ Queued = Window(head, tail)
    /\ \A k : SlotAt(k) = Place(tail, k) /\ Queue(k) = data[Place(tail, k)]
  BY DEF Length, Span, Queued, Window, SlotAt, Place, Queue

\* And after a step.
LEMMA NextQueueIsWindow ==
    /\ Length' = Span(head', tail') /\ Queued' = Window(head', tail')
    /\ \A k : SlotAt(k)' = Place(tail', k) /\ Queue(k)' = data'[Place(tail', k)]
  BY DEF Length, Span, Queued, Window, SlotAt, Place, Queue

\* The queue has some length, and its requests their types.
LEMMA QueueTypes ==
    ASSUME RingTypes
    PROVE  /\ Length \in 0..(QueueSize - 1)
           /\ Queued \subseteq Slots
           /\ \A k \in 1..QueueSize : SlotAt(k) \in Slots /\ Queue(k) \in Request
           /\ Counting(data, Slots)
<1>1. head \in Slots /\ tail \in Slots /\ data \in [Slots -> Request]
  BY DEF RingTypes
<1>2. Length \in 0..(QueueSize - 1)
  BY <1>1, QueueIsWindow, SpanForm
<1>3. Queued \subseteq Slots
  BY <1>1, QueueIsWindow, HeadIsOutside
<1>4. \A k \in 1..QueueSize : SlotAt(k) \in Slots
  BY <1>1, QueueIsWindow, PlaceForm
<1>5. Counting(data, Slots)
  BY <1>1, QueueAssumption DEF Counting, Request
<1> QED BY <1>1, <1>2, <1>3, <1>4, <1>5 DEF Queue

\* The numbers of queued requests are some, and all different.
LEMMA QueuedFacts ==
    ASSUME RingTypes, RequestsInOrder
    PROVE  /\ \A i \in Queued : data[i].id \in 1..MaxRequests /\ data[i].pid \in Pids
           /\ \A i, j \in Queued : i # j => data[i].id # data[j].id
<1>1. /\ Length \in 0..(QueueSize - 1) /\ QueueSize \in Nat
      /\ \A k \in 1..QueueSize : Queue(k) \in Request
  BY QueueTypes, QueueAssumption
<1>2. /\ \A k \in 1..Length : lastRead < Queue(k).id /\ Queue(k).id <= logged
      /\ \A k \in 1..Length : Queue(k).pid \in Pids
      /\ \A k \in 1..Length : \A j \in 1..(k - 1) : Queue(j).id < Queue(k).id
  BY DEF RequestsInOrder
<1>3. lastRead \in Nat /\ logged \in Nat /\ logged <= MaxRequests /\ MaxRequests \in Nat
  BY QueueAssumption DEF RingTypes
<1>4. \A k \in 1..Length : Queue(k).id \in Nat
  BY <1>1 DEF Request
<1>5. \A i \in Queued : \E k \in 1..Length : data[i] = Queue(k) /\ i = SlotAt(k)
  BY DEF Queued, Queue
<1>6. ASSUME NEW i \in Queued
      PROVE  data[i].id \in 1..MaxRequests /\ data[i].pid \in Pids
  <2>1. PICK k \in 1..Length : data[i] = Queue(k)
    BY <1>5
  <2> QED BY <1>2, <1>3, <1>4, <2>1
<1>7. ASSUME NEW i \in Queued, NEW j \in Queued, i # j
      PROVE  data[i].id # data[j].id
  <2>1. PICK k \in 1..Length : data[i] = Queue(k) /\ i = SlotAt(k)
    BY <1>5
  <2>2. PICK l \in 1..Length : data[j] = Queue(l) /\ j = SlotAt(l)
    BY <1>5
  <2>3. k \in 1..(l - 1) \/ l \in 1..(k - 1)
    BY <1>1, <1>7, <2>1, <2>2
  <2> QED BY <1>2, <1>4, <2>1, <2>2, <2>3
<1> QED BY <1>6, <1>7

\* What a request points to has its number.
LEMMA MemoryHasNumber == \A r : \A m \in Memory(r) : m[1] = r.id
  BY DEF Memory

\* The memory of the requests in some slots.
Owned(d, S) == UNION {Memory(d[i]) : i \in S}

\* The requests in some slots have different numbers.
Apart(d, S) == \A i \in S : \A j \in S : i # j => d[i].id # d[j].id

\* The memory of slots with different numbers is of one of them or the other.
LEMMA OwnedApart ==
    ASSUME NEW d, NEW S, NEW R, R \subseteq S, Apart(d, S)
    PROVE  Owned(d, S) \ Owned(d, R) = Owned(d, S \ R)
<1>1. ASSUME NEW m \in Owned(d, S \ R)
      PROVE  m \in Owned(d, S) \ Owned(d, R)
  <2>1. PICK i \in S \ R : m \in Memory(d[i])
    BY DEF Owned
  <2>2. m \in Owned(d, S)
    BY <2>1 DEF Owned
  <2>3. ASSUME NEW j \in R, m \in Memory(d[j])
        PROVE  FALSE
    <3>1. d[i].id = d[j].id
      BY <2>1, <2>3, MemoryHasNumber
    <3> QED BY <2>1, <3>1 DEF Apart
  <2> QED BY <2>2, <2>3 DEF Owned
<1>2. ASSUME NEW m \in Owned(d, S) \ Owned(d, R)
      PROVE  m \in Owned(d, S \ R)
  <2>1. PICK i \in S : m \in Memory(d[i])
    BY DEF Owned
  <2>2. ~ i \in R
    BY <2>1 DEF Owned
  <2> QED BY <2>1, <2>2 DEF Owned
<1> QED BY <1>1, <1>2

-----------------------------------------------------------------------------
(* A request is logged                                                     *)

\* The request that log_request puts in the ring.
NewRequest(pid, resolve, sid, named) ==
    [id |-> logged + 1, pid |-> pid, resolve |-> resolve, pname |-> named, sid |-> sid,
     skipped |-> IF NextSlot(head) = tail THEN data[tail].skipped + 1 ELSE 0]

\* The queue has moved on by d, 0 or 1, and r is at its end.
Pushed(d, r) ==
    /\ d \in {0, 1} /\ d <= Length
    /\ Length' = Length + 1 - d /\ Length' >= 1
    /\ \A k \in 1..Length' : Queue(k)' = IF k = Length' THEN r ELSE Queue(k + d)
    /\ Loses = IF d = 1 THEN {Queue(1).id} ELSE {}

\* What log_request does to the queue.
LEMMA LogPushes ==
    ASSUME RingTypes, NEW pid, NEW resolve, NEW sid, NEW named,
           LogRequest(pid, resolve, sid, named)
    PROVE  /\ head' \in Slots /\ tail' \in Slots
           /\ data' = [data EXCEPT ![head] = NewRequest(pid, resolve, sid, named)]
           /\ \E d \in {0, 1} : Pushed(d, NewRequest(pid, resolve, sid, named))
<1> DEFINE r == NewRequest(pid, resolve, sid, named)
<1>1. head \in Slots /\ tail \in Slots /\ data \in [Slots -> Request]
  BY DEF RingTypes
<1>2. /\ data' = [data EXCEPT ![head] = r]
      /\ head' = NextSlot(head)
      /\ tail' = IF NextSlot(head) = tail THEN NextSlot(tail) ELSE tail
  BY Zenon DEF LogRequest, NewRequest
<1>3. head' \in Slots /\ tail' \in Slots
  BY <1>1, <1>2, NextForm
<1>4. /\ \A i \in Slots : i # head => data'[i] = data[i]
      /\ data'[head] = r
  BY <1>1, <1>2
<1> HIDE DEF r
<1>5. /\ Length \in 0..(QueueSize - 1) /\ QueueSize \in Nat
      /\ \A j, k \in 1..QueueSize : Place(tail, j) = Place(tail, k) => j = k
      /\ Place(tail, Length + 1) = head /\ Place(tail, 1) = tail
      /\ NextSlot(head) = tail <=> Length = QueueSize - 1
      /\ 1 < QueueSize
  BY <1>1, PlacesDiffer, QueueTypes, QueueIsWindow, QueueAssumption
<1>6. CASE NextSlot(head) # tail
  <2>1. tail' = tail /\ Length' = Length + 1
    BY <1>1, <1>2, <1>6, HeadMoves, QueueIsWindow, NextQueueIsWindow
  <2>2. ASSUME NEW k \in 1..Length'
        PROVE  Queue(k)' = IF k = Length' THEN r ELSE Queue(k + 0)
    <3>1. k \in 1..QueueSize /\ k + 0 = k /\ Length + 1 \in 1..QueueSize
      BY <1>5, <2>1
    <3>2. Queue(k)' = data'[Place(tail, k)] /\ Queue(k) = data[Place(tail, k)]
      BY <2>1, QueueIsWindow, NextQueueIsWindow
    <3>3. CASE k = Length'
      BY <1>4, <1>5, <2>1, <3>2, <3>3
    <3>4. CASE k # Length'
      <4>1. Place(tail, k) # head /\ Place(tail, k) \in Slots
        BY <1>1, <1>5, <2>1, <3>1, <3>4, PlaceForm
      <4>2. Queue(k)' = Queue(k)
        BY <1>4, <3>2, <4>1
      <4> QED BY <3>1, <3>4, <4>2
    <3> QED BY <3>3, <3>4
  <2>3. Loses = {}
    BY <1>6 DEF Loses
  <2>4. Pushed(0, r)
    BY <1>5, <2>1, <2>2, <2>3 DEF Pushed
  <2> QED BY <1>2, <1>3, <2>4 DEF r
<1>7. CASE NextSlot(head) = tail
  <2>1. head' = tail /\ tail' = (tail + 1) % QueueSize
    BY <1>2, <1>7 DEF NextSlot
  <2>2. Length = QueueSize - 1 /\ 1 \in 0..Span(head, tail)
    BY <1>5, <1>7, QueueIsWindow
  <2>3. Span(head, tail') = Length - 1
    BY <1>1, <2>1, <2>2, TailMoves, QueueIsWindow
  <2>4. \A k \in 1..(QueueSize - 1) : Place(tail', k) = Place(tail, k + 1)
    BY <1>1, <2>1, <2>2, TailMoves
  <2>5. NextSlot(head) # tail'
    <3>1. tail' = NextSlot(tail)
      BY <1>2, <1>7
    <3>2. NextSlot(tail) = IF tail + 1 < QueueSize THEN tail + 1 ELSE 0
      BY <1>1, NextForm
    <3>3. tail \in Nat
      BY <1>1 DEF Slots
    <3> QED BY <1>5, <1>7, <3>1, <3>2, <3>3
  <2>6. Length' = Length
    <3>1. Span(NextSlot(head), tail') = Span(head, tail') + 1
      BY <1>1, <1>3, <2>5, HeadMoves
    <3> QED BY <1>2, <1>5, <2>2, <2>3, <3>1, NextQueueIsWindow
  <2>7. ASSUME NEW k \in 1..Length'
        PROVE  Queue(k)' = IF k = Length' THEN r ELSE Queue(k + 1)
    <3>1. k \in 1..(QueueSize - 1) /\ k + 1 \in 1..QueueSize
      BY <1>5, <2>2, <2>6
    <3>2. /\ Queue(k)' = data'[Place(tail, k + 1)]
          /\ Queue(k + 1) = data[Place(tail, k + 1)]
      BY <2>4, <3>1, QueueIsWindow, NextQueueIsWindow
    <3>3. CASE k = Length'
      BY <1>4, <1>5, <2>6, <3>2, <3>3
    <3>4. CASE k # Length'
      <4>1. Place(tail, k + 1) # head
        <5>1. Length + 1 \in 1..QueueSize /\ k + 1 # Length + 1
          BY <1>5, <2>2, <2>6, <3>1, <3>4
        <5> QED BY <1>5, <3>1, <5>1
      <4>2. Place(tail, k + 1) \in Slots
        BY <1>1, <3>1, PlaceForm
      <4> QED BY <1>4, <3>2, <3>4, <4>1, <4>2
    <3> QED BY <3>3, <3>4
  <2>8. Loses = {Queue(1).id}
    BY <1>5, <1>7, QueueIsWindow DEF Loses
  <2>9. Pushed(1, r)
    BY <1>5, <2>2, <2>6, <2>7, <2>8 DEF Pushed
  <2> QED BY <1>2, <1>3, <2>9 DEF r
<1> QED BY <1>6, <1>7

\* The slots that are queued afterwards.
LEMMA LogQueues ==
    ASSUME RingTypes, NEW pid, NEW resolve, NEW sid, NEW named,
           LogRequest(pid, resolve, sid, named)
    PROVE  /\ ~ head \in Queued
           /\ NextSlot(head) = tail => tail \in Queued
           /\ Queued' = (Queued \ (IF NextSlot(head) = tail THEN {tail} ELSE {})) \cup {head}
<1>1. head \in Slots /\ tail \in Slots /\ 1 < QueueSize /\ QueueSize \in Nat
  BY QueueAssumption DEF RingTypes
<1>2. /\ head' = NextSlot(head)
      /\ tail' = IF NextSlot(head) = tail THEN NextSlot(tail) ELSE tail
  BY DEF LogRequest
<1>3. ~ head \in Queued
  BY <1>1, HeadIsOutside, QueueIsWindow
<1>4. CASE NextSlot(head) # tail
  <2>1. Queued' = Window(NextSlot(head), tail)
    BY <1>2, <1>4, NextQueueIsWindow
  <2>2. Queued' = Queued \cup {head}
    BY <1>1, <1>4, <2>1, WindowGrows, QueueIsWindow
  <2> QED BY <1>3, <1>4, <2>2
<1>5. CASE NextSlot(head) = tail
  <2>1. Span(head, tail) = QueueSize - 1 /\ 1 \in 0..Span(head, tail) /\ Place(tail, 1) = tail
    BY <1>1, <1>5, PlacesDiffer
  <2>2. {Place(tail, k) : k \in 1..1} = {tail}
    BY <2>1
  <2>3. tail' = (tail + 1) % QueueSize
    BY <1>2, <1>5 DEF NextSlot
  <2>4. tail \in Window(head, tail) /\ Window(head, tail') = Window(head, tail) \ {tail}
    BY <1>1, <2>1, <2>2, <2>3, WindowShrinks
  <2>5. tail' \in Slots /\ NextSlot(head) # tail'
    <3>1. tail' = NextSlot(tail)
      BY <1>2, <1>5
    <3>2. NextSlot(tail) = (IF tail + 1 < QueueSize THEN tail + 1 ELSE 0) /\ NextSlot(tail) \in Slots
      BY <1>1, NextForm
    <3>3. tail \in Nat
      BY <1>1 DEF Slots
    <3> QED BY <1>1, <1>5, <3>1, <3>2, <3>3
  <2>6. Queued' = Window(head, tail') \cup {head}
    BY <1>1, <1>2, <2>5, WindowGrows, NextQueueIsWindow
  <2> QED BY <1>3, <1>5, <2>4, <2>6, QueueIsWindow
<1> QED BY <1>3, <1>4, <1>5

\* The requests are still those that are read or counted.
LEMMA LogCounts ==
    ASSUME RingTypes, LossesAreCounted, NEW pid, NEW resolve, NEW sid, NEW named,
           LogRequest(pid, resolve, sid, named)
    PROVE  /\ LossesAreCounted'
           /\ NewRequest(pid, resolve, sid, named).skipped \in 0..MaxRequests
<1> DEFINE r == NewRequest(pid, resolve, sid, named)
           full == NextSlot(head) = tail
           kept == Queued \ (IF full THEN {tail} ELSE {})
<1>1. /\ head \in Slots /\ tail \in Slots /\ data \in [Slots -> Request]
      /\ reported \in 0..MaxRequests /\ logged \in 0..MaxRequests /\ MaxRequests \in Nat
      /\ Queued \subseteq Slots /\ Counting(data, Slots)
  BY QueueTypes, QueueAssumption DEF RingTypes
<1>2. /\ logged < MaxRequests /\ logged' = logged + 1 /\ reported' = reported
      /\ data' = [data EXCEPT ![head] = r]
  BY Zenon DEF LogRequest, NewRequest, reader
<1>3. /\ ~ head \in Queued
      /\ full => tail \in Queued
      /\ Queued' = kept \cup {head}
  BY LogQueues
<1>4. r.skipped = IF full THEN data[tail].skipped + 1 ELSE 0
  BY DEF NewRequest
<1> HIDE DEF r
<1>5. logged = reported + Counted(data, Queued)
  BY DEF LossesAreCounted
<1>6. /\ kept \in SUBSET Slots /\ ~ head \in kept
      /\ Queued' \in SUBSET Slots /\ Queued \in SUBSET Slots
      /\ head \in Queued' /\ Queued' \ {head} = kept
  BY <1>1, <1>3
<1>7. data[tail].skipped \in Nat /\ Counted(data, kept) \in Nat
  BY <1>1, <1>6, CountedSteps DEF Counting
<1>8. Counted(data, Queued) = Counted(data, kept) + r.skipped
  <2>1. CASE full
    <3>1. kept = Queued \ {tail}
      BY <2>1
    <3>2. Counted(data, Queued) = 1 + data[tail].skipped + Counted(data, Queued \ {tail})
      BY <1>1, <1>3, <1>6, <2>1, CountedSteps
    <3> QED BY <1>4, <1>7, <2>1, <3>1, <3>2
  <2>2. CASE ~ full
    <3>1. kept = Queued
      BY <2>2
    <3> QED BY <1>4, <1>7, <2>2, <3>1
  <2> QED BY <2>1, <2>2
<1>9. r.skipped \in 0..MaxRequests
  <2>1. r.skipped \in Nat
    BY <1>4, <1>7
  <2> QED BY <1>1, <1>5, <1>7, <1>8, <2>1
<1>10. /\ Counting(data', Slots)
       /\ data'[head] = r
       /\ \A i \in kept : data[i].skipped = data'[i].skipped
  <2>1. r.skipped \in Nat
    BY <1>9
  <2> QED BY <1>1, <1>2, <1>6, <2>1 DEF Counting
<1>11. Counted(data', Queued') = 1 + r.skipped + Counted(data', kept)
  <2>1. Counted(data', Queued') = 1 + data'[head].skipped + Counted(data', Queued' \ {head})
    BY <1>6, <1>10, CountedSteps
  <2> QED BY <1>6, <1>10, <2>1
<1>12. Counted(data', kept) = Counted(data, kept)
  <2> HIDE DEF kept
  <2> QED BY <1>1, <1>6, <1>10, CountedSame
<1>13. logged' = reported' + Counted(data', Queued')
  <2> HIDE DEF kept
  <2> QED BY <1>1, <1>2, <1>5, <1>7, <1>8, <1>9, <1>11, <1>12
<1> QED BY <1>9, <1>13 DEF LossesAreCounted, r

\* The memory is still that of the queue.
LEMMA LogOwns ==
    ASSUME RingTypes, RequestsInOrder, MemoryIsOwned, ~ unloaded,
           NEW pid, NEW resolve, NEW sid, NEW named, LogRequest(pid, resolve, sid, named)
    PROVE  MemoryIsOwned'
<1> DEFINE r == NewRequest(pid, resolve, sid, named)
           gone == IF NextSlot(head) = tail THEN {tail} ELSE {}
<1>1. /\ head \in Slots /\ tail \in Slots /\ data \in [Slots -> Request]
      /\ Queued \subseteq Slots
  BY QueueTypes DEF RingTypes
<1>2. /\ data' = [data EXCEPT ![head] = r]
      /\ heap' = (heap \ (IF NextSlot(head) = tail THEN Memory(data[tail]) ELSE {})) \cup Memory(r)
      /\ unloaded' = unloaded
  BY Zenon DEF LogRequest, NewRequest
<1>3. /\ ~ head \in Queued
      /\ gone \subseteq Queued
      /\ Queued' = (Queued \ gone) \cup {head}
  BY LogQueues
<1> HIDE DEF r
<1>4. heap = Owned(data, Queued)
  BY DEF MemoryIsOwned, Owned
<1>5. Owned(data, gone) = IF NextSlot(head) = tail THEN Memory(data[tail]) ELSE {}
  BY DEF Owned
<1>6. heap' = (Owned(data, Queued) \ Owned(data, gone)) \cup Memory(r)
  BY <1>2, <1>4, <1>5, Zenon
<1>7. Apart(data, Queued)
  BY QueuedFacts DEF Apart
<1> HIDE DEF gone
<1>8. heap' = Owned(data, Queued \ gone) \cup Memory(r)
  BY <1>3, <1>6, <1>7, OwnedApart
<1>9. Owned(data', Queued') = Owned(data, Queued \ gone) \cup Memory(r)
  <2>1. data'[head] = r /\ \A i \in Queued \ gone : data'[i] = data[i]
    BY <1>1, <1>2, <1>3
  <2> QED BY <1>3, <2>1 DEF Owned
<1> QED BY <1>2, <1>8, <1>9 DEF MemoryIsOwned, Owned

\* The new request has the highest number.
LEMMA LogKeepsOrder ==
    ASSUME RingTypes, RequestsInOrder,
           NEW pid \in Pids, NEW resolve, NEW sid, NEW named,
           LogRequest(pid, resolve, sid, named)
    PROVE  RequestsInOrder'
<1> DEFINE r == NewRequest(pid, resolve, sid, named)
<1>1. PICK d \in {0, 1} : Pushed(d, r)
  BY LogPushes
<1>2. logged' = logged + 1 /\ lastRead' = lastRead
  BY DEF LogRequest, reader
<1>3. /\ Length \in 0..(QueueSize - 1) /\ QueueSize \in Nat
      /\ \A k \in 1..QueueSize : Queue(k) \in Request
      /\ lastRead \in Nat /\ logged \in Nat
  BY QueueTypes, QueueAssumption DEF RingTypes
<1>4. /\ lastRead <= logged
      /\ \A k \in 1..Length : lastRead < Queue(k).id /\ Queue(k).id <= logged
      /\ \A k \in 1..Length : Queue(k).pid \in Pids
      /\ \A k \in 1..Length : \A j \in 1..(k - 1) : Queue(j).id < Queue(k).id
  BY DEF RequestsInOrder
<1>5. r.id = logged + 1 /\ r.pid = pid
  BY DEF NewRequest
<1> HIDE DEF r
<1>6. /\ Length' = Length + 1 - d /\ d <= Length
      /\ \A k \in 1..Length' : Queue(k)' = IF k = Length' THEN r ELSE Queue(k + d)
  BY <1>1 DEF Pushed
<1>7. \A k \in 1..Length : Queue(k).id \in Nat
  BY <1>3 DEF Request
<1>8. ASSUME NEW k \in 1..Length'
      PROVE  /\ lastRead' < Queue(k)'.id /\ Queue(k)'.id <= logged'
             /\ Queue(k)'.pid \in Pids
             /\ \A j \in 1..(k - 1) : Queue(j)'.id < Queue(k)'.id
  <2>1. Queue(k)' = IF k = Length' THEN r ELSE Queue(k + d)
    BY <1>6
  <2>2. CASE k = Length'
    <3>1. Queue(k)'.id = logged + 1 /\ Queue(k)'.pid = pid
      BY <1>5, <2>1, <2>2
    <3>2. ASSUME NEW j \in 1..(k - 1)
          PROVE  Queue(j)'.id < Queue(k)'.id
      <4>1. j \in 1..Length' /\ j # Length' /\ j + d \in 1..Length
        BY <1>3, <1>6, <2>2
      <4>2. Queue(j)' = Queue(j + d)
        BY <1>6, <4>1
      <4>3. Queue(j + d).id <= logged /\ Queue(j + d).id \in Nat
        BY <1>4, <1>7, <4>1
      <4> QED BY <1>3, <3>1, <4>2, <4>3
    <3> QED BY <1>2, <1>3, <1>4, <3>1, <3>2
  <2>3. CASE k # Length'
    <3>1. k + d \in 1..Length /\ Queue(k)' = Queue(k + d)
      BY <1>3, <1>6, <2>1, <2>3
    <3>2. /\ lastRead < Queue(k + d).id /\ Queue(k + d).id <= logged
          /\ Queue(k + d).pid \in Pids /\ Queue(k + d).id \in Nat
      BY <1>4, <1>7, <3>1
    <3>3. ASSUME NEW j \in 1..(k - 1)
          PROVE  Queue(j)'.id < Queue(k)'.id
      <4>1. j \in 1..Length' /\ j # Length' /\ j + d \in 1..((k + d) - 1)
        BY <1>3, <1>6, <2>3
      <4>2. Queue(j)' = Queue(j + d)
        BY <1>6, <4>1
      <4>3. Queue(j + d).id < Queue(k + d).id
        BY <1>4, <3>1, <4>1
      <4> QED BY <3>1, <4>2, <4>3
    <3> QED BY <1>2, <1>3, <3>1, <3>2, <3>3
  <2> QED BY <2>2, <2>3
<1>9. lastRead' <= logged'
  BY <1>2, <1>3, <1>4
<1> QED BY <1>8, <1>9 DEF RequestsInOrder

\* log_request keeps the ring.
LEMMA LogKeepsRing ==
    ASSUME RingInv, ~ unloaded, NEW pid \in Pids, NEW resolve \in BOOLEAN,
           NEW sid \in BOOLEAN, NEW named \in BOOLEAN, LogRequest(pid, resolve, sid, named)
    PROVE  RingInv'
<1> DEFINE r == NewRequest(pid, resolve, sid, named)
<1>1. RingTypes /\ RequestsInOrder /\ LossesAreCounted /\ MemoryIsOwned
  BY DEF RingInv
<1>2. r.skipped \in 0..MaxRequests /\ LossesAreCounted'
  BY <1>1, LogCounts
<1>3. /\ logged < MaxRequests /\ logged' = logged + 1 /\ reported' = reported
      /\ lastRead' = lastRead /\ event' = event /\ signalled' = signalled
      /\ gotLog' = gotLog /\ unloaded' = unloaded /\ fresh' = event
      /\ heap' = (heap \ (IF NextSlot(head) = tail THEN Memory(data[tail]) ELSE {})) \cup Memory(r)
  BY Zenon DEF LogRequest, NewRequest, reader
<1>4. freedTwice' \in BOOLEAN
  <2>1. freedTwice' = (freedTwice \/
            ~ (IF NextSlot(head) = tail THEN Memory(data[tail]) ELSE {}) \subseteq heap)
    BY Zenon DEF LogRequest
  <2> QED BY <2>1, Zenon
<1>5. logged + 1 \in 1..MaxRequests /\ MaxRequests \in Nat
  BY <1>1, <1>3, QueueAssumption DEF RingTypes
<1>6. r \in Request
  <2>1. pid \in Pids \cup {NoPid} /\ logged + 1 \in 0..MaxRequests
    BY <1>5
  <2> QED BY <1>2, <2>1 DEF NewRequest, Request
<1>7. Memory(r) \subseteq (1..MaxRequests) \X {"pname", "sid"}
  <2>1. r.id = logged + 1
    BY DEF NewRequest
  <2> HIDE DEF r
  <2> QED BY <1>5, <2>1 DEF Memory
<1>8. head' \in Slots /\ tail' \in Slots /\ data' = [data EXCEPT ![head] = r]
  BY <1>1, LogPushes
<1> HIDE DEF r
<1>9. data' \in [Slots -> Request]
  BY <1>1, <1>6, <1>8 DEF RingTypes
<1>10. heap' \subseteq (1..MaxRequests) \X {"pname", "sid"}
  <2>1. heap \subseteq (1..MaxRequests) \X {"pname", "sid"}
    BY <1>1 DEF RingTypes
  <2> QED BY <1>3, <1>7, <2>1
<1>11. {logged, reported, lastRead}' \subseteq 0..MaxRequests
  <2>1. reported \in 0..MaxRequests /\ lastRead \in 0..MaxRequests
    BY <1>1 DEF RingTypes
  <2> QED BY <1>3, <1>5, <2>1
<1>12. {freedTwice, fresh, event, signalled, gotLog, unloaded}' \subseteq BOOLEAN
  BY <1>1, <1>3, <1>4 DEF RingTypes
<1>13. RingTypes'
  BY <1>8, <1>9, <1>10, <1>11, <1>12 DEF RingTypes
<1>14. RequestsInOrder' /\ MemoryIsOwned'
  BY <1>1, LogKeepsOrder, LogOwns
<1> QED BY <1>2, <1>13, <1>14 DEF RingInv

-----------------------------------------------------------------------------
(* Requests are read                                                       *)

\* The first n requests have left the queue.
Popped(n) ==
    /\ Length' = Length - n
    /\ \A k \in 1..Length' : Queue(k)' = Queue(k + n)

\* The slots that are read.
Read(n) == {SlotAt(k) : k \in 1..n}

\* What get_request does to the queue.
LEMMA GetPops ==
    ASSUME RingTypes, NEW n \in 1..Length, GetRequest(n)
    PROVE  /\ tail' \in Slots /\ Popped(n)
           /\ Read(n) \subseteq Queued /\ Queued' = Queued \ Read(n)
<1>1. /\ head \in Slots /\ tail \in Slots /\ Length \in 0..(QueueSize - 1)
      /\ QueueSize \in Nat /\ data \in [Slots -> Request]
  BY QueueTypes, QueueAssumption DEF RingTypes
<1>2. /\ tail' = (tail + n) % QueueSize /\ head' = head
      /\ data' = [i \in Slots |-> IF i \in Read(n) THEN Empty ELSE data[i]]
  BY Zenon DEF GetRequest, Read
<1>3. n \in 0..Span(head, tail) /\ n \in Nat
  BY <1>1, QueueIsWindow
<1>4. /\ tail' \in Slots
      /\ Span(head, tail') = Span(head, tail) - n
      /\ \A k \in 1..(QueueSize - n) : Place(tail', k) = Place(tail, k + n)
  BY <1>1, <1>2, <1>3, TailMoves
<1>5. Read(n) = {Place(tail, k) : k \in 1..n}
  BY DEF Read, SlotAt, Place
<1>6. Read(n) \subseteq Queued /\ Queued' = Queued \ Read(n)
  BY <1>1, <1>2, <1>3, <1>5, WindowShrinks, QueueIsWindow, NextQueueIsWindow
<1>7. Length' = Length - n
  BY <1>2, <1>4, QueueIsWindow, NextQueueIsWindow
<1>8. ASSUME NEW k \in 1..Length'
      PROVE  Queue(k)' = Queue(k + n)
  <2>1. k \in 1..(QueueSize - n) /\ k \in 1..Span(head, tail') /\ k + n \in 1..QueueSize
    BY <1>1, <1>2, <1>4, <1>7, <1>3, QueueIsWindow
  <2>2. Place(tail', k) = Place(tail, k + n)
    BY <1>4, <2>1
  <2>3. Place(tail', k) \in Queued'
    BY <1>2, <2>1, NextQueueIsWindow DEF Window
  <2>4. Place(tail', k) \in Slots /\ ~ Place(tail', k) \in Read(n)
    BY <1>1, <1>6, <2>1, <2>2, <2>3, PlaceForm
  <2>5. data'[Place(tail', k)] = data[Place(tail', k)]
    BY <1>2, <2>4
  <2> QED BY <2>2, <2>5, QueueIsWindow, NextQueueIsWindow
<1> QED BY <1>4, <1>6, <1>7, <1>8 DEF Popped

\* What is read is reported.
LEMMA GetCounts ==
    ASSUME RingTypes, LossesAreCounted, NEW n \in 1..Length, GetRequest(n)
    PROVE  LossesAreCounted' /\ reported' \in 0..MaxRequests
<1>1. /\ Queued \subseteq Slots /\ Counting(data, Slots)
      /\ logged \in 0..MaxRequests /\ reported \in 0..MaxRequests /\ MaxRequests \in Nat
      /\ data \in [Slots -> Request]
  BY QueueTypes, QueueAssumption DEF RingTypes
<1>2. /\ data' = [i \in Slots |-> IF i \in Read(n) THEN Empty ELSE data[i]]
      /\ reported' = reported + Counted(data, Read(n))
      /\ logged' = logged
  BY Zenon DEF GetRequest, Read
<1>3. Read(n) \subseteq Queued /\ Queued' = Queued \ Read(n)
  BY GetPops
<1>4. /\ Read(n) \in SUBSET Slots /\ Queued' \in SUBSET Slots
      /\ Queued' \cap Read(n) = {} /\ Queued' \cup Read(n) = Queued
  BY <1>1, <1>3
<1>5. Counted(data, Queued) = Counted(data, Queued') + Counted(data, Read(n))
  BY <1>1, <1>4, CountedUnion
<1>6. Counting(data', Slots)
  BY <1>1, <1>2 DEF Counting, Empty
<1>7. \A i \in Queued' : data[i].skipped = data'[i].skipped
  BY <1>2, <1>4
<1>8. Counted(data, Queued') = Counted(data', Queued')
  BY <1>1, <1>4, <1>6, <1>7, CountedSame
<1>9. Counted(data, Queued') \in Nat /\ Counted(data, Read(n)) \in Nat
  BY <1>1, <1>4, CountedSteps
<1>10. logged = reported + Counted(data, Queued)
  BY DEF LossesAreCounted
<1>11. logged' = reported' + Counted(data', Queued')
  BY <1>1, <1>2, <1>5, <1>8, <1>9, <1>10
<1> QED BY <1>1, <1>2, <1>5, <1>9, <1>10, <1>11 DEF LossesAreCounted

\* The memory of the queue without that of some of its slots.
LEMMA OwnedWithout ==
    ASSUME NEW R, R \subseteq Queued, Apart(data, Queued)
    PROVE  Owned(data, Queued) \ Owned(data, R) = Owned(data, Queued \ R)
  BY OwnedApart

\* The memory of what is read is freed, and no other.
LEMMA GetOwns ==
    ASSUME RingTypes, RequestsInOrder, MemoryIsOwned, ~ unloaded,
           NEW n \in 1..Length, GetRequest(n)
    PROVE  MemoryIsOwned'
<1>1. Queued \subseteq Slots /\ data \in [Slots -> Request]
  BY QueueTypes DEF RingTypes
<1>2. /\ data' = [i \in Slots |-> IF i \in Read(n) THEN Empty ELSE data[i]]
      /\ heap' = heap \ Owned(data, Read(n))
      /\ unloaded' = unloaded
  BY Zenon DEF GetRequest, Read, Owned
<1>3. Read(n) \subseteq Queued /\ Queued' = Queued \ Read(n)
  BY GetPops
<1>4. heap = Owned(data, Queued)
  BY DEF MemoryIsOwned, Owned
<1>5. Apart(data, Queued)
  BY QueuedFacts DEF Apart
<1>6. heap' = Owned(data, Queued')
  <2>1. Owned(data, Queued) \ Owned(data, Read(n)) = Owned(data, Queued \ Read(n))
    BY <1>3, <1>5, OwnedWithout
  <2> QED BY <1>2, <1>3, <1>4, <2>1
<1>7. Owned(data', Queued') = Owned(data, Queued')
  <2>1. \A i \in Queued' : data'[i] = data[i]
    BY <1>1, <1>2, <1>3
  <2> QED BY <2>1 DEF Owned
<1> QED BY <1>2, <1>6, <1>7 DEF MemoryIsOwned, Owned

\* The requests that are left come after the last that is read.
LEMMA GetKeepsOrder ==
    ASSUME RingTypes, RequestsInOrder, NEW n \in 1..Length, GetRequest(n)
    PROVE  RequestsInOrder' /\ lastRead' \in 0..MaxRequests
<1>1. Popped(n)
  BY GetPops
<1>2. /\ Length \in 0..(QueueSize - 1) /\ QueueSize \in Nat
      /\ \A k \in 1..QueueSize : Queue(k) \in Request
      /\ lastRead \in Nat /\ logged \in Nat /\ MaxRequests \in Nat /\ logged <= MaxRequests
  BY QueueTypes, QueueAssumption DEF RingTypes
<1>3. /\ \A k \in 1..Length : lastRead < Queue(k).id /\ Queue(k).id <= logged
      /\ \A k \in 1..Length : Queue(k).pid \in Pids
      /\ \A k \in 1..Length : \A j \in 1..(k - 1) : Queue(j).id < Queue(k).id
  BY DEF RequestsInOrder
<1>4. n \in Nat /\ n # 0
  BY <1>2
<1>5. lastRead' = Queue(n).id /\ logged' = logged
  BY <1>4 DEF GetRequest, Queue
<1>6. \A k \in 1..Length : Queue(k).id \in Nat
  BY <1>2 DEF Request
<1>7. ASSUME NEW k \in 1..Length'
      PROVE  /\ lastRead' < Queue(k)'.id /\ Queue(k)'.id <= logged'
             /\ Queue(k)'.pid \in Pids
             /\ \A j \in 1..(k - 1) : Queue(j)'.id < Queue(k)'.id
  <2>1. k + n \in 1..Length /\ Queue(k)' = Queue(k + n)
    BY <1>1, <1>2, <1>4 DEF Popped
  <2>2. n \in 1..((k + n) - 1)
    BY <1>2, <1>4, <2>1, <1>1 DEF Popped
  <2>3. ASSUME NEW j \in 1..(k - 1)
        PROVE  Queue(j)'.id < Queue(k)'.id
    <3>1. j \in 1..Length' /\ j + n \in 1..((k + n) - 1)
      BY <1>1, <1>2, <1>4 DEF Popped
    <3>2. Queue(j)' = Queue(j + n)
      BY <1>1, <3>1 DEF Popped
    <3> QED BY <1>3, <2>1, <3>1, <3>2
  <2> QED BY <1>3, <1>5, <2>1, <2>2, <2>3
<1>8. lastRead' <= logged' /\ lastRead' \in 0..MaxRequests
  BY <1>2, <1>3, <1>5, <1>6
<1> QED BY <1>7, <1>8 DEF RequestsInOrder

\* get_request keeps the ring.
LEMMA GetKeepsRing ==
    ASSUME RingInv, ~ unloaded, NEW n \in 1..Length, GetRequest(n)
    PROVE  RingInv'
<1>1. RingTypes /\ RequestsInOrder /\ LossesAreCounted /\ MemoryIsOwned
  BY DEF RingInv
<1>2. /\ data' = [i \in Slots |-> IF i \in Read(n) THEN Empty ELSE data[i]]
      /\ heap' \subseteq heap /\ head' = head /\ logged' = logged
      /\ fresh' = fresh /\ event' = event /\ signalled' = signalled
      /\ gotLog' = gotLog /\ unloaded' = unloaded
  BY DEF GetRequest, Read
<1>3. freedTwice' \in BOOLEAN
  <2>1. freedTwice' = (freedTwice \/ ~ Owned(data, Read(n)) \subseteq heap)
    BY Zenon DEF GetRequest, Read, Owned
  <2> QED BY <2>1, Zenon
<1>4. data' \in [Slots -> Request]
  <2>1. Empty \in Request
    BY QueueAssumption DEF Empty, Request
  <2> QED BY <1>1, <1>2, <2>1 DEF RingTypes
<1>5. tail' \in Slots
  BY <1>1, GetPops
<1>6. LossesAreCounted' /\ reported' \in 0..MaxRequests
  BY <1>1, GetCounts
<1>7. RequestsInOrder' /\ lastRead' \in 0..MaxRequests
  BY <1>1, GetKeepsOrder
<1>8. MemoryIsOwned'
  BY <1>1, GetOwns
<1>9. RingTypes'
  <2>1. head' \in Slots /\ heap' \subseteq (1..MaxRequests) \X {"pname", "sid"}
    BY <1>1, <1>2 DEF RingTypes
  <2>2. {logged, reported, lastRead}' \subseteq 0..MaxRequests
    BY <1>1, <1>2, <1>6, <1>7 DEF RingTypes
  <2>3. {freedTwice, fresh, event, signalled, gotLog, unloaded}' \subseteq BOOLEAN
    BY <1>1, <1>2, <1>3 DEF RingTypes
  <2> QED BY <1>4, <1>5, <2>1, <2>2, <2>3 DEF RingTypes
<1> QED BY <1>6, <1>7, <1>8, <1>9 DEF RingInv

-----------------------------------------------------------------------------
(* The rest                                                                *)

\* filter_free empties what the ring owns.
LEMMA FreeKeepsRing ==
    ASSUME RingInv, FilterFree
    PROVE  RingInv' /\ Length' = Length /\ \A k : Queue(k)' = Queue(k)
<1>1. RingTypes /\ RequestsInOrder /\ LossesAreCounted /\ MemoryIsOwned
  BY DEF RingInv
<1>2. /\ data' = data /\ head' = head /\ tail' = tail /\ logged' = logged
      /\ reported' = reported /\ lastRead' = lastRead
      /\ fresh' = fresh /\ event' = event /\ signalled' = signalled /\ gotLog' = gotLog
      /\ ~ unloaded /\ unloaded' = TRUE
  BY DEF FilterFree, reader
<1>3. /\ heap' = heap \ Owned(data, Slots)
      /\ freedTwice' = (freedTwice \/ ~ Owned(data, Slots) \subseteq heap)
  BY Zenon DEF FilterFree, Owned
<1>4. /\ Length' = Length /\ Queued' = Queued
      /\ \A k : Queue(k)' = Queue(k)
  BY <1>2 DEF Length, Queued, SlotAt, Queue
<1>5. MemoryIsOwned'
  <2>1. heap = Owned(data, Queued)
    BY <1>1, <1>2 DEF MemoryIsOwned, Owned
  <2>2. Queued \subseteq Slots
    BY <1>1, QueueTypes
  <2>3. Owned(data, Queued) \subseteq Owned(data, Slots)
    BY <2>2 DEF Owned
  <2>4. heap' = {}
    BY <1>3, <2>1, <2>3
  <2> QED BY <1>2, <2>4 DEF MemoryIsOwned
<1>6. freedTwice' \in BOOLEAN
  BY <1>3, Zenon
<1>7. RingTypes'
  BY <1>1, <1>2, <1>3, <1>6 DEF RingTypes
<1>8. LossesAreCounted'
  BY <1>1, <1>2, <1>4 DEF LossesAreCounted
<1>9. RequestsInOrder'
  BY <1>1, <1>2, <1>4 DEF RequestsInOrder
<1> QED BY <1>4, <1>5, <1>7, <1>8, <1>9 DEF RingInv

\* A step that leaves the ring and its reader alone keeps them.
LEMMA RingStays ==
    ASSUME RingInv, UNCHANGED <<ring, reader, unloaded>>,
           {fresh, event, signalled, gotLog}' \subseteq BOOLEAN
    PROVE  RingInv' /\ Length' = Length /\ \A k : Queue(k)' = Queue(k)
<1>1. RingTypes /\ RequestsInOrder /\ LossesAreCounted /\ MemoryIsOwned
  BY DEF RingInv
<1>2. /\ data' = data /\ head' = head /\ tail' = tail /\ logged' = logged
      /\ reported' = reported /\ lastRead' = lastRead /\ heap' = heap
      /\ freedTwice' = freedTwice /\ unloaded' = unloaded
  BY DEF ring, reader
<1>3. /\ Length' = Length /\ Queued' = Queued
      /\ \A k : Queue(k)' = Queue(k)
  BY <1>2 DEF Length, Queued, SlotAt, Queue
<1>4. RingTypes'
  BY <1>1, <1>2 DEF RingTypes
<1>5. LossesAreCounted'
  BY <1>1, <1>2, <1>3 DEF LossesAreCounted
<1>6. RequestsInOrder'
  BY <1>1, <1>2, <1>3 DEF RequestsInOrder
<1>7. MemoryIsOwned'
  BY <1>1, <1>2, <1>3 DEF MemoryIsOwned
<1> QED BY <1>3, <1>4, <1>5, <1>6, <1>7 DEF RingInv

\* The property of the ring from what is proved about it.
LEMMA RingInvExact ==
    ASSUME RingInv
    PROVE  RingIsExact
<1>1. RingTypes /\ RequestsInOrder /\ LossesAreCounted /\ MemoryIsOwned
  BY DEF RingInv
<1>2. QueueIsInOrder
  <2>1. /\ \A k \in 1..Length : lastRead < Queue(k).id
        /\ \A k \in 1..Length : \A j \in 1..(k - 1) : Queue(j).id < Queue(k).id
    BY <1>1 DEF RequestsInOrder
  <2>2. \A k \in 1..Length : Queue(k).id \in Int
    <3>1. /\ Length \in 0..(QueueSize - 1) /\ QueueSize \in Nat
          /\ \A k \in 1..QueueSize : Queue(k) \in Request
      BY <1>1, QueueTypes, QueueAssumption
    <3>2. \A k \in 1..Length : Queue(k) \in Request
      BY <3>1
    <3> QED BY <3>2 DEF Request
  <2>3. lastRead \in Int
    BY <1>1 DEF RingTypes
  <2> QED BY <2>1, <2>2, <2>3 DEF QueueIsInOrder, Queue
<1> QED BY <1>1, <1>2 DEF RingIsExact, RequestsAreAccounted

\* A step that does not touch the queue.
LEMMA QueueStays ==
    ASSUME RingInv, UNCHANGED queueVars
    PROVE  /\ RingInv' /\ Length' = Length /\ (\A k : Queue(k)' = Queue(k))
           /\ fresh' = fresh /\ event' = event /\ signalled' = signalled
           /\ unloaded' = unloaded
<1>1. /\ UNCHANGED <<ring, reader, unloaded>>
      /\ fresh' = fresh /\ event' = event /\ signalled' = signalled /\ gotLog' = gotLog
  BY DEF queueVars
<1>2. {fresh, event, signalled, gotLog}' \subseteq BOOLEAN
  BY <1>1 DEF RingInv, RingTypes
<1> QED BY <1>1, <1>2, RingStays

\* log_request does not touch the event, but notes that there is a request.
LEMMA LogLeaves ==
    ASSUME NEW pid, NEW resolve, NEW sid, NEW named, LogRequest(pid, resolve, sid, named)
    PROVE  /\ event' = event /\ signalled' = signalled
           /\ unloaded' = unloaded /\ logged' = logged + 1 /\ logged < MaxRequests
  BY DEF LogRequest

\* The numbers of lost requests.
LEMMA LosesSome ==
    ASSUME RingInv
    PROVE  Loses \subseteq 1..MaxRequests
<1>1. head \in Slots /\ tail \in Slots
  BY DEF RingInv, RingTypes
<1>2. CASE NextSlot(head) = tail
  <2>1. Place(tail, 1) = tail /\ Span(head, tail) = QueueSize - 1
    BY <1>1, <1>2, PlacesDiffer
  <2>2. 1 \in 1..Span(head, tail)
    BY <2>1, QueueAssumption
  <2>3. Place(tail, 1) \in Window(head, tail)
    BY <2>2 DEF Window
  <2>4. tail \in Queued
    BY <2>1, <2>3, QueueIsWindow
  <2>5. data[tail].id \in 1..MaxRequests
    BY <2>4, QueuedFacts DEF RingInv
  <2> QED BY <2>5 DEF Loses
<1>3. CASE NextSlot(head) # tail
  BY <1>3 DEF Loses
<1> QED BY <1>2, <1>3

\* Losing requests keeps the type of asked.
LEMMA LosingTyped ==
    ASSUME asked \in [Threads -> Lost..MaxRequests], NEW ids
    PROVE  Losing(ids) \in [Threads -> Lost..MaxRequests]
<1>1. Lost \in Lost..MaxRequests
  BY QueueAssumption DEF Lost
<1> QED BY <1>1 DEF Losing

\* The entries of the list of processes.
Entries == [pid : Pids, pname : BOOLEAN, event : Threads \cup {NoThread}]

\* find_ple, of a list.
Lowest(found) == IF found = {} THEN 0 ELSE CHOOSE k \in found : \A j \in found : k <= j
Find(s, p) == Lowest({k \in DOMAIN s : s[k].pid = p})

\* find_ple of the list, before and after a step.
LEMMA FindIsOfList ==
    \A p : FindPle(p) = Find(plist, p) /\ FindPle(p)' = Find(plist', p)
  BY DEF FindPle, Find, Lowest

\* find_ple finds the first entry, if there is one.
LEMMA FindFacts ==
    ASSUME NEW s \in Seq(Entries), NEW p
    PROVE  /\ Find(s, p) \in 0..Len(s)
           /\ Find(s, p) # 0 => Find(s, p) \in 1..Len(s) /\ s[Find(s, p)].pid = p
           /\ \A j \in 1..Len(s) : s[j].pid = p => Find(s, p) # 0 /\ Find(s, p) <= j
<1> DEFINE found == {k \in DOMAIN s : s[k].pid = p}
<1>1. DOMAIN s = 1..Len(s) /\ Len(s) \in Nat
  OBVIOUS
<1>2. CASE found = {}
  BY <1>1, <1>2 DEF Find, Lowest
<1>3. CASE found # {}
  <2>1. found \subseteq Nat
    BY <1>1
  <2>2. PICK m \in found : \A j \in found : m <= j
    <3> HIDE DEF found
    <3> QED BY <1>3, <2>1, LeastNatural
  <2>3. Find(s, p) = CHOOSE k \in found : \A j \in found : k <= j
    BY <1>3 DEF Find, Lowest
  <2>4. Find(s, p) \in found /\ \A j \in found : Find(s, p) <= j
    <3> HIDE DEF found
    <3> QED BY <2>2, <2>3
  <2> QED BY <1>1, <2>4
<1> QED BY <1>2, <1>3

\* An entry of the list is changed, and stays that of its process.
LEMMA ChangeTyped ==
    ASSUME NEW s \in Seq(Entries), NEW k \in 1..Len(s), NEW e \in Entries
    PROVE  /\ [s EXCEPT ![k] = e] \in Seq(Entries)
           /\ Len([s EXCEPT ![k] = e]) = Len(s)
  OBVIOUS

\* An entry is added at the end of the list.
LEMMA AddTyped ==
    ASSUME NEW s \in Seq(Entries), NEW e \in Entries
    PROVE  /\ Append(s, e) \in Seq(Entries) /\ Len(Append(s, e)) = Len(s) + 1
           /\ \A k \in 1..Len(s) : Append(s, e)[k] = s[k]
           /\ Append(s, e)[Len(s) + 1] = e
  OBVIOUS

\* The list without the first entry for p.
Dropped(s, p) ==
    [k \in 1..(Len(s) - IF Find(s, p) = 0 THEN 0 ELSE 1) |->
        IF Find(s, p) # 0 /\ k >= Find(s, p) THEN s[k + 1] ELSE s[k]]

\* What has an entry dropped is a list.
LEMMA DropTyped ==
    ASSUME NEW s \in Seq(Entries), NEW p
    PROVE  /\ Dropped(s, p) \in Seq(Entries)
           /\ Len(Dropped(s, p)) = Len(s) - IF Find(s, p) = 0 THEN 0 ELSE 1
<1> DEFINE n == Len(s) - IF Find(s, p) = 0 THEN 0 ELSE 1
<1>1. Len(s) \in Nat /\ Find(s, p) \in 0..Len(s)
  BY FindFacts
<1>2. n \in Nat
  BY <1>1
<1>3. ASSUME NEW k \in 1..n
      PROVE  (IF Find(s, p) # 0 /\ k >= Find(s, p) THEN s[k + 1] ELSE s[k]) \in Entries
  <2>1. CASE Find(s, p) # 0
    <3>1. k \in 1..Len(s) /\ k + 1 \in 1..Len(s)
      BY <1>1, <2>1
    <3> QED BY <2>1, <3>1
  <2>2. CASE Find(s, p) = 0
    BY <1>1, <2>2
  <2> QED BY <2>1, <2>2
<1>4. Dropped(s, p) \in [1..n -> Entries]
  BY <1>3 DEF Dropped
<1> HIDE DEF n
<1>5. Dropped(s, p) \in Seq(Entries) /\ Len(Dropped(s, p)) = n
  BY <1>2, <1>4
<1> QED BY <1>5 DEF n

-----------------------------------------------------------------------------
(* The steps keep the invariant                                            *)

\* A step that may change the list, a thread and what the application has to do,
\* but not the queue nor whether the application sleeps.
LEMMA ListStep ==
    ASSUME Inv, PlaceTypes', UNCHANGED queueVars, app' = app,
           unloaded => pc' = pc,
           \A t \in Threads : pc[t] \in {"test", "set"} => pc'[t] = pc[t]
    PROVE  Inv'
<1>1. RingInv /\ PlaceTypes /\ AppInv
  BY DEF Inv
<1>2. /\ RingInv' /\ Length' = Length
      /\ fresh' = fresh /\ event' = event /\ signalled' = signalled /\ unloaded' = unloaded
  BY <1>1, QueueStays
<1>3. AppInv'
  <2>1. unloaded' => app' = "closed" /\ \A t \in Threads : pc'[t] = "idle"
    BY <1>1, <1>2 DEF AppInv
  <2>2. event' => app' \in {"opening", "idle", "reading"}
    BY <1>1, <1>2 DEF AppInv
  <2>3. ASSUME app' \in {"opening", "idle"}, event', fresh', Length' > 0
        PROVE  signalled' \/ \E t \in Threads : pc'[t] \in {"test", "set"}
    <3>1. signalled \/ \E t \in Threads : pc[t] \in {"test", "set"}
      BY <1>1, <1>2, <2>3 DEF AppInv
    <3> QED BY <1>2, <3>1
  <2> QED BY <2>1, <2>2, <2>3 DEF AppInv
<1> QED BY <1>2, <1>3 DEF Inv

\* A process is created.
LEMMA ProcessCreateInv ==
    ASSUME Inv, NEW p \in Pids, ProcessCreate(p)
    PROVE  Inv'
<1>1. PlaceTypes /\ plist \in Seq(Entries)
  BY DEF Inv, PlaceTypes, Entries
<1>2. /\ UNCHANGED <<queueVars, threadVars, appVars>>
      /\ alive' = [alive EXCEPT ![p] = TRUE]
      /\ plist' = plist \/ plist' = Append(plist, Entry(p, FALSE, NoThread))
  BY DEF ProcessCreate, AddPle
<1>3. Entry(p, FALSE, NoThread) \in Entries
  BY DEF Entry, Entries
<1>4. plist' \in Seq(Entries)
  BY <1>1, <1>2, <1>3, AddTyped
<1>5. /\ pc' = pc /\ woken' = woken /\ asked' = asked /\ creates' = creates
      /\ app' = app /\ answers' = answers /\ adding' = adding
      /\ UNCHANGED queueVars
  BY <1>2 DEF threadVars, appVars
<1>6. PlaceTypes'
  BY <1>1, <1>2, <1>4, <1>5 DEF PlaceTypes, Entries
<1> QED BY <1>5, <1>6, ListStep

\* A process ends.
LEMMA ProcessTerminateInv ==
    ASSUME Inv, NEW p \in Pids, ProcessTerminate(p)
    PROVE  Inv'
<1>1. PlaceTypes /\ plist \in Seq(Entries)
  BY DEF Inv, PlaceTypes, Entries
<1>2. /\ UNCHANGED <<queueVars, threadVars, appVars>>
      /\ alive' = [alive EXCEPT ![p] = FALSE]
      /\ plist' = Dropped(plist, p)
  BY FindIsOfList DEF ProcessTerminate, Dropped
<1>3. plist' \in Seq(Entries)
  BY <1>1, <1>2, DropTyped
<1>4. /\ pc' = pc /\ woken' = woken /\ asked' = asked /\ creates' = creates
      /\ app' = app /\ answers' = answers /\ adding' = adding
      /\ UNCHANGED queueVars
  BY <1>2 DEF threadVars, appVars
<1>5. PlaceTypes'
  BY <1>1, <1>2, <1>3, <1>4 DEF PlaceTypes, Entries
<1> QED BY <1>4, <1>5, ListStep

\* A thread has a process.
LEMMA ThreadFacts ==
    ASSUME NEW t \in Threads
    PROVE  PidOf(t) \in Pids
  BY DEF Threads, PidOf

\* tdi_create begins.
LEMMA CreateBeginInv ==
    ASSUME Inv, NEW t \in Threads, CreateBegin(t)
    PROVE  Inv'
<1>1. PlaceTypes
  BY DEF Inv
<1>2. /\ UNCHANGED <<queueVars, plist, alive, asked, appVars>>
      /\ pc[t] = "idle" /\ ~ unloaded
      /\ pc' = [pc EXCEPT ![t] = "enter"]
      /\ woken' = [woken EXCEPT ![t] = FALSE]
      /\ creates' = [creates EXCEPT ![PidOf(t)] = IF @ = 0 THEN 1 ELSE 2]
  BY DEF CreateBegin
<1>3. app' = app /\ answers' = answers /\ adding' = adding
  BY <1>2 DEF appVars
<1>4. creates' \in [Pids -> 0..2]
  BY <1>1, <1>2, ThreadFacts DEF PlaceTypes
<1>5. PlaceTypes'
  BY <1>1, <1>2, <1>3, <1>4 DEF PlaceTypes
<1> QED BY <1>1, <1>2, <1>3, <1>5, ListStep DEF PlaceTypes

\* The event is put in an entry, or taken out of it.
LEMMA SetEventFoundInv ==
    ASSUME Inv, NEW t \in Threads, SetEventFound(t)
    PROVE  Inv'
<1>1. PlaceTypes /\ plist \in Seq(Entries)
  BY DEF Inv, PlaceTypes, Entries
<1>2. /\ UNCHANGED <<queueVars, alive, woken, asked, creates, appVars>>
      /\ pc[t] \in {"enter", "leave"} /\ FindPle(PidOf(t)) # 0
      /\ pc' = [pc EXCEPT ![t] = AfterSetEvent(t)]
      /\ plist' = [plist EXCEPT ![FindPle(PidOf(t))].event = PointsTo(t)]
  BY DEF SetEventFound
<1>3. app' = app /\ answers' = answers /\ adding' = adding
  BY <1>2 DEF appVars
<1>4. PICK k : k = FindPle(PidOf(t))
  OBVIOUS
<1>5. k \in 1..Len(plist)
  BY <1>1, <1>2, <1>4, FindFacts, FindIsOfList
<1>6. PICK e : e = [plist[k] EXCEPT !.event = PointsTo(t)]
  OBVIOUS
<1>7. plist[k] \in Entries /\ e \in Entries
  <2>1. plist[k] \in Entries
    BY <1>1, <1>5
  <2>2. PointsTo(t) \in Threads \cup {NoThread}
    BY DEF PointsTo
  <2> QED BY <1>6, <2>1, <2>2 DEF Entries
<1>8. plist' = [plist EXCEPT ![k] = e]
  BY <1>2, <1>4, <1>6
<1>9. plist' \in Seq(Entries)
  BY <1>1, <1>5, <1>7, <1>8, ChangeTyped
<1>10. AfterSetEvent(t) \in {"log", "idle"}
  BY DEF AfterSetEvent
<1>11. PlaceTypes'
  BY <1>1, <1>2, <1>3, <1>9, <1>10 DEF PlaceTypes, Entries
<1>12. ~ unloaded
  BY <1>2 DEF Inv, AppInv
<1> QED BY <1>1, <1>2, <1>3, <1>11, <1>12, ListStep DEF PlaceTypes

\* There is no entry.
LEMMA SetEventNotFoundInv ==
    ASSUME Inv, NEW t \in Threads, SetEventNotFound(t)
    PROVE  Inv'
<1>1. PlaceTypes
  BY DEF Inv
<1>2. /\ UNCHANGED <<queueVars, plist, alive, woken, asked, creates, appVars>>
      /\ pc[t] \in {"enter", "leave"}
      /\ pc' = [pc EXCEPT ![t] = IF @ = "enter" THEN "add" ELSE "addnull"]
  BY DEF SetEventNotFound
<1>3. app' = app /\ answers' = answers /\ adding' = adding
  BY <1>2 DEF appVars
<1>4. PlaceTypes'
  BY <1>1, <1>2, <1>3 DEF PlaceTypes
<1>5. ~ unloaded
  BY <1>2 DEF Inv, AppInv
<1> QED BY <1>1, <1>2, <1>3, <1>4, <1>5, ListStep DEF PlaceTypes

\* One is added.
LEMMA SetEventAddInv ==
    ASSUME Inv, NEW t \in Threads, SetEventAdd(t)
    PROVE  Inv'
<1>1. PlaceTypes /\ plist \in Seq(Entries)
  BY DEF Inv, PlaceTypes, Entries
<1>2. /\ UNCHANGED <<queueVars, alive, woken, asked, creates, appVars>>
      /\ pc[t] \in {"add", "addnull"}
      /\ pc' = [pc EXCEPT ![t] = AfterSetEvent(t)]
      /\ plist' = plist \/ plist' = Append(plist, Entry(PidOf(t), FALSE, PointsTo(t)))
  BY DEF SetEventAdd, AddPle
<1>3. app' = app /\ answers' = answers /\ adding' = adding
  BY <1>2 DEF appVars
<1>4. Entry(PidOf(t), FALSE, PointsTo(t)) \in Entries
  BY ThreadFacts DEF Entry, Entries, PointsTo
<1>5. plist' \in Seq(Entries)
  BY <1>1, <1>2, <1>4, AddTyped
<1>6. AfterSetEvent(t) \in {"log", "idle"}
  BY DEF AfterSetEvent
<1>7. PlaceTypes'
  BY <1>1, <1>2, <1>3, <1>5, <1>6 DEF PlaceTypes, Entries
<1>8. ~ unloaded
  BY <1>2 DEF Inv, AppInv
<1> QED BY <1>1, <1>2, <1>3, <1>7, <1>8, ListStep DEF PlaceTypes

\* A thread stops waiting.
LEMMA WaitEndsInv ==
    ASSUME Inv, NEW t \in Threads, WaitEnds(t)
    PROVE  Inv'
<1>1. PlaceTypes
  BY DEF Inv
<1>2. /\ UNCHANGED <<queueVars, plist, alive, creates, appVars>>
      /\ pc[t] = "wait"
      /\ pc' = [pc EXCEPT ![t] = "leave"]
      /\ asked' = [asked EXCEPT ![t] = 0]
      /\ woken' = [woken EXCEPT ![t] = FALSE]
  BY DEF WaitEnds
<1>3. app' = app /\ answers' = answers /\ adding' = adding
  BY <1>2 DEF appVars
<1>4. 0 \in Lost..MaxRequests
  BY QueueAssumption DEF Lost
<1>5. PlaceTypes'
  BY <1>1, <1>2, <1>3, <1>4 DEF PlaceTypes
<1>6. ~ unloaded
  BY <1>2 DEF Inv, AppInv
<1> QED BY <1>1, <1>2, <1>3, <1>5, <1>6, ListStep DEF PlaceTypes

\* Whether a name is known.
LEMMA ResolvedTyped ==
    ASSUME Inv, NEW p
    PROVE  Resolved(p) \in BOOLEAN
  BY DEF Resolved

\* A request for a thread is logged: the thread is about to set the event.
LEMMA LogStep ==
    ASSUME Inv, NEW t \in Threads, ~ unloaded,
           NEW resolve \in BOOLEAN, NEW sid \in BOOLEAN,
           LogRequest(PidOf(t), resolve, sid, Resolved(PidOf(t))),
           UNCHANGED <<plist, alive, woken, creates, appVars>>,
           pc' = [pc EXCEPT ![t] = "test"],
           asked' \in [Threads -> Lost..MaxRequests]
    PROVE  Inv'
<1>1. PlaceTypes /\ RingInv /\ AppInv
  BY DEF Inv
<1>2. PidOf(t) \in Pids /\ Resolved(PidOf(t)) \in BOOLEAN
  BY ThreadFacts, ResolvedTyped
<1>3. RingInv'
  BY <1>1, <1>2, LogKeepsRing
<1>4. /\ event' = event /\ signalled' = signalled /\ unloaded' = unloaded
  BY LogLeaves
<1>5. app' = app /\ answers' = answers /\ adding' = adding
  BY DEF appVars
<1>6. PlaceTypes'
  BY <1>1, <1>5 DEF PlaceTypes
<1>7. pc'[t] \in {"test", "set"}
  BY <1>1 DEF PlaceTypes
<1>8. AppInv'
  BY <1>1, <1>4, <1>5, <1>7 DEF AppInv
<1> QED BY <1>3, <1>6, <1>8 DEF Inv

\* tdi_create logs its request.
LEMMA LogResolveInv ==
    ASSUME Inv, NEW t \in Threads, LogResolve(t)
    PROVE  Inv'
<1>1. PlaceTypes /\ RingInv
  BY DEF Inv
<1>2. ~ unloaded
  BY DEF Inv, AppInv, LogResolve
<1>3. UNCHANGED <<plist, alive, woken, creates, appVars>> /\ pc[t] = "log"
  BY DEF LogResolve
<1>4. CASE gotLog
  <2>1. /\ LogRequest(PidOf(t), TRUE, TRUE, Resolved(PidOf(t)))
        /\ asked' = [Losing(Loses) EXCEPT ![t] = logged + 1]
        /\ pc' = [pc EXCEPT ![t] = "test"]
    BY <1>4 DEF LogResolve
  <2>2. logged < MaxRequests /\ logged \in 0..MaxRequests /\ MaxRequests \in Nat
    BY <1>1, <2>1, LogLeaves, QueueAssumption DEF RingInv, RingTypes
  <2>3. Losing(Loses) \in [Threads -> Lost..MaxRequests]
    BY <1>1, LosingTyped DEF PlaceTypes
  <2>4. logged + 1 \in Lost..MaxRequests
    BY <2>2 DEF Lost
  <2>5. asked' \in [Threads -> Lost..MaxRequests]
    BY <2>1, <2>3, <2>4
  <2> QED BY <1>2, <1>3, <2>1, <2>5, LogStep
<1>5. CASE ~ gotLog
  <2>1. /\ UNCHANGED <<queueVars, asked>>
        /\ pc' = [pc EXCEPT ![t] = "leave"]
    BY <1>5 DEF LogResolve
  <2>2. app' = app /\ answers' = answers /\ adding' = adding
    BY <1>3 DEF appVars
  <2>3. PlaceTypes'
    BY <1>1, <1>3, <2>1, <2>2 DEF PlaceTypes
  <2> QED BY <1>1, <1>2, <1>3, <2>1, <2>2, <2>3, ListStep DEF PlaceTypes
<1> QED BY <1>4, <1>5

\* Another request is logged.
LEMMA LogOtherInv ==
    ASSUME Inv, NEW t \in Threads, LogOther(t)
    PROVE  Inv'
<1>1. /\ ~ unloaded
      /\ LogRequest(PidOf(t), FALSE, FALSE, Resolved(PidOf(t)))
      /\ pc' = [pc EXCEPT ![t] = "test"]
      /\ asked' = Losing(Loses)
      /\ UNCHANGED <<plist, alive, woken, creates, appVars>>
  BY DEF LogOther
<1>2. asked' \in [Threads -> Lost..MaxRequests]
  BY <1>1, LosingTyped DEF Inv, PlaceTypes
<1> QED BY <1>1, <1>2, LogStep

\* The event is looked at.
LEMMA SignalTestInv ==
    ASSUME Inv, NEW t \in Threads, SignalTest(t)
    PROVE  Inv'
<1>1. PlaceTypes /\ RingInv /\ AppInv
  BY DEF Inv
<1>2. /\ UNCHANGED <<queueVars, plist, alive, woken, asked, creates, appVars>>
      /\ pc[t] = "test"
      /\ pc' = [pc EXCEPT ![t] = IF event THEN "set" ELSE AfterSignal(t)]
  BY DEF SignalTest, EventIsSeen
<1>3. app' = app /\ answers' = answers /\ adding' = adding
  BY <1>2 DEF appVars
<1>4. /\ RingInv' /\ Length' = Length
      /\ fresh' = fresh /\ event' = event /\ signalled' = signalled /\ unloaded' = unloaded
  BY <1>1, <1>2, QueueStays
<1>5. PlaceTypes'
  <2>1. AfterSignal(t) \in {"wait", "idle"}
    BY DEF AfterSignal
  <2> QED BY <1>1, <1>2, <1>3, <2>1 DEF PlaceTypes
<1>6. ~ unloaded
  BY <1>2 DEF Inv, AppInv
<1>7. event => pc'[t] \in {"test", "set"}
  BY <1>1, <1>2 DEF PlaceTypes
<1>8. AppInv'
  BY <1>1, <1>3, <1>4, <1>6, <1>7 DEF AppInv
<1> QED BY <1>4, <1>5, <1>8 DEF Inv

\* The event is set.
LEMMA SignalSetInv ==
    ASSUME Inv, NEW t \in Threads, SignalSet(t)
    PROVE  Inv'
<1>1. PlaceTypes /\ RingInv /\ AppInv
  BY DEF Inv
<1>2. /\ UNCHANGED <<plist, alive, woken, asked, creates, appVars>>
      /\ pc[t] = "set"
      /\ pc' = [pc EXCEPT ![t] = AfterSignal(t)]
      /\ UNCHANGED <<ring, reader, unloaded>>
      /\ fresh' = fresh /\ event' = event /\ gotLog' = gotLog /\ unloaded' = unloaded
      /\ signalled' = (signalled \/ event)
  BY DEF SignalSet, SetEvent
<1>3. app' = app /\ answers' = answers /\ adding' = adding
  BY <1>2 DEF appVars
<1>4. {fresh, event, signalled, gotLog}' \subseteq BOOLEAN
  <2>1. signalled' \in BOOLEAN
    BY <1>2, Zenon
  <2> QED BY <1>1, <1>2, <2>1 DEF RingInv, RingTypes
<1>5. RingInv' /\ Length' = Length
  BY <1>1, <1>2, <1>4, RingStays
<1>6. PlaceTypes'
  <2>1. AfterSignal(t) \in {"wait", "idle"}
    BY DEF AfterSignal
  <2> QED BY <1>1, <1>2, <1>3, <2>1 DEF PlaceTypes
<1>7. ~ unloaded
  BY <1>2 DEF Inv, AppInv
<1>8. AppInv'
  <2>1. event' => signalled'
    BY <1>2, Zenon
  <2>2. unloaded' = unloaded /\ event' = event
    BY <1>2
  <2> QED BY <1>1, <1>3, <1>7, <2>1, <2>2 DEF AppInv
<1> QED BY <1>5, <1>6, <1>8 DEF Inv

\* What the application does leaves the rest alone.
LEMMA OthersStay ==
    ASSUME PlaceTypes, UNCHANGED Others, UNCHANGED <<answers, adding>>,
           app' \in {"closed", "opening", "idle", "reading", "closing"}
    PROVE  PlaceTypes' /\ pc' = pc
  BY DEF PlaceTypes, Others, threadVars

\* The device is opened.
LEMMA AppOpensInv ==
    ASSUME Inv, AppOpens
    PROVE  Inv'
<1>1. PlaceTypes /\ RingInv /\ AppInv
  BY DEF Inv
<1>2. CASE app = "closed" /\ FilterInit2 /\ app' = "opening" /\ UNCHANGED <<Others, answers, adding>>
  <2>1. /\ ~ unloaded /\ event' \in BOOLEAN /\ signalled' = FALSE /\ fresh' = FALSE
        /\ UNCHANGED <<ring, reader, unloaded>> /\ gotLog' = gotLog /\ unloaded' = unloaded
    BY <1>2 DEF FilterInit2
  <2>2. {fresh, event, signalled, gotLog}' \subseteq BOOLEAN
    BY <1>1, <2>1 DEF RingInv, RingTypes
  <2>3. RingInv'
    BY <1>1, <2>1, <2>2, RingStays
  <2>4. PlaceTypes' /\ pc' = pc
    BY <1>1, <1>2, OthersStay
  <2>5. AppInv'
    BY <1>2, <2>1 DEF AppInv
  <2> QED BY <2>3, <2>4, <2>5 DEF Inv
<1>3. CASE app = "opening" /\ SetGotLog(TRUE) /\ app' = "idle" /\ UNCHANGED <<Others, answers, adding>>
  <2>1. /\ UNCHANGED <<ring, reader, unloaded>> /\ gotLog' = TRUE /\ unloaded' = unloaded
        /\ fresh' = fresh /\ event' = event /\ signalled' = signalled
    BY <1>3 DEF SetGotLog
  <2>2. {fresh, event, signalled, gotLog}' \subseteq BOOLEAN
    BY <1>1, <2>1 DEF RingInv, RingTypes
  <2>3. RingInv' /\ Length' = Length
    BY <1>1, <2>1, <2>2, RingStays
  <2>4. PlaceTypes' /\ pc' = pc
    BY <1>1, <1>3, OthersStay
  <2>5. AppInv'
    BY <1>1, <1>3, <2>1, <2>3, <2>4 DEF AppInv
  <2> QED BY <2>3, <2>4, <2>5 DEF Inv
<1> QED BY <1>2, <1>3 DEF AppOpens

\* The device is closed.
LEMMA AppClosesInv ==
    ASSUME Inv, AppCloses
    PROVE  Inv'
<1>1. PlaceTypes /\ RingInv /\ AppInv
  BY DEF Inv
<1>2. CASE /\ app \in {"idle", "reading"} /\ FilterFree2
           /\ app' = "closing" /\ answers' = {}
           /\ asked' = Losing({a.id : a \in answers})
           /\ UNCHANGED <<plist, alive, pc, woken, creates, adding>>
  <2>1. /\ event' = FALSE /\ signalled' = FALSE /\ fresh' = FALSE
        /\ UNCHANGED <<ring, reader, unloaded>> /\ gotLog' = gotLog /\ unloaded' = unloaded
    BY <1>2 DEF FilterFree2
  <2>2. {fresh, event, signalled, gotLog}' \subseteq BOOLEAN
    BY <1>1, <2>1 DEF RingInv, RingTypes
  <2>3. RingInv'
    BY <1>1, <2>1, <2>2, RingStays
  <2>4. asked' \in [Threads -> Lost..MaxRequests]
    BY <1>1, <1>2, LosingTyped DEF PlaceTypes
  <2>5. PlaceTypes'
    BY <1>1, <1>2, <2>4 DEF PlaceTypes
  <2>6. AppInv'
    BY <1>1, <1>2, <2>1 DEF AppInv
  <2> QED BY <2>3, <2>5, <2>6 DEF Inv
<1>3. CASE app = "closing" /\ SetGotLog(FALSE) /\ app' = "closed" /\ UNCHANGED <<Others, answers, adding>>
  <2>1. /\ UNCHANGED <<ring, reader, unloaded>> /\ gotLog' = FALSE /\ unloaded' = unloaded
        /\ fresh' = fresh /\ event' = event /\ signalled' = signalled
    BY <1>3 DEF SetGotLog
  <2>2. {fresh, event, signalled, gotLog}' \subseteq BOOLEAN
    BY <1>1, <2>1 DEF RingInv, RingTypes
  <2>3. RingInv' /\ Length' = Length
    BY <1>1, <2>1, <2>2, RingStays
  <2>4. PlaceTypes' /\ pc' = pc
    BY <1>1, <1>3, OthersStay
  <2>5. AppInv'
    BY <1>1, <1>3, <2>1, <2>3, <2>4 DEF AppInv
  <2> QED BY <2>3, <2>4, <2>5 DEF Inv
<1> QED BY <1>2, <1>3 DEF AppCloses

\* The application wakes.
LEMMA AppWakesInv ==
    ASSUME Inv, AppWakes
    PROVE  Inv'
<1>1. PlaceTypes /\ RingInv /\ AppInv
  BY DEF Inv
<1>2. /\ app = "idle" /\ app' = "reading" /\ UNCHANGED <<Others, answers, adding>>
      /\ signalled' = FALSE
      /\ UNCHANGED <<ring, reader, unloaded>>
      /\ fresh' = fresh /\ event' = event /\ gotLog' = gotLog /\ unloaded' = unloaded
  BY DEF AppWakes, Others
<1>3. {fresh, event, signalled, gotLog}' \subseteq BOOLEAN
  BY <1>1, <1>2 DEF RingInv, RingTypes
<1>4. RingInv'
  BY <1>1, <1>2, <1>3, RingStays
<1>5. PlaceTypes' /\ pc' = pc
  BY <1>1, <1>2, OthersStay
<1>6. AppInv'
  BY <1>1, <1>2 DEF AppInv
<1> QED BY <1>4, <1>5, <1>6 DEF Inv

\* The answers that are to be given are to queued requests.
LEMMA AnswersTyped ==
    ASSUME Inv, NEW n \in 1..Length
    PROVE  {[id |-> data[SlotAt(k)].id, pid |-> data[SlotAt(k)].pid] :
              k \in {j \in 1..n : data[SlotAt(j)].resolve}}
           \subseteq [id : 1..MaxRequests, pid : Pids]
<1>1. Length \in 0..(QueueSize - 1) /\ QueueSize \in Nat
  BY QueueTypes, QueueAssumption DEF Inv, RingInv
<1>2. ASSUME NEW k \in 1..n
      PROVE  data[SlotAt(k)].id \in 1..MaxRequests /\ data[SlotAt(k)].pid \in Pids
  <2>1. k \in 1..Length
    BY <1>1
  <2>2. SlotAt(k) \in Queued
    BY <2>1 DEF Queued
  <2> QED BY <2>2, QueuedFacts DEF Inv, RingInv
<1> QED BY <1>2

\* The application reads.
LEMMA AppReadsInv ==
    ASSUME Inv, AppReads
    PROVE  Inv'
<1>1. PlaceTypes /\ RingInv /\ AppInv
  BY DEF Inv
<1>2. app = "reading" /\ UNCHANGED <<Others, adding>>
  BY DEF AppReads
<1>3. ~ unloaded
  BY <1>1, <1>2 DEF AppInv
<1>4. CASE Length = 0 /\ app' = "idle" /\ UNCHANGED <<queueVars, answers>>
  <2>1. /\ RingInv' /\ Length' = 0
        /\ fresh' = fresh /\ event' = event /\ signalled' = signalled /\ unloaded' = unloaded
    BY <1>1, <1>4, QueueStays
  <2>2. PlaceTypes' /\ pc' = pc
    BY <1>1, <1>2, <1>4, OthersStay
  <2>3. AppInv'
    BY <1>3, <1>4, <2>1 DEF AppInv
  <2> QED BY <2>1, <2>2, <2>3 DEF Inv
<1>5. ASSUME NEW n \in 1..Length, GetRequest(n), app' = app,
             answers' = {[id |-> data[SlotAt(k)].id, pid |-> data[SlotAt(k)].pid] :
                           k \in {j \in 1..n : data[SlotAt(j)].resolve}}
      PROVE  Inv'
  <2>1. RingInv'
    BY <1>1, <1>3, <1>5, GetKeepsRing
  <2>2. answers' \subseteq [id : 1..MaxRequests, pid : Pids]
    BY <1>5, AnswersTyped
  <2>3. PlaceTypes'
    BY <1>1, <1>2, <1>5, <2>2 DEF PlaceTypes, Others, threadVars
  <2>4. event' = event /\ unloaded' = unloaded
    BY <1>5 DEF GetRequest
  <2>5. AppInv'
    BY <1>1, <1>2, <1>3, <1>5, <2>4 DEF AppInv
  <2> QED BY <2>1, <2>3, <2>5 DEF Inv
<1> QED BY <1>4, <1>5 DEF AppReads

\* The answer with the lowest number is one.
LEMMA NextAnswerIsOne ==
    ASSUME PlaceTypes, answers # {}
    PROVE  NextAnswer \in answers
<1> DEFINE ids == {a.id : a \in answers}
<1>1. \A a \in answers : a.id \in Nat
  BY DEF PlaceTypes
<1>2. ids \subseteq Nat /\ ids # {}
  BY <1>1
<1>3. PICK m \in ids : \A k \in ids : m <= k
  <2> HIDE DEF ids
  <2> QED BY <1>2, LeastNatural
<1>4. \E a \in answers : \A b \in answers : a.id <= b.id
  BY <1>3
<1> QED BY <1>4 DEF NextAnswer

\* The application answers.
LEMMA AppAnswersInv ==
    ASSUME Inv, AppAnswers
    PROVE  Inv'
<1>1. PlaceTypes /\ plist \in Seq(Entries)
  BY DEF Inv, PlaceTypes, Entries
<1>2. /\ answers # {} /\ answers' = answers \ {NextAnswer}
      /\ UNCHANGED <<queueVars, alive, pc, asked, creates, app>>
  BY DEF AppAnswers
<1>3. NextAnswer \in answers /\ NextAnswer.pid \in Pids
  BY <1>1, <1>2, NextAnswerIsOne DEF PlaceTypes
<1>4. PICK k : k = FindPle(NextAnswer.pid)
  OBVIOUS
<1>5. /\ plist' \in Seq(Entries)
      /\ woken' \in [Threads -> BOOLEAN]
      /\ adding' \in Pids \cup {NoPid}
  <2>1. CASE k # 0 /\ plist[k].pname /\ UNCHANGED <<plist, woken, adding>>
    BY <1>1, <2>1 DEF PlaceTypes
  <2>2. CASE /\ k # 0 /\ (\E ok \in AllocResults : plist' = [plist EXCEPT ![k].pname = ok])
             /\ woken' = [t \in Threads |-> woken[t] \/ (plist[k].event = t /\ pc[t] \in OnStack)]
             /\ UNCHANGED adding
    <3>1. k \in 1..Len(plist)
      BY <1>1, <1>4, <2>2, FindFacts, FindIsOfList
    <3>2. PICK ok \in AllocResults : plist' = [plist EXCEPT ![k].pname = ok]
      BY <2>2
    <3>3. plist[k] \in Entries /\ ok \in BOOLEAN
      BY <1>1, <3>1, ResolveAssumption
    <3>4. [plist[k] EXCEPT !.pname = ok] \in Entries
      BY <3>3 DEF Entries
    <3>5. plist' \in Seq(Entries)
      <4>1. plist' = [plist EXCEPT ![k] = [plist[k] EXCEPT !.pname = ok]]
        BY <3>2
      <4> QED BY <1>1, <3>1, <3>4, <4>1, ChangeTyped
    <3>6. woken' \in [Threads -> BOOLEAN]
      <4>1. \A t \in Threads : (woken[t] \/ (plist[k].event = t /\ pc[t] \in OnStack)) \in BOOLEAN
        BY Zenon
      <4> QED BY <2>2, <4>1
    <3> QED BY <1>1, <2>2, <3>5, <3>6 DEF PlaceTypes
  <2>3. CASE k = 0 /\ adding' = NextAnswer.pid /\ UNCHANGED <<plist, woken>>
    BY <1>1, <1>3, <2>3 DEF PlaceTypes
  <2> QED BY <1>4, <2>1, <2>2, <2>3 DEF AppAnswers
<1>6. PlaceTypes'
  BY <1>1, <1>2, <1>5 DEF PlaceTypes, Entries
<1> QED BY <1>2, <1>6, ListStep

\* It adds an entry.
LEMMA AppAddsInv ==
    ASSUME Inv, AppAdds
    PROVE  Inv'
<1>1. PlaceTypes /\ plist \in Seq(Entries)
  BY DEF Inv, PlaceTypes, Entries
<1>2. /\ adding # NoPid /\ adding' = NoPid
      /\ UNCHANGED <<queueVars, alive, threadVars, app, answers>>
      /\ plist' = plist \/ plist' = Append(plist, Entry(adding, TRUE, NoThread))
  BY DEF AppAdds, AddPle
<1>3. Entry(adding, TRUE, NoThread) \in Entries
  BY <1>1, <1>2 DEF Entry, Entries, PlaceTypes
<1>4. plist' \in Seq(Entries)
  BY <1>1, <1>2, <1>3, AddTyped
<1>5. pc' = pc /\ woken' = woken /\ asked' = asked /\ creates' = creates
  BY <1>2 DEF threadVars
<1>6. PlaceTypes'
  BY <1>1, <1>2, <1>4, <1>5 DEF PlaceTypes, Entries
<1> QED BY <1>2, <1>5, <1>6, ListStep

\* The driver is unloaded.
LEMMA UnloadInv ==
    ASSUME Inv, Unload
    PROVE  Inv'
<1>1. PlaceTypes /\ RingInv /\ AppInv
  BY DEF Inv
<1>2. /\ app = "closed" /\ \A t \in Threads : pc[t] = "idle"
  BY DEF Unload
<1>3. /\ FilterFree /\ plist' = <<>> /\ UNCHANGED <<alive, threadVars, appVars>>
  BY DEF Unload
<1>4. RingInv' /\ Length' = Length
  BY <1>1, <1>3, FreeKeepsRing
<1>5. /\ pc' = pc /\ woken' = woken /\ asked' = asked /\ creates' = creates
      /\ app' = app /\ answers' = answers /\ adding' = adding /\ alive' = alive
      /\ event' = event
  BY <1>3 DEF threadVars, appVars, FilterFree
<1>6. plist' \in Seq(Entries)
  BY <1>3
<1>7. PlaceTypes'
  BY <1>1, <1>5, <1>6 DEF PlaceTypes, Entries
<1>8. AppInv'
  BY <1>1, <1>2, <1>5 DEF AppInv
<1> QED BY <1>4, <1>7, <1>8 DEF Inv

\* At the start.
LEMMA InitInv ==
    ASSUME Init
    PROVE  Inv
<1>1. QueueInit
  BY DEF Init
<1>2. 0 \in Slots /\ MaxRequests \in Nat /\ QueueSize \in Nat
  BY QueueAssumption DEF Slots
<1>3. Length = 0
  <2>1. Span(0, 0) = 0
    BY <1>2, SpanForm
  <2> QED BY <1>1, <2>1, QueueIsWindow DEF QueueInit
<1>4. Queued = {}
  BY <1>3 DEF Queued
<1>5. RingTypes
  <2>1. Empty \in Request
    BY <1>2 DEF Empty, Request
  <2>2. data \in [Slots -> Request] /\ heap = {} /\ head = 0 /\ tail = 0
    BY <1>1, <2>1 DEF QueueInit
  <2>3. {logged, reported, lastRead} \subseteq 0..MaxRequests
    BY <1>1, <1>2 DEF QueueInit
  <2>4. {freedTwice, fresh, event, signalled, gotLog, unloaded} \subseteq BOOLEAN
    BY <1>1 DEF QueueInit
  <2> QED BY <1>2, <2>2, <2>3, <2>4 DEF RingTypes
<1>6. RequestsInOrder
  BY <1>1, <1>3 DEF RequestsInOrder, QueueInit
<1>7. LossesAreCounted
  <2>1. Counted(data, {}) = 0
    BY <1>5, QueueTypes, CountedSteps
  <2> QED BY <1>1, <1>4, <2>1 DEF LossesAreCounted, QueueInit
<1>8. MemoryIsOwned
  BY <1>1, <1>4 DEF MemoryIsOwned, QueueInit
<1>9. PlaceTypes
  <2>1. plist \in Seq(Entries)
    BY DEF Init
  <2>2. 0 \in Lost..MaxRequests
    BY <1>2 DEF Lost
  <2> QED BY <2>1, <2>2 DEF Init, PlaceTypes, Entries
<1>10. AppInv
  BY <1>1 DEF Init, QueueInit, AppInv
<1> QED BY <1>5, <1>6, <1>7, <1>8, <1>9, <1>10 DEF Inv, RingInv

\* Nothing happens.
LEMMA StutterInv ==
    ASSUME Inv, UNCHANGED vars
    PROVE  Inv'
<1>1. PlaceTypes /\ UNCHANGED queueVars /\ app' = app /\ pc' = pc
  BY DEF Inv, vars, appVars, threadVars
<1>2. PlaceTypes'
  BY DEF Inv, PlaceTypes, vars, appVars, threadVars
<1> QED BY <1>1, <1>2, ListStep

\* Every step keeps the invariant.
LEMMA NextInv ==
    ASSUME Inv, [Next]_vars
    PROVE  Inv'
<1>1. ASSUME NEW t \in Threads, Thread(t)
      PROVE  Inv'
  BY <1>1, CreateBeginInv, SetEventFoundInv, SetEventNotFoundInv, SetEventAddInv,
     LogResolveInv, LogOtherInv, SignalTestInv, SignalSetInv, WaitEndsInv, Zenon DEF Thread
<1>2. ASSUME NEW p \in Pids, ProcessCreate(p) \/ ProcessTerminate(p)
      PROVE  Inv'
  BY <1>2, ProcessCreateInv, ProcessTerminateInv
<1>3. CASE App
  BY <1>3, AppOpensInv, AppClosesInv, AppWakesInv, AppReadsInv, AppAnswersInv, AppAddsInv,
     Zenon DEF App
<1>4. CASE Unload
  BY <1>4, UnloadInv
<1>5. CASE UNCHANGED vars
  BY <1>5, StutterInv
<1> QED BY <1>1, <1>2, <1>3, <1>4, <1>5 DEF Next

\* The invariant holds.
LEMMA Invariant == Spec => []Inv
<1>1. Init => Inv
  BY InitInv
<1>2. Inv /\ [Next]_vars => Inv'
  BY NextInv
<1> QED BY <1>1, <1>2, PTL DEF Spec

\* Variables have their types, however many requests are logged, read, lost
\* and answered (TypeOK).
THEOREM TypeCorrect == Spec => []TypeOK
<1>1. Inv => TypeOK
  BY DEF Inv, RingInv, RingTypes, PlaceTypes, TypeOK
<1> QED BY <1>1, Invariant, PTL

\* log_request, get_request and filter_free: what is logged is read in its turn
\* or counted as lost, and what it points to is freed with it, for a ring of
\* any size (RingIsExact).
THEOREM RingExact == Spec => []RingIsExact
<1>1. Inv => RingIsExact
  BY RingInvExact DEF Inv
<1> QED BY <1>1, Invariant, PTL

\* log_request and the application: it does not sleep through a request that
\* is logged while it has the device open (RequestWakesApp).
THEOREM WakesApp == Spec => []RequestWakesApp
<1>1. Inv => RequestWakesApp
  BY DEF Inv, AppInv, RequestWakesApp
<1> QED BY <1>1, Invariant, PTL

-----------------------------------------------------------------------------
(* The names                                                               *)

\* The list points to a thread only from an entry of its process.
EventsAreOfProcess ==
    \A k \in DOMAIN plist : plist[k].event # NoThread => PidOf(plist[k].event) = plist[k].pid

\* t is in a call of tdi_create that looks for the name.
Creating(t) == pc[t] \in {"enter", "add", "log", "leave", "addnull"} \/ asked[t] # 0

\* A thread has a request while it is in log_request for it or waits, and is
\* woken when its name is known.
Sound(t) ==
    /\ pc[t] # "idle" => alive[PidOf(t)]
    /\ asked[t] # 0 => pc[t] \in {"test", "set", "wait"}
    /\ pc[t] = "wait" => asked[t] # 0
    /\ Creating(t) /\ woken[t] => Resolved(PidOf(t))

\* No entry has the name of p, nor is one to be added.
Unnamed(p) == adding # p /\ \A k \in DOMAIN plist : ~ (plist[k].pid = p /\ plist[k].pname)

\* The k-th request is to resolve the name of p.
IsQueued(p, k) == Queue(k).resolve /\ Queue(k).pid = p

\* Nobody has asked for the name of p who has no answer.
Unasked(p) ==
    /\ \A k \in 1..Length : ~ IsQueued(p, k)
    /\ \A a \in answers : a.pid # p

\* The request of t is in the queue or with the application, and no other for
\* its process.
OnWay(t) ==
    /\ \A k \in 1..Length : IsQueued(PidOf(t), k) => Queue(k).id = asked[t]
    /\ \A a \in answers : a.pid = PidOf(t) => a.id = asked[t]
    /\ \/ \E k \in 1..Length : IsQueued(PidOf(t), k)
       \/ \E a \in answers : a.pid = PidOf(t)

\* The first entry for the process of t has its event.
Listed(t) == FindPle(PidOf(t)) # 0 /\ plist[FindPle(PidOf(t))].event = t

\* The answer to t will find its event.
Pending(t) == Listed(t) /\ Unnamed(PidOf(t)) /\ OnWay(t)

\* Before the first create for p nothing is known of it.
NoneYet(p) ==
    creates[p] = 0 =>
        /\ Unnamed(p) /\ Unasked(p)
        /\ \A t \in Threads : PidOf(t) = p => ~ Creating(t)

\* t is in the first create of its process, and alone in one.
First(t) == creates[PidOf(t)] = 1 /\ Creating(t)
Alone(t) == First(t) => \A u \in Threads : PidOf(u) = PidOf(t) /\ Creating(u) => u = t

\* Until it has logged its request nothing is known, and then its event is in
\* the list.
BeforeRequest(t) ==
    First(t) /\ pc[t] \in {"enter", "add", "log"} =>
        /\ Unnamed(PidOf(t)) /\ Unasked(PidOf(t))
        /\ pc[t] = "add" => FindPle(PidOf(t)) = 0
        /\ pc[t] = "log" => Listed(t)

\* From then on it is woken, or lost, or to be answered.
Answered(t) == woken[t] \/ asked[t] = Lost \/ Pending(t)
AfterRequest(t) == First(t) /\ asked[t] # 0 => Answered(t)

ThreadInv(t) == Sound(t) /\ Alone(t) /\ BeforeRequest(t) /\ AfterRequest(t)

NameInv ==
    /\ EventsAreOfProcess
    /\ \A p \in Pids : NoneYet(p)
    /\ \A t \in Threads : ThreadInv(t)

-----------------------------------------------------------------------------
(* The list of processes                                                   *)

\* The list with an entry added.
Added(s, e) == Append(s, e)

\* What the first entries are when one is added.
LEMMA FindAdded ==
    ASSUME NEW s \in Seq(Entries), NEW e \in Entries, NEW p
    PROVE  /\ Find(s, p) # 0 => /\ Find(Added(s, e), p) = Find(s, p)
                                /\ Added(s, e)[Find(s, p)] = s[Find(s, p)]
           /\ Find(s, p) = 0 /\ e.pid # p => Find(Added(s, e), p) = 0
           /\ Find(s, p) = 0 /\ e.pid = p => /\ Find(Added(s, e), p) # 0
                                             /\ Added(s, e)[Find(Added(s, e), p)] = e
<1>1. /\ Added(s, e) \in Seq(Entries) /\ Len(Added(s, e)) = Len(s) + 1
      /\ \A k \in 1..Len(s) : Added(s, e)[k] = s[k]
      /\ Added(s, e)[Len(s) + 1] = e /\ Len(s) \in Nat
  BY AddTyped DEF Added
<1>2. PICK u \in Seq(Entries) : u = Added(s, e)
  BY <1>1
<1>3. /\ Find(s, p) \in 0..Len(s)
      /\ Find(s, p) # 0 => Find(s, p) \in 1..Len(s) /\ s[Find(s, p)].pid = p
      /\ \A j \in 1..Len(s) : s[j].pid = p => Find(s, p) # 0 /\ Find(s, p) <= j
  BY FindFacts
<1>4. /\ Find(u, p) \in 0..Len(u)
      /\ Find(u, p) # 0 => Find(u, p) \in 1..Len(u) /\ u[Find(u, p)].pid = p
      /\ \A j \in 1..Len(u) : u[j].pid = p => Find(u, p) # 0 /\ Find(u, p) <= j
  BY FindFacts
<1>5. CASE Find(s, p) # 0
  <2>1. Find(s, p) \in 1..Len(u) /\ u[Find(s, p)] = s[Find(s, p)]
    BY <1>1, <1>2, <1>3, <1>5
  <2>2. Find(u, p) # 0 /\ Find(u, p) <= Find(s, p)
    BY <1>3, <1>4, <1>5, <2>1
  <2>3. Find(u, p) \in 1..Len(s) /\ s[Find(u, p)].pid = p
    BY <1>1, <1>2, <1>3, <1>4, <2>2
  <2>4. Find(s, p) <= Find(u, p)
    BY <1>3, <2>3
  <2>5. Find(u, p) = Find(s, p)
    BY <1>1, <1>3, <1>4, <2>2, <2>4
  <2> QED BY <1>2, <1>5, <2>1, <2>5
<1>6. CASE Find(s, p) = 0
  <2>1. \A j \in 1..Len(s) : u[j].pid # p
    BY <1>1, <1>2, <1>3, <1>6
  <2>2. CASE e.pid # p
    <3>1. \A j \in 1..Len(u) : u[j].pid # p
      BY <1>1, <1>2, <2>1, <2>2
    <3> QED BY <1>2, <1>4, <1>6, <2>2, <3>1
  <2>3. CASE e.pid = p
    <3>1. Len(s) + 1 \in 1..Len(u) /\ u[Len(s) + 1].pid = p
      BY <1>1, <1>2, <2>3
    <3>2. Find(u, p) # 0 /\ Find(u, p) \in 1..Len(u) /\ u[Find(u, p)].pid = p
      BY <1>4, <3>1
    <3>3. Find(u, p) = Len(s) + 1
      BY <1>1, <1>2, <2>1, <3>2
    <3> QED BY <1>1, <1>2, <1>6, <2>3, <3>2, <3>3
  <2> QED BY <2>2, <2>3
<1> QED BY <1>5, <1>6

\* The first entries stay when one is changed, but not its process.
LEMMA FindChanged ==
    ASSUME NEW s \in Seq(Entries), NEW k \in 1..Len(s), NEW e \in Entries, e.pid = s[k].pid,
           NEW p
    PROVE  Find([s EXCEPT ![k] = e], p) = Find(s, p)
<1>1. PICK u \in Seq(Entries) : u = [s EXCEPT ![k] = e] /\ Len(u) = Len(s)
  BY ChangeTyped
<1>2. DOMAIN u = DOMAIN s
  BY <1>1
<1>3. \A j \in DOMAIN s : u[j].pid = s[j].pid
  BY <1>1
<1>4. {j \in DOMAIN u : u[j].pid = p} = {j \in DOMAIN s : s[j].pid = p}
  BY <1>2, <1>3
<1>5. Find(u, p) = Find(s, p)
  BY <1>4, Zenon DEF Find
<1> QED BY <1>1, <1>5

\* The entries that are left when one is dropped were there.
LEMMA DroppedWereThere ==
    ASSUME NEW s \in Seq(Entries), NEW q, NEW j \in 1..Len(Dropped(s, q))
    PROVE  Dropped(s, q)[j] = s[IF Find(s, q) # 0 /\ j >= Find(s, q) THEN j + 1 ELSE j]
<1>1. Len(Dropped(s, q)) = Len(s) - IF Find(s, q) = 0 THEN 0 ELSE 1
  BY DropTyped
<1>2. j \in 1..(Len(s) - IF Find(s, q) = 0 THEN 0 ELSE 1)
  BY <1>1
<1> QED BY <1>2 DEF Dropped

\* The first entries of the others stay when one is dropped.
LEMMA FindDropped ==
    ASSUME NEW s \in Seq(Entries), NEW q, NEW p, p # q
    PROVE  /\ Find(s, p) = 0 => Find(Dropped(s, q), p) = 0
           /\ Find(s, p) # 0 => /\ Find(Dropped(s, q), p) # 0
                                /\ Dropped(s, q)[Find(Dropped(s, q), p)] = s[Find(s, p)]
<1> DEFINE at(j) == IF Find(s, q) # 0 /\ j >= Find(s, q) THEN j + 1 ELSE j
<1>1. PICK u \in Seq(Entries) :
          /\ u = Dropped(s, q)
          /\ Len(u) = Len(s) - IF Find(s, q) = 0 THEN 0 ELSE 1
  BY DropTyped
<1>2. \A j \in 1..Len(u) : u[j] = s[at(j)]
  BY <1>1, DroppedWereThere
<1>3. /\ Find(s, p) \in 0..Len(s) /\ Find(s, q) \in 0..Len(s) /\ Len(s) \in Nat
      /\ Find(s, p) # 0 => Find(s, p) \in 1..Len(s) /\ s[Find(s, p)].pid = p
      /\ Find(s, q) # 0 => Find(s, q) \in 1..Len(s) /\ s[Find(s, q)].pid = q
      /\ \A j \in 1..Len(s) : s[j].pid = p => Find(s, p) # 0 /\ Find(s, p) <= j
  BY FindFacts
<1>4. /\ Find(u, p) \in 0..Len(u)
      /\ Find(u, p) # 0 => Find(u, p) \in 1..Len(u) /\ u[Find(u, p)].pid = p
      /\ \A j \in 1..Len(u) : u[j].pid = p => Find(u, p) # 0 /\ Find(u, p) <= j
  BY FindFacts
<1>5. \A j \in 1..Len(u) : at(j) \in 1..Len(s)
  BY <1>1, <1>3
<1>6. CASE Find(s, p) = 0
  <2>1. \A j \in 1..Len(u) : u[j].pid # p
    BY <1>2, <1>3, <1>5, <1>6
  <2> QED BY <1>1, <1>4, <1>6, <2>1
<1>7. CASE Find(s, p) # 0
  <2>1. PICK i \in 1..Len(u) : at(i) = Find(s, p)
    <3>1. Find(s, p) # Find(s, q)
      BY <1>3, <1>7
    <3>2. CASE Find(s, q) = 0 \/ Find(s, p) < Find(s, q)
      <4>1. Find(s, p) \in 1..Len(u) /\ at(Find(s, p)) = Find(s, p)
        BY <1>1, <1>3, <1>7, <3>2
      <4> QED BY <4>1
    <3>3. CASE Find(s, q) # 0 /\ Find(s, q) < Find(s, p)
      <4>1. Find(s, p) - 1 \in 1..Len(u) /\ at(Find(s, p) - 1) = Find(s, p)
        BY <1>1, <1>3, <1>7, <3>3
      <4> QED BY <4>1
    <3> QED BY <1>3, <3>1, <3>2, <3>3
  <2>2. u[i] = s[Find(s, p)] /\ u[i].pid = p
    BY <1>2, <1>3, <1>7, <2>1
  <2>3. Find(u, p) # 0 /\ Find(u, p) <= i /\ Find(u, p) \in 1..Len(u)
    BY <1>4, <2>2
  <2>4. at(Find(u, p)) \in 1..Len(s) /\ s[at(Find(u, p))].pid = p
    BY <1>2, <1>4, <1>5, <2>3
  <2>5. Find(s, p) <= at(Find(u, p))
    BY <1>3, <2>4
  <2>6. i <= Find(u, p)
    BY <1>3, <2>1, <2>3, <2>5
  <2>7. Find(u, p) = i
    BY <2>3, <2>6
  <2> QED BY <1>1, <1>7, <2>2, <2>3, <2>7
<1> QED BY <1>6, <1>7

-----------------------------------------------------------------------------
(* What a step leaves alone                                                *)

\* A thread does not move, but its request may be lost.
ThreadStays(t) ==
    /\ pc'[t] = pc[t] /\ woken'[t] = woken[t]
    /\ asked'[t] = asked[t] \/ (asked[t] # 0 /\ asked'[t] = Lost)
    /\ creates'[PidOf(t)] = creates[PidOf(t)]
    /\ pc[t] # "idle" => alive'[PidOf(t)] = alive[PidOf(t)]

\* Nobody begins a create, or nobody for a process.
NoneBegins == \A u \in Threads : Creating(u)' => Creating(u)
NoneBeginsFor(p) == \A u \in Threads : PidOf(u) = p /\ Creating(u)' => Creating(u)

\* The list keeps for a thread what it needs there.
ListStays(t) ==
    /\ Resolved(PidOf(t)) => Resolved(PidOf(t))'
    /\ First(t) /\ Listed(t) => Listed(t)'
    /\ Unnamed(PidOf(t)) => Unnamed(PidOf(t))'
    /\ First(t) /\ pc[t] = "add" /\ Unnamed(PidOf(t)) /\ FindPle(PidOf(t)) = 0
         => FindPle(PidOf(t))' = 0

\* The queue and the application keep the request of a thread, or it is lost.
RequestStays(t) ==
    /\ First(t) /\ Unasked(PidOf(t)) => Unasked(PidOf(t))'
    /\ First(t) /\ asked[t] # 0 /\ OnWay(t) => asked'[t] = Lost \/ OnWay(t)'

\* Then what is known of the thread stays.
LEMMA Bystander ==
    ASSUME NameInv, NEW t \in Threads, ThreadStays(t), NoneBeginsFor(PidOf(t)),
           pc[t] # "idle" => ListStays(t) /\ RequestStays(t)
    PROVE  ThreadInv(t)'
<1>1. Sound(t) /\ Alone(t) /\ BeforeRequest(t) /\ AfterRequest(t)
  BY DEF NameInv, ThreadInv
<1>2. /\ pc'[t] = pc[t] /\ woken'[t] = woken[t]
      /\ asked'[t] = asked[t] \/ (asked[t] # 0 /\ asked'[t] = Lost)
      /\ creates'[PidOf(t)] = creates[PidOf(t)]
      /\ pc[t] # "idle" => alive'[PidOf(t)] = alive[PidOf(t)]
  BY DEF ThreadStays
<1>3. Lost # 0
  BY DEF Lost
<1>4. /\ Creating(t)' => Creating(t)
      /\ First(t)' => First(t)
      /\ Creating(t) => pc[t] # "idle"
      /\ asked'[t] # 0 => asked[t] # 0
      /\ asked[t] # 0 => asked'[t] # 0
      /\ asked[t] = Lost => asked'[t] = Lost
  BY <1>1, <1>2, <1>3 DEF Creating, First, Sound
<1>5. Sound(t)'
  <2>1. pc'[t] # "idle" => alive'[PidOf(t)]
    BY <1>1, <1>2 DEF Sound
  <2>2. asked'[t] # 0 => pc'[t] \in {"test", "set", "wait"}
    BY <1>1, <1>2, <1>4 DEF Sound
  <2>3. pc'[t] = "wait" => asked'[t] # 0
    BY <1>1, <1>2, <1>4 DEF Sound
  <2>4. Creating(t)' /\ woken'[t] => Resolved(PidOf(t))'
    BY <1>1, <1>2, <1>4 DEF Sound, ListStays
  <2> QED BY <2>1, <2>2, <2>3, <2>4 DEF Sound
<1>6. Alone(t)'
  BY <1>1, <1>4 DEF Alone, NoneBeginsFor
<1>7. BeforeRequest(t)'
  <2> SUFFICES ASSUME First(t)', pc'[t] \in {"enter", "add", "log"}
               PROVE  /\ Unnamed(PidOf(t))' /\ Unasked(PidOf(t))'
                      /\ pc'[t] = "add" => FindPle(PidOf(t))' = 0
                      /\ pc'[t] = "log" => Listed(t)'
    BY DEF BeforeRequest
  <2>1. /\ First(t) /\ pc[t] # "idle"
        /\ Unnamed(PidOf(t)) /\ Unasked(PidOf(t))
        /\ pc[t] = "add" => FindPle(PidOf(t)) = 0
        /\ pc[t] = "log" => Listed(t)
    BY <1>1, <1>2, <1>4 DEF BeforeRequest
  <2> QED BY <1>2, <2>1 DEF ListStays, RequestStays
<1>8. AfterRequest(t)'
  <2> SUFFICES ASSUME First(t)', asked'[t] # 0
               PROVE  Answered(t)'
    BY DEF AfterRequest
  <2>1. First(t) /\ asked[t] # 0 /\ pc[t] # "idle" /\ Answered(t)
    BY <1>1, <1>4 DEF AfterRequest, First
  <2>2. CASE woken[t] \/ asked[t] = Lost
    BY <1>2, <1>4, <2>2 DEF Answered
  <2>3. CASE Pending(t)
    <3>1. Listed(t)' /\ Unnamed(PidOf(t))'
      BY <2>1, <2>3 DEF Pending, ListStays
    <3>2. asked'[t] = Lost \/ OnWay(t)'
      BY <2>1, <2>3 DEF Pending, RequestStays
    <3> QED BY <3>1, <3>2 DEF Answered, Pending
  <2> QED BY <2>1, <2>2, <2>3 DEF Answered
<1> QED BY <1>5, <1>6, <1>7, <1>8 DEF ThreadInv

\* What is known of a process before its first create stays.
LEMMA ProcessBystander ==
    ASSUME NameInv, NEW p \in Pids, creates'[p] = creates[p], NoneBeginsFor(p),
           creates[p] = 0 /\ Unnamed(p) /\ Unasked(p) => Unnamed(p)' /\ Unasked(p)'
    PROVE  NoneYet(p)'
<1>1. NoneYet(p)
  BY DEF NameInv
<1> QED BY <1>1 DEF NoneYet, NoneBeginsFor

\* The queue and the answers are as before.
LEMMA SameRequests ==
    ASSUME Length' = Length, \A k : Queue(k)' = Queue(k), answers' = answers
    PROVE  /\ \A p : Unasked(p) => Unasked(p)'
           /\ \A t : asked'[t] = asked[t] => RequestStays(t)
           /\ \A t : asked'[t] = asked[t] /\ OnWay(t) => OnWay(t)'
<1>1. \A p, k : IsQueued(p, k)' <=> IsQueued(p, k)
  BY DEF IsQueued
<1>2. ASSUME NEW p, Unasked(p)
      PROVE  Unasked(p)'
  BY <1>1, <1>2 DEF Unasked
<1>3. ASSUME NEW t, asked'[t] = asked[t], OnWay(t)
      PROVE  OnWay(t)'
  <2>1. /\ \A k \in 1..Length : IsQueued(PidOf(t), k) => Queue(k).id = asked[t]
        /\ \A a \in answers : a.pid = PidOf(t) => a.id = asked[t]
        /\ \/ \E k \in 1..Length : IsQueued(PidOf(t), k)
           \/ \E a \in answers : a.pid = PidOf(t)
    BY <1>3 DEF OnWay
  <2>2. \A k \in 1..Length' : IsQueued(PidOf(t), k)' => Queue(k)'.id = asked'[t]
    BY <1>1, <1>3, <2>1
  <2>3. \A a \in answers' : a.pid = PidOf(t) => a.id = asked'[t]
    BY <1>3, <2>1
  <2>4. \/ \E k \in 1..Length' : IsQueued(PidOf(t), k)'
        \/ \E a \in answers' : a.pid = PidOf(t)
    BY <1>1, <2>1
  <2> QED BY <2>2, <2>3, <2>4 DEF OnWay
<1> QED BY <1>2, <1>3 DEF RequestStays

\* The list is as before.
LEMMA SameList ==
    ASSUME plist' = plist, adding' = adding
    PROVE  /\ EventsAreOfProcess => EventsAreOfProcess'
           /\ \A p : Unnamed(p) => Unnamed(p)'
           /\ \A p : FindPle(p)' = FindPle(p) /\ (Resolved(p)' <=> Resolved(p))
           /\ \A t : Listed(t)' <=> Listed(t)
           /\ \A t : ListStays(t)
<1>1. \A p : FindPle(p)' = FindPle(p)
  BY DEF FindPle
<1>2. \A p : Unnamed(p) => Unnamed(p)'
  BY DEF Unnamed
<1>3. \A p : Resolved(p)' <=> Resolved(p)
  BY <1>1 DEF Resolved
<1>4. \A t : Listed(t)' <=> Listed(t)
  BY <1>1 DEF Listed
<1>5. EventsAreOfProcess => EventsAreOfProcess'
  BY DEF EventsAreOfProcess
<1> QED BY <1>1, <1>2, <1>3, <1>4, <1>5 DEF ListStays

\* What is found when an entry has been added.
LEMMA FoundAfterAdd ==
    ASSUME plist \in Seq(Entries), NEW e \in Entries, plist' = Added(plist, e), NEW p
    PROVE  /\ FindPle(p) # 0 => /\ FindPle(p)' = FindPle(p)
                                /\ plist'[FindPle(p)] = plist[FindPle(p)]
           /\ FindPle(p) = 0 /\ e.pid # p => FindPle(p)' = 0
           /\ FindPle(p) = 0 /\ e.pid = p => FindPle(p)' # 0 /\ plist'[FindPle(p)'] = e
<1>1. /\ Find(plist, p) # 0 => /\ Find(Added(plist, e), p) = Find(plist, p)
                               /\ Added(plist, e)[Find(plist, p)] = plist[Find(plist, p)]
      /\ Find(plist, p) = 0 /\ e.pid # p => Find(Added(plist, e), p) = 0
      /\ Find(plist, p) = 0 /\ e.pid = p => /\ Find(Added(plist, e), p) # 0
                                            /\ Added(plist, e)[Find(Added(plist, e), p)] = e
  BY FindAdded
<1> QED BY <1>1, FindIsOfList

\* An entry without a name is added for process q.
LEMMA ListGrows ==
    ASSUME NameInv, plist \in Seq(Entries), NEW e \in Entries,
           e.event # NoThread => PidOf(e.event) = e.pid,
           plist' = Added(plist, e),
           e.pname => adding = e.pid,
           adding' \in {adding, NoPid}
    PROVE  /\ EventsAreOfProcess'
           /\ \A p \in Pids : Unnamed(p) => Unnamed(p)'
           /\ \A p : Resolved(p) => Resolved(p)'
           /\ \A t \in Threads : (PidOf(t) = e.pid /\ First(t) => pc[t] # "add" \/ e.pname)
                => ListStays(t)
<1>1. /\ Added(plist, e) \in Seq(Entries) /\ Len(Added(plist, e)) = Len(plist) + 1
      /\ \A k \in 1..Len(plist) : Added(plist, e)[k] = plist[k]
      /\ Added(plist, e)[Len(plist) + 1] = e /\ Len(plist) \in Nat
  BY AddTyped DEF Added
<1>2. /\ DOMAIN plist = 1..Len(plist) /\ DOMAIN plist' = 1..(Len(plist) + 1)
      /\ \A k \in 1..Len(plist) : plist'[k] = plist[k]
      /\ plist'[Len(plist) + 1] = e
  BY <1>1
<1>3. \A k \in DOMAIN plist' : plist'[k] = e \/ (k \in DOMAIN plist /\ plist'[k] = plist[k])
  BY <1>1, <1>2
<1>4. EventsAreOfProcess'
  BY <1>3 DEF NameInv, EventsAreOfProcess
<1>5. ASSUME NEW p \in Pids, Unnamed(p)
      PROVE  Unnamed(p)'
  <2>1. adding' # p
    BY <1>5, ResolveAssumption DEF Unnamed
  <2>2. \A k \in DOMAIN plist' : ~ (plist'[k].pid = p /\ plist'[k].pname)
    BY <1>3, <1>5 DEF Unnamed
  <2> QED BY <2>1, <2>2 DEF Unnamed
<1>6. \A p : /\ FindPle(p) # 0 => FindPle(p)' = FindPle(p) /\ plist'[FindPle(p)] = plist[FindPle(p)]
             /\ FindPle(p) = 0 /\ e.pid # p => FindPle(p)' = 0
  BY FoundAfterAdd
<1>7. ASSUME NEW t \in Threads, PidOf(t) = e.pid /\ First(t) => pc[t] # "add" \/ e.pname
      PROVE  ListStays(t)
  <2>1. Resolved(PidOf(t)) => Resolved(PidOf(t))'
    BY <1>6 DEF Resolved
  <2>2. Listed(t) => Listed(t)'
    BY <1>6 DEF Listed
  <2>3. Unnamed(PidOf(t)) => Unnamed(PidOf(t))'
    BY <1>5, ThreadFacts
  <2>4. First(t) /\ pc[t] = "add" /\ Unnamed(PidOf(t)) /\ FindPle(PidOf(t)) = 0
         => FindPle(PidOf(t))' = 0
    BY <1>6, <1>7 DEF Unnamed
  <2> QED BY <2>1, <2>2, <2>3, <2>4 DEF ListStays
<1>8. \A p : Resolved(p) => Resolved(p)'
  BY <1>6 DEF Resolved
<1> QED BY <1>4, <1>5, <1>7, <1>8

\* An entry gets another event, of a thread of its process or none.
LEMMA ListPoints ==
    ASSUME NameInv, plist \in Seq(Entries), NEW q, FindPle(q) # 0,
           NEW e \in Threads \cup {NoThread}, e # NoThread => PidOf(e) = q,
           plist' = [plist EXCEPT ![FindPle(q)].event = e], adding' = adding
    PROVE  /\ EventsAreOfProcess'
           /\ \A p : Unnamed(p) => Unnamed(p)'
           /\ FindPle(q)' = FindPle(q) /\ plist'[FindPle(q)].event = e
           /\ \A p : Resolved(p) => Resolved(p)'
           /\ \A t \in Threads : (PidOf(t) = q => ~ First(t)) => ListStays(t)
<1>1. PICK k : k = FindPle(q)
  OBVIOUS
<1>2. k \in 1..Len(plist) /\ plist[k].pid = q
  BY <1>1, FindFacts, FindIsOfList
<1>3. PICK r : r = [plist[k] EXCEPT !.event = e]
  OBVIOUS
<1>4. plist[k] \in Entries
  BY <1>2
<1>5. /\ r \in Entries /\ r.pid = plist[k].pid /\ r.pname = plist[k].pname /\ r.event = e
  BY <1>3, <1>4 DEF Entries
<1>6. plist' = [plist EXCEPT ![k] = r]
  BY <1>1, <1>3
<1>7. DOMAIN plist' = DOMAIN plist /\ k \in DOMAIN plist
  BY <1>2, <1>6
<1>8. \A j \in DOMAIN plist : plist'[j] = IF j = k THEN r ELSE plist[j]
  BY <1>6
<1>9. \A p : FindPle(p)' = FindPle(p)
  <2> SUFFICES ASSUME NEW p
               PROVE  FindPle(p)' = FindPle(p)
    OBVIOUS
  <2>1. Find([plist EXCEPT ![k] = r], p) = Find(plist, p)
    BY <1>2, <1>5, FindChanged
  <2> QED BY <1>6, <2>1, FindIsOfList
<1>10. \A p : FindPle(p) # 0 => FindPle(p) \in DOMAIN plist /\ plist[FindPle(p)].pid = p
  BY FindFacts, FindIsOfList
<1>11. EventsAreOfProcess'
  <2>1. \A j \in DOMAIN plist :
           plist[j].event # NoThread => PidOf(plist[j].event) = plist[j].pid
    BY DEF NameInv, EventsAreOfProcess
  <2>2. ASSUME NEW j \in DOMAIN plist', plist'[j].event # NoThread
        PROVE  PidOf(plist'[j].event) = plist'[j].pid
    <3>1. CASE j = k
      BY <1>2, <1>5, <1>7, <1>8, <2>1, <2>2, <3>1
    <3>2. CASE j # k
      BY <1>7, <1>8, <2>1, <2>2, <3>2
    <3> QED BY <3>1, <3>2
  <2> QED BY <2>2 DEF EventsAreOfProcess
<1>12. \A p : Unnamed(p) => Unnamed(p)'
  BY <1>5, <1>7, <1>8 DEF Unnamed
<1>13. ASSUME NEW t \in Threads, PidOf(t) = q => ~ First(t)
       PROVE  ListStays(t)
  <2>1. Resolved(PidOf(t)) => Resolved(PidOf(t))'
    BY <1>5, <1>8, <1>9, <1>10 DEF Resolved
  <2>2. First(t) /\ Listed(t) => Listed(t)'
    <3>1. CASE PidOf(t) # q
      BY <1>2, <1>8, <1>9, <1>10, <3>1 DEF Listed
    <3> QED BY <1>13, <3>1
  <2> QED BY <1>9, <1>12, <2>1, <2>2 DEF ListStays
<1>14. plist'[FindPle(q)].event = e
  BY <1>1, <1>5, <1>7, <1>8
<1>15. \A p : Resolved(p) => Resolved(p)'
  BY <1>5, <1>8, <1>9, <1>10 DEF Resolved
<1> QED BY <1>9, <1>11, <1>12, <1>13, <1>14, <1>15

\* The first entry for process q is dropped.
LEMMA ListShrinks ==
    ASSUME NameInv, plist \in Seq(Entries), NEW q,
           plist' = Dropped(plist, q), adding' = adding
    PROVE  /\ EventsAreOfProcess'
           /\ \A p : Unnamed(p) => Unnamed(p)'
           /\ \A t \in Threads : PidOf(t) # q => ListStays(t)
<1>1. plist' \in Seq(Entries)
  BY DropTyped
<1>2. Len(plist') = Len(plist) - (IF FindPle(q) = 0 THEN 0 ELSE 1) /\ Len(plist) \in Nat
  BY DropTyped, FindIsOfList
<1>3. FindPle(q) \in 0..Len(plist)
  BY FindFacts, FindIsOfList
<1>4. ASSUME NEW j \in DOMAIN plist'
      PROVE  \E i \in DOMAIN plist : plist'[j] = plist[i]
  <2>1. j \in 1..Len(plist')
    BY <1>1
  <2>2. plist'[j] = plist[IF FindPle(q) # 0 /\ j >= FindPle(q) THEN j + 1 ELSE j]
    BY <2>1, DroppedWereThere, FindIsOfList
  <2>3. (IF FindPle(q) # 0 /\ j >= FindPle(q) THEN j + 1 ELSE j) \in 1..Len(plist)
    BY <1>2, <1>3, <2>1
  <2> QED BY <2>2, <2>3
<1>5. EventsAreOfProcess'
  BY <1>4 DEF NameInv, EventsAreOfProcess
<1>6. \A p : Unnamed(p) => Unnamed(p)'
  BY <1>4 DEF Unnamed
<1>7. \A p : p # q =>
         /\ FindPle(p) = 0 => FindPle(p)' = 0
         /\ FindPle(p) # 0 => FindPle(p)' # 0 /\ plist'[FindPle(p)'] = plist[FindPle(p)]
  BY FindDropped, FindIsOfList
<1>8. ASSUME NEW t \in Threads, PidOf(t) # q
      PROVE  ListStays(t)
  <2>1. Resolved(PidOf(t)) => Resolved(PidOf(t))'
    BY <1>7, <1>8 DEF Resolved
  <2>2. Listed(t) => Listed(t)'
    BY <1>7, <1>8 DEF Listed
  <2> QED BY <1>6, <1>7, <1>8, <2>1, <2>2 DEF ListStays
<1> QED BY <1>5, <1>6, <1>8

\* What is known of a thread, and of a process, is not disturbed.
Undisturbed(t) == ThreadStays(t) /\ (pc[t] # "idle" => ListStays(t) /\ RequestStays(t))
ProcessStays(p) ==
    /\ creates'[p] = creates[p]
    /\ creates[p] = 0 /\ Unnamed(p) /\ Unasked(p) => Unnamed(p)' /\ Unasked(p)'

\* A step of somebody else.
LEMMA QuietStep ==
    ASSUME NameInv, EventsAreOfProcess', NoneBegins,
           \A t \in Threads : Undisturbed(t), \A p \in Pids : ProcessStays(p)
    PROVE  NameInv'
<1>1. ASSUME NEW t \in Threads
      PROVE  ThreadInv(t)'
  <2>1. ThreadStays(t) /\ (pc[t] # "idle" => ListStays(t) /\ RequestStays(t))
    BY DEF Undisturbed
  <2> QED BY <2>1, Bystander DEF NoneBegins, NoneBeginsFor
<1>2. ASSUME NEW p \in Pids
      PROVE  NoneYet(p)'
  BY ProcessBystander DEF ProcessStays, NoneBegins, NoneBeginsFor
<1> QED BY <1>1, <1>2 DEF NameInv

\* A step of thread u in its call.
LEMMA ActorStep ==
    ASSUME NameInv, EventsAreOfProcess', NoneBegins, NEW u \in Threads, ThreadInv(u)',
           \A t \in Threads \ {u} : Undisturbed(t), \A p \in Pids : ProcessStays(p)
    PROVE  NameInv'
<1>1. ASSUME NEW t \in Threads
      PROVE  ThreadInv(t)'
  <2>1. CASE t = u
    BY <2>1
  <2>2. CASE t # u
    <3>1. ThreadStays(t) /\ (pc[t] # "idle" => ListStays(t) /\ RequestStays(t))
      BY <2>2 DEF Undisturbed
    <3> QED BY <3>1, Bystander DEF NoneBegins, NoneBeginsFor
  <2> QED BY <2>1, <2>2
<1>2. ASSUME NEW p \in Pids
      PROVE  NoneYet(p)'
  BY ProcessBystander DEF ProcessStays, NoneBegins, NoneBeginsFor
<1> QED BY <1>1, <1>2 DEF NameInv

\* The parts of the invariant for a thread.
LEMMA ThreadInvOf ==
    ASSUME NameInv, NEW t \in Threads
    PROVE  Sound(t) /\ Alone(t) /\ BeforeRequest(t) /\ AfterRequest(t)
  BY DEF NameInv, ThreadInv

\* Who is in a create is not idle, and in the first create there is no other.
LEMMA CreatorFacts ==
    ASSUME NameInv, NEW t \in Threads
    PROVE  /\ Creating(t) => pc[t] # "idle"
           /\ \A u \in Threads : First(t) /\ PidOf(u) = PidOf(t) /\ Creating(u) => u = t
  BY ThreadInvOf DEF Sound, Creating, Alone

\* With memory for it, an entry is added.
LEMMA EntryAdded ==
    ASSUME AllocResults = {TRUE}, NEW e, AddPle(e)
    PROVE  plist' = Added(plist, e)
  BY DEF AddPle, Added

\* The list has its type.
LEMMA ListTyped == Inv => plist \in Seq(Entries)
  BY DEF Inv, PlaceTypes, Entries

-----------------------------------------------------------------------------
(* The steps keep it                                                       *)

\* A process is created: it has no thread yet.
LEMMA ProcessCreateName ==
    ASSUME AllocResults = {TRUE}, Inv, NameInv, NEW q \in Pids, ProcessCreate(q)
    PROVE  NameInv'
<1>1. /\ UNCHANGED <<queueVars, threadVars, appVars>> /\ ~ alive[q]
      /\ alive' = [alive EXCEPT ![q] = TRUE]
      /\ plist' = Added(plist, Entry(q, FALSE, NoThread))
  BY EntryAdded DEF ProcessCreate
<1>2. /\ pc' = pc /\ woken' = woken /\ asked' = asked /\ creates' = creates
      /\ answers' = answers /\ adding' = adding
      /\ Length' = Length /\ \A k : Queue(k)' = Queue(k)
  BY <1>1, QueueStays DEF threadVars, appVars, Inv
<1>3. PICK e : e = Entry(q, FALSE, NoThread)
  OBVIOUS
<1>4. e \in Entries /\ e.pid = q /\ e.pname = FALSE /\ e.event = NoThread
  BY <1>3 DEF Entry, Entries
<1>5. alive \in [Pids -> BOOLEAN]
  BY DEF Inv, PlaceTypes
<1>6. /\ EventsAreOfProcess'
      /\ \A p \in Pids : Unnamed(p) => Unnamed(p)'
      /\ \A t \in Threads : (PidOf(t) = e.pid /\ First(t) => pc[t] # "add" \/ e.pname) => ListStays(t)
  BY <1>1, <1>2, <1>3, <1>4, ListTyped, ListGrows
<1>7. /\ \A p : Unasked(p) => Unasked(p)'
      /\ \A t : asked'[t] = asked[t] => RequestStays(t)
  BY <1>2, SameRequests
<1>8. NoneBegins
  BY <1>2 DEF NoneBegins, Creating
<1>9. ASSUME NEW t \in Threads
      PROVE  Undisturbed(t)
  <2>1. pc[t] # "idle" => PidOf(t) # q
    BY <1>1, ThreadInvOf DEF Sound
  <2>2. ThreadStays(t)
    <3>1. PidOf(t) \in Pids
      BY ThreadFacts
    <3>2. pc[t] # "idle" => alive'[PidOf(t)] = alive[PidOf(t)]
      BY <1>1, <1>5, <2>1, <3>1
    <3> QED BY <1>2, <3>2 DEF ThreadStays
  <2> QED BY <1>2, <1>4, <1>6, <1>7, <2>1, <2>2 DEF Undisturbed
<1>10. \A p \in Pids : ProcessStays(p)
  BY <1>2, <1>6, <1>7 DEF ProcessStays
<1> QED BY <1>6, <1>8, <1>9, <1>10, QuietStep

\* A process ends: its threads are done.
LEMMA ProcessTerminateName ==
    ASSUME Inv, NameInv, NEW q \in Pids, ProcessTerminate(q)
    PROVE  NameInv'
<1>1. /\ UNCHANGED <<queueVars, threadVars, appVars>>
      /\ \A t \in Threads : PidOf(t) = q => pc[t] = "idle"
      /\ alive' = [alive EXCEPT ![q] = FALSE]
      /\ plist' = Dropped(plist, q)
  BY FindIsOfList DEF ProcessTerminate, Dropped
<1>2. /\ pc' = pc /\ woken' = woken /\ asked' = asked /\ creates' = creates
      /\ answers' = answers /\ adding' = adding
      /\ Length' = Length /\ \A k : Queue(k)' = Queue(k)
  BY <1>1, QueueStays DEF threadVars, appVars, Inv
<1>3. alive \in [Pids -> BOOLEAN]
  BY DEF Inv, PlaceTypes
<1>4. /\ EventsAreOfProcess'
      /\ \A p : Unnamed(p) => Unnamed(p)'
      /\ \A t \in Threads : PidOf(t) # q => ListStays(t)
  BY <1>1, <1>2, ListTyped, ListShrinks
<1>5. /\ \A p : Unasked(p) => Unasked(p)'
      /\ \A t : asked'[t] = asked[t] => RequestStays(t)
  BY <1>2, SameRequests
<1>6. NoneBegins
  BY <1>2 DEF NoneBegins, Creating
<1>7. ASSUME NEW t \in Threads
      PROVE  Undisturbed(t)
  <2>1. pc[t] # "idle" => PidOf(t) # q
    BY <1>1
  <2>2. ThreadStays(t)
    <3>1. PidOf(t) \in Pids
      BY ThreadFacts
    <3>2. pc[t] # "idle" => alive'[PidOf(t)] = alive[PidOf(t)]
      BY <1>1, <1>3, <2>1, <3>1
    <3> QED BY <1>2, <3>2 DEF ThreadStays
  <2> QED BY <1>2, <1>4, <1>5, <2>1, <2>2 DEF Undisturbed
<1>8. \A p \in Pids : ProcessStays(p)
  BY <1>2, <1>4, <1>5 DEF ProcessStays
<1> QED BY <1>4, <1>6, <1>7, <1>8, QuietStep

\* A step that leaves the list, the queue and the threads alone.
LEMMA NothingStep ==
    ASSUME NameInv, UNCHANGED Others, UNCHANGED <<answers, adding>>,
           Length' = Length, \A k : Queue(k)' = Queue(k)
    PROVE  NameInv'
<1>1. /\ pc' = pc /\ woken' = woken /\ asked' = asked /\ creates' = creates
      /\ answers' = answers /\ adding' = adding /\ plist' = plist /\ alive' = alive
  BY DEF threadVars, Others
<1>2. /\ EventsAreOfProcess' /\ \A p : Unnamed(p) => Unnamed(p)'
      /\ \A t : ListStays(t)
  BY <1>1, SameList DEF NameInv
<1>3. /\ \A p : Unasked(p) => Unasked(p)'
      /\ \A t : asked'[t] = asked[t] => RequestStays(t)
  BY <1>1, SameRequests
<1>4. NoneBegins
  BY <1>1 DEF NoneBegins, Creating
<1>5. \A t \in Threads : Undisturbed(t)
  BY <1>1, <1>2, <1>3 DEF Undisturbed, ThreadStays
<1>6. \A p \in Pids : ProcessStays(p)
  BY <1>1, <1>2, <1>3 DEF ProcessStays
<1> QED BY <1>2, <1>4, <1>5, <1>6, QuietStep

\* A thread that leaves the list and the queue alone.
LEMMA PlainStep ==
    ASSUME NameInv, NEW u \in Threads, ThreadInv(u)', Creating(u)' => Creating(u),
           UNCHANGED <<plist, answers, adding, creates, alive>>,
           Length' = Length, \A k : Queue(k)' = Queue(k),
           \A t \in Threads \ {u} :
              pc'[t] = pc[t] /\ woken'[t] = woken[t] /\ asked'[t] = asked[t]
    PROVE  NameInv'
<1>1. /\ EventsAreOfProcess' /\ \A p : Unnamed(p) => Unnamed(p)'
      /\ \A t : ListStays(t)
  BY SameList DEF NameInv
<1>2. /\ \A p : Unasked(p) => Unasked(p)'
      /\ \A t : asked'[t] = asked[t] => RequestStays(t)
  BY SameRequests
<1>3. NoneBegins
  <2> SUFFICES ASSUME NEW t \in Threads, Creating(t)'
               PROVE  Creating(t)
    BY DEF NoneBegins
  <2>1. CASE t # u
    BY <2>1 DEF Creating
  <2> QED BY <2>1
<1>4. \A t \in Threads \ {u} : Undisturbed(t)
  BY <1>1, <1>2 DEF Undisturbed, ThreadStays
<1>5. \A p \in Pids : ProcessStays(p)
  BY <1>1, <1>2 DEF ProcessStays
<1> QED BY <1>1, <1>3, <1>4, <1>5, ActorStep

\* A thread that is not before its request needs only to be sound.
LEMMA LaterIsSound ==
    ASSUME NameInv, NEW u \in Threads, Sound(u)', Creating(u)' => Creating(u), NoneBegins,
           creates' = creates, ~ pc'[u] \in {"enter", "add", "log"},
           asked'[u] # 0 => (Answered(u) => Answered(u)'),
           asked'[u] # 0 => asked[u] # 0
    PROVE  ThreadInv(u)'
<1>1. First(u)' => First(u)
  BY DEF First
<1>2. Alone(u)'
  BY <1>1, ThreadInvOf DEF Alone, NoneBegins
<1>3. BeforeRequest(u)'
  BY DEF BeforeRequest
<1>4. AfterRequest(u)'
  BY <1>1, ThreadInvOf DEF AfterRequest
<1> QED BY <1>2, <1>3, <1>4 DEF ThreadInv

\* A thread that goes on after its request, or without one.
LEMMA LaterStep ==
    ASSUME NameInv, NEW u \in Threads, pc[u] # "idle", Creating(u)' => Creating(u),
           UNCHANGED <<plist, answers, adding, creates, alive>>,
           Length' = Length, \A k : Queue(k)' = Queue(k),
           \A t \in Threads \ {u} :
              pc'[t] = pc[t] /\ woken'[t] = woken[t] /\ asked'[t] = asked[t],
           ~ pc'[u] \in {"enter", "add", "log"},
           asked'[u] # 0 => /\ pc'[u] \in {"test", "set", "wait"}
                            /\ asked'[u] = asked[u] /\ woken'[u] = woken[u],
           pc'[u] = "wait" => asked'[u] # 0,
           woken'[u] => woken[u]
    PROVE  NameInv'
<1>1. Sound(u)
  BY ThreadInvOf
<1>2. /\ \A p : Unnamed(p) => Unnamed(p)'
      /\ Resolved(PidOf(u)) => Resolved(PidOf(u))'
      /\ Listed(u) => Listed(u)'
  BY SameList
<1>3. Sound(u)'
  <2>1. pc'[u] # "idle" => alive'[PidOf(u)]
    BY <1>1 DEF Sound
  <2>2. Creating(u)' /\ woken'[u] => Resolved(PidOf(u))'
    BY <1>1, <1>2 DEF Sound
  <2> QED BY <2>1, <2>2 DEF Sound
<1>4. NoneBegins
  <2> SUFFICES ASSUME NEW t \in Threads, Creating(t)'
               PROVE  Creating(t)
    BY DEF NoneBegins
  <2>1. CASE t # u
    BY <2>1 DEF Creating
  <2> QED BY <2>1
<1>5. ASSUME asked'[u] # 0, Answered(u)
      PROVE  Answered(u)'
  <2>1. asked'[u] = asked[u] /\ woken'[u] = woken[u]
    BY <1>5
  <2>2. OnWay(u) => OnWay(u)'
    BY <2>1, SameRequests
  <2>3. Pending(u) => Pending(u)'
    BY <1>2, <2>2 DEF Pending
  <2> QED BY <1>5, <2>1, <2>3 DEF Answered
<1>6. ThreadInv(u)'
  BY <1>3, <1>4, <1>5, LaterIsSound
<1> QED BY <1>6, PlainStep

\* The event of the log application is tested.
LEMMA SignalTestName ==
    ASSUME Inv, NameInv, NEW u \in Threads, SignalTest(u)
    PROVE  NameInv'
<1>1. PICK x : x = IF EventIsSeen THEN "set" ELSE AfterSignal(u)
  OBVIOUS
<1>2. /\ pc[u] = "test" /\ pc' = [pc EXCEPT ![u] = x]
      /\ UNCHANGED <<queueVars, plist, alive, woken, asked, creates, appVars>>
  BY <1>1 DEF SignalTest
<1>3. pc \in [Threads -> {"idle", "enter", "add", "log", "test", "set", "wait", "leave",
                           "addnull"}]
  BY DEF Inv, PlaceTypes
<1>4. /\ answers' = answers /\ adding' = adding
      /\ Length' = Length /\ \A k : Queue(k)' = Queue(k)
  BY <1>2, QueueStays DEF appVars, Inv
<1>5. pc'[u] = x /\ \A t \in Threads \ {u} : pc'[t] = pc[t]
  BY <1>2, <1>3
<1>6. x = "set" \/ (asked[u] # 0 /\ x = "wait") \/ (asked[u] = 0 /\ x = "idle")
  BY <1>1 DEF AfterSignal
<1>7. Creating(u)' => Creating(u)
  BY <1>2, <1>5, <1>6 DEF Creating
<1>8. /\ asked'[u] # 0 => pc'[u] \in {"test", "set", "wait"}
      /\ pc'[u] = "wait" => asked'[u] # 0
  BY <1>2, <1>5, <1>6
<1> QED BY <1>2, <1>4, <1>5, <1>6, <1>7, <1>8, LaterStep

\* It is set.
LEMMA SignalSetName ==
    ASSUME Inv, NameInv, NEW u \in Threads, SignalSet(u)
    PROVE  NameInv'
<1>1. PICK x : x = AfterSignal(u)
  OBVIOUS
<1>2. /\ pc[u] = "set" /\ pc' = [pc EXCEPT ![u] = x]
      /\ UNCHANGED <<plist, alive, woken, asked, creates, appVars>>
      /\ UNCHANGED <<ring, reader, unloaded>>
      /\ fresh' = fresh /\ event' = event /\ gotLog' = gotLog
      /\ signalled' = (signalled \/ event)
  BY <1>1, Zenon DEF SignalSet, SetEvent
<1>3. /\ pc \in [Threads -> {"idle", "enter", "add", "log", "test", "set", "wait", "leave",
                             "addnull"}]
      /\ RingInv
  BY DEF Inv, PlaceTypes
<1>4. {fresh, event, signalled, gotLog}' \subseteq BOOLEAN
  <2>1. signalled' \in BOOLEAN
    BY <1>2, Zenon
  <2> QED BY <1>2, <1>3, <2>1 DEF RingInv, RingTypes
<1>5. /\ answers' = answers /\ adding' = adding
      /\ Length' = Length /\ \A k : Queue(k)' = Queue(k)
  BY <1>2, <1>3, <1>4, RingStays DEF appVars
<1>6. pc'[u] = x /\ \A t \in Threads \ {u} : pc'[t] = pc[t]
  BY <1>2, <1>3
<1>7. (asked[u] # 0 /\ x = "wait") \/ (asked[u] = 0 /\ x = "idle")
  BY <1>1 DEF AfterSignal
<1>8. Creating(u)' => Creating(u)
  BY <1>2, <1>6, <1>7 DEF Creating
<1>9. /\ asked'[u] # 0 => pc'[u] \in {"test", "set", "wait"}
      /\ pc'[u] = "wait" => asked'[u] # 0
  BY <1>2, <1>6, <1>7
<1> QED BY <1>2, <1>5, <1>6, <1>7, <1>8, <1>9, LaterStep

\* The wait ends.
LEMMA WaitEndsName ==
    ASSUME Inv, NameInv, NEW u \in Threads, WaitEnds(u)
    PROVE  NameInv'
<1>1. /\ pc[u] = "wait" /\ pc' = [pc EXCEPT ![u] = "leave"]
      /\ asked' = [asked EXCEPT ![u] = 0] /\ woken' = [woken EXCEPT ![u] = FALSE]
      /\ UNCHANGED <<queueVars, plist, alive, creates, appVars>>
  BY DEF WaitEnds
<1>2. PlaceTypes
  BY DEF Inv
<1>3. /\ answers' = answers /\ adding' = adding
      /\ Length' = Length /\ \A k : Queue(k)' = Queue(k)
  BY <1>1, QueueStays DEF appVars, Inv
<1>4. /\ pc'[u] = "leave" /\ asked'[u] = 0 /\ woken'[u] = FALSE
      /\ \A t \in Threads \ {u} :
           pc'[t] = pc[t] /\ woken'[t] = woken[t] /\ asked'[t] = asked[t]
  BY <1>1, <1>2 DEF PlaceTypes
<1>5. Creating(u)
  BY <1>1, ThreadInvOf DEF Sound, Creating
<1> QED BY <1>1, <1>3, <1>4, <1>5, LaterStep

\* There is no entry: one is to be added.
LEMMA SetEventNotFoundName ==
    ASSUME Inv, NameInv, NEW u \in Threads, SetEventNotFound(u)
    PROVE  NameInv'
<1>1. PICK x : x = IF pc[u] = "enter" THEN "add" ELSE "addnull"
  OBVIOUS
<1>2. /\ pc[u] \in {"enter", "leave"} /\ FindPle(PidOf(u)) = 0
      /\ pc' = [pc EXCEPT ![u] = x]
      /\ UNCHANGED <<queueVars, plist, alive, woken, asked, creates, appVars>>
  BY <1>1 DEF SetEventNotFound
<1>3. pc \in [Threads -> {"idle", "enter", "add", "log", "test", "set", "wait", "leave",
                           "addnull"}]
  BY DEF Inv, PlaceTypes
<1>4. /\ answers' = answers /\ adding' = adding
      /\ Length' = Length /\ \A k : Queue(k)' = Queue(k)
  BY <1>2, QueueStays DEF appVars, Inv
<1>5. pc'[u] = x /\ \A t \in Threads \ {u} : pc'[t] = pc[t]
  BY <1>2, <1>3
<1>6. Sound(u) /\ BeforeRequest(u) /\ Alone(u) /\ asked[u] = 0 /\ Creating(u)
  <2>1. Sound(u) /\ BeforeRequest(u) /\ Alone(u)
    BY ThreadInvOf
  <2>2. asked[u] = 0
    BY <1>2, <2>1 DEF Sound
  <2> QED BY <1>2, <2>1, <2>2 DEF Creating
<1>7. CASE pc[u] = "leave"
  <2>1. pc'[u] = "addnull"
    BY <1>1, <1>5, <1>7
  <2> QED BY <1>2, <1>4, <1>5, <1>6, <2>1, LaterStep
<1>8. CASE pc[u] = "enter"
  <2>1. pc'[u] = "add"
    BY <1>1, <1>5, <1>8
  <2>2. /\ \A p : Unnamed(p) => Unnamed(p)'
        /\ FindPle(PidOf(u))' = FindPle(PidOf(u))
        /\ Resolved(PidOf(u)) => Resolved(PidOf(u))'
    BY <1>2, <1>4, SameList
  <2>3. \A p : Unasked(p) => Unasked(p)'
    BY <1>2, <1>4, SameRequests
  <2>4. NoneBegins
    <3> SUFFICES ASSUME NEW t \in Threads, Creating(t)'
                 PROVE  Creating(t)
      BY DEF NoneBegins
    <3>1. CASE t # u
      BY <1>2, <1>5, <3>1 DEF Creating
    <3> QED BY <1>6, <3>1
  <2>5. Sound(u)'
    BY <1>2, <1>6, <1>8, <2>1, <2>2 DEF Sound
  <2>6. Alone(u)'
    BY <1>2, <1>6, <2>4 DEF Alone, First, NoneBegins
  <2>7. BeforeRequest(u)'
    BY <1>2, <1>6, <1>8, <2>1, <2>2, <2>3 DEF BeforeRequest, First
  <2>8. AfterRequest(u)'
    BY <1>2, <1>6 DEF AfterRequest
  <2>9. ThreadInv(u)'
    BY <2>5, <2>6, <2>7, <2>8 DEF ThreadInv
  <2> QED BY <1>2, <1>4, <1>5, <1>6, <2>9, PlainStep
<1> QED BY <1>2, <1>7, <1>8

-----------------------------------------------------------------------------
(* tdi_create and the list                                                 *)

\* A thread of another process, or in no create, is not in the way of u, which
\* is in one.
LEMMA OthersAreNotFirst ==
    ASSUME NameInv, NEW u \in Threads, Creating(u), NEW t \in Threads \ {u},
           PidOf(t) = PidOf(u)
    PROVE  ~ First(t)
  BY CreatorFacts

\* A step of u between its request and the list: what is needed of u.
LEMMA BeforeIsInv ==
    ASSUME NameInv, NEW u \in Threads, Creating(u), NoneBegins, creates' = creates,
           alive' = alive, woken'[u] = woken[u],
           Resolved(PidOf(u)) => Resolved(PidOf(u))',
           asked[u] = 0, asked'[u] = 0,
           pc'[u] = "idle"
             \/ /\ pc'[u] = "log" /\ pc[u] \in {"enter", "add"}
                /\ Listed(u)'
                /\ Unnamed(PidOf(u)) => Unnamed(PidOf(u))'
                /\ Unasked(PidOf(u)) => Unasked(PidOf(u))'
    PROVE  ThreadInv(u)'
<1>1. Sound(u) /\ Alone(u) /\ BeforeRequest(u)
  BY ThreadInvOf
<1>2. First(u)' => First(u)
  BY DEF First
<1>3. Sound(u)'
  <2>1. pc'[u] # "idle" => alive'[PidOf(u)]
    BY <1>1 DEF Sound
  <2>2. Creating(u)' /\ woken'[u] => Resolved(PidOf(u))'
    BY <1>1 DEF Sound
  <2> QED BY <2>1, <2>2 DEF Sound
<1>4. Alone(u)'
  BY <1>1, <1>2 DEF Alone, NoneBegins
<1>5. BeforeRequest(u)'
  BY <1>1, <1>2 DEF BeforeRequest
<1>6. AfterRequest(u)'
  BY DEF AfterRequest
<1> QED BY <1>3, <1>4, <1>5, <1>6 DEF ThreadInv

\* The event of u is put in the entry, or taken out of it.
LEMMA SetEventFoundName ==
    ASSUME Inv, NameInv, NEW u \in Threads, SetEventFound(u)
    PROVE  NameInv'
<1>1. PICK x : x = AfterSetEvent(u)
  OBVIOUS
<1>2. /\ pc[u] \in {"enter", "leave"} /\ FindPle(PidOf(u)) # 0
      /\ plist' = [plist EXCEPT ![FindPle(PidOf(u))].event = PointsTo(u)]
      /\ pc' = [pc EXCEPT ![u] = x]
      /\ UNCHANGED <<queueVars, alive, woken, asked, creates, appVars>>
  BY <1>1 DEF SetEventFound
<1>3. pc \in [Threads -> {"idle", "enter", "add", "log", "test", "set", "wait", "leave",
                           "addnull"}]
  BY DEF Inv, PlaceTypes
<1>4. /\ answers' = answers /\ adding' = adding
      /\ Length' = Length /\ \A k : Queue(k)' = Queue(k)
  BY <1>2, QueueStays DEF appVars, Inv
<1>5. pc'[u] = x /\ \A t \in Threads \ {u} : pc'[t] = pc[t]
  BY <1>2, <1>3
<1>6. asked[u] = 0 /\ Creating(u)
  BY <1>2, ThreadInvOf DEF Sound, Creating
<1>7. PICK e \in Threads \cup {NoThread} :
          /\ e = PointsTo(u)
          /\ e # NoThread => PidOf(e) = PidOf(u)
          /\ pc[u] = "enter" => e = u
  BY DEF PointsTo
<1>8. /\ EventsAreOfProcess'
      /\ \A p : Unnamed(p) => Unnamed(p)'
      /\ FindPle(PidOf(u))' = FindPle(PidOf(u)) /\ plist'[FindPle(PidOf(u))].event = e
      /\ \A p : Resolved(p) => Resolved(p)'
      /\ \A t \in Threads : (PidOf(t) = PidOf(u) => ~ First(t)) => ListStays(t)
  <2>1. plist' = [plist EXCEPT ![FindPle(PidOf(u))].event = e]
    BY <1>2, <1>7
  <2> QED BY <1>2, <1>4, <1>7, <2>1, ListTyped, ListPoints
<1>9. /\ \A p : Unasked(p) => Unasked(p)'
      /\ \A t : asked'[t] = asked[t] => RequestStays(t)
  BY <1>2, <1>4, SameRequests
<1>10. NoneBegins
  <2> SUFFICES ASSUME NEW t \in Threads, Creating(t)'
               PROVE  Creating(t)
    BY DEF NoneBegins
  <2>1. CASE t # u
    BY <1>2, <1>5, <2>1 DEF Creating
  <2> QED BY <1>6, <2>1
<1>11. ThreadInv(u)'
  <2>1. CASE pc[u] = "leave"
    <3>1. pc'[u] = "idle"
      BY <1>1, <1>5, <2>1 DEF AfterSetEvent
    <3> QED BY <1>2, <1>6, <1>8, <1>10, <3>1, BeforeIsInv
  <2>2. CASE pc[u] = "enter"
    <3>1. pc'[u] = "log"
      BY <1>1, <1>5, <2>2 DEF AfterSetEvent
    <3>2. Listed(u)'
      BY <1>2, <1>7, <1>8, <2>2 DEF Listed
    <3> QED BY <1>2, <1>6, <1>8, <1>9, <1>10, <2>2, <3>1, <3>2, BeforeIsInv
  <2> QED BY <1>2, <2>1, <2>2
<1>12. ASSUME NEW t \in Threads \ {u}
       PROVE  Undisturbed(t)
  <2>1. PidOf(t) = PidOf(u) => ~ First(t)
    BY <1>6, OthersAreNotFirst
  <2>2. ThreadStays(t)
    BY <1>2, <1>5 DEF ThreadStays
  <2> QED BY <1>2, <1>8, <1>9, <2>1, <2>2 DEF Undisturbed
<1>13. \A p \in Pids : ProcessStays(p)
  BY <1>2, <1>8, <1>9 DEF ProcessStays
<1> QED BY <1>8, <1>10, <1>11, <1>12, <1>13, ActorStep

\* An entry is added for u, with its event or without.
LEMMA SetEventAddName ==
    ASSUME AllocResults = {TRUE}, Inv, NameInv, NEW u \in Threads, SetEventAdd(u)
    PROVE  NameInv'
<1>1. PICK x : x = AfterSetEvent(u)
  OBVIOUS
<1>2. /\ pc[u] \in {"add", "addnull"}
      /\ plist' = Added(plist, Entry(PidOf(u), FALSE, PointsTo(u)))
      /\ pc' = [pc EXCEPT ![u] = x]
      /\ UNCHANGED <<queueVars, alive, woken, asked, creates, appVars>>
  BY <1>1, EntryAdded DEF SetEventAdd
<1>3. pc \in [Threads -> {"idle", "enter", "add", "log", "test", "set", "wait", "leave",
                           "addnull"}]
  BY DEF Inv, PlaceTypes
<1>4. /\ answers' = answers /\ adding' = adding
      /\ Length' = Length /\ \A k : Queue(k)' = Queue(k)
  BY <1>2, QueueStays DEF appVars, Inv
<1>5. pc'[u] = x /\ \A t \in Threads \ {u} : pc'[t] = pc[t]
  BY <1>2, <1>3
<1>6. asked[u] = 0 /\ Creating(u)
  BY <1>2, ThreadInvOf DEF Sound, Creating
<1>7. PICK e : e = Entry(PidOf(u), FALSE, PointsTo(u))
  OBVIOUS
<1>8. /\ e \in Entries /\ e.pid = PidOf(u) /\ e.pname = FALSE
      /\ e.event # NoThread => PidOf(e.event) = e.pid
      /\ pc[u] = "add" => e.event = u
  <2>1. PointsTo(u) \in Threads \cup {NoThread} /\ (PointsTo(u) = NoThread \/ PointsTo(u) = u)
    BY DEF PointsTo
  <2>2. pc[u] = "add" => PointsTo(u) = u
    BY DEF PointsTo
  <2> QED BY <1>7, <2>1, <2>2, ThreadFacts DEF Entry, Entries
<1>9. /\ EventsAreOfProcess'
      /\ \A p \in Pids : Unnamed(p) => Unnamed(p)'
      /\ \A p : Resolved(p) => Resolved(p)'
      /\ \A t \in Threads : (PidOf(t) = PidOf(u) /\ First(t) => pc[t] # "add") => ListStays(t)
  BY <1>2, <1>4, <1>7, <1>8, ListTyped, ListGrows
<1>10. /\ \A p : Unasked(p) => Unasked(p)'
       /\ \A t : asked'[t] = asked[t] => RequestStays(t)
  BY <1>2, <1>4, SameRequests
<1>11. NoneBegins
  <2> SUFFICES ASSUME NEW t \in Threads, Creating(t)'
               PROVE  Creating(t)
    BY DEF NoneBegins
  <2>1. CASE t # u
    BY <1>2, <1>5, <2>1 DEF Creating
  <2> QED BY <1>6, <2>1
<1>12. ThreadInv(u)'
  <2>1. CASE pc[u] = "addnull"
    <3>1. pc'[u] = "idle"
      BY <1>1, <1>5, <2>1 DEF AfterSetEvent
    <3> QED BY <1>2, <1>6, <1>9, <1>11, <3>1, BeforeIsInv
  <2>2. CASE pc[u] = "add"
    <3>1. pc'[u] = "log"
      BY <1>1, <1>5, <2>2 DEF AfterSetEvent
    <3>2. First(u) => Listed(u)'
      <4>1. First(u) => FindPle(PidOf(u)) = 0
        BY <2>2, ThreadInvOf DEF BeforeRequest
      <4>2. FindPle(PidOf(u)) = 0 => /\ FindPle(PidOf(u))' # 0
                                     /\ plist'[FindPle(PidOf(u))'] = e
        BY <1>2, <1>7, <1>8, ListTyped, FoundAfterAdd
      <4> QED BY <1>8, <2>2, <4>1, <4>2 DEF Listed
    <3>3. Sound(u)' /\ Alone(u)'
      <4>1. Sound(u) /\ Alone(u)
        BY ThreadInvOf
      <4>2. Sound(u)'
        BY <1>2, <1>6, <1>9, <2>2, <3>1, <4>1 DEF Sound
      <4> QED BY <1>2, <1>6, <1>11, <4>1, <4>2 DEF Alone, First, NoneBegins
    <3>4. BeforeRequest(u)'
      <4>1. BeforeRequest(u) /\ PidOf(u) \in Pids
        BY ThreadInvOf, ThreadFacts
      <4> QED BY <1>2, <1>6, <1>9, <1>10, <2>2, <3>1, <3>2, <4>1 DEF BeforeRequest, First
    <3>5. AfterRequest(u)'
      BY <1>2, <1>6 DEF AfterRequest
    <3> QED BY <3>3, <3>4, <3>5 DEF ThreadInv
  <2> QED BY <1>2, <2>1, <2>2
<1>13. ASSUME NEW t \in Threads \ {u}
       PROVE  Undisturbed(t)
  <2>1. PidOf(t) = PidOf(u) => ~ First(t)
    BY <1>6, OthersAreNotFirst
  <2>2. ThreadStays(t)
    BY <1>2, <1>5 DEF ThreadStays
  <2> QED BY <1>2, <1>9, <1>10, <2>1, <2>2 DEF Undisturbed
<1>14. \A p \in Pids : ProcessStays(p)
  BY <1>2, <1>9, <1>10 DEF ProcessStays
<1> QED BY <1>9, <1>11, <1>12, <1>13, <1>14, ActorStep

\* tdi_create begins: the first for its process finds nothing known of it.
LEMMA CreateBeginName ==
    ASSUME Inv, NameInv, NEW u \in Threads, CreateBegin(u)
    PROVE  NameInv'
<1>1. /\ pc[u] = "idle" /\ alive[PidOf(u)]
      /\ pc' = [pc EXCEPT ![u] = "enter"]
      /\ woken' = [woken EXCEPT ![u] = FALSE]
      /\ creates' = [creates EXCEPT ![PidOf(u)] = IF @ = 0 THEN 1 ELSE 2]
      /\ UNCHANGED <<queueVars, plist, alive, asked, appVars>>
  BY DEF CreateBegin
<1>2. PlaceTypes /\ PidOf(u) \in Pids
  BY ThreadFacts DEF Inv
<1>3. /\ answers' = answers /\ adding' = adding
      /\ Length' = Length /\ \A k : Queue(k)' = Queue(k)
  BY <1>1, QueueStays DEF appVars, Inv
<1>4. /\ pc'[u] = "enter" /\ woken'[u] = FALSE
      /\ \A t \in Threads \ {u} : pc'[t] = pc[t] /\ woken'[t] = woken[t]
      /\ \A p \in Pids \ {PidOf(u)} : creates'[p] = creates[p]
      /\ creates'[PidOf(u)] # 0
      /\ creates'[PidOf(u)] = 1 => creates[PidOf(u)] = 0
  BY <1>1, <1>2 DEF PlaceTypes
<1>5. /\ EventsAreOfProcess' /\ \A p : Unnamed(p) => Unnamed(p)'
      /\ \A p : Resolved(p)' <=> Resolved(p)
      /\ \A t : ListStays(t)
  BY <1>1, <1>3, SameList DEF NameInv
<1>6. /\ \A p : Unasked(p) => Unasked(p)'
      /\ \A t : asked'[t] = asked[t] => RequestStays(t)
  BY <1>1, <1>3, SameRequests
<1>7. \A t \in Threads \ {u} : Creating(t)' => Creating(t)
  BY <1>1, <1>4 DEF Creating
<1>8. \A p \in Pids \ {PidOf(u)} : NoneBeginsFor(p)
  BY <1>7 DEF NoneBeginsFor
<1>9. creates'[PidOf(u)] = 1
        => /\ Unnamed(PidOf(u))' /\ Unasked(PidOf(u))'
           /\ \A t \in Threads \ {u} : PidOf(t) = PidOf(u) => ~ Creating(t)'
  <2>1. NoneYet(PidOf(u))
    BY <1>2 DEF NameInv
  <2> QED BY <1>4, <1>5, <1>6, <1>7, <2>1 DEF NoneYet
<1>10. ASSUME NEW t \in Threads
       PROVE  ThreadInv(t)'
  <2>1. CASE PidOf(t) # PidOf(u)
    <3>1. ThreadStays(t) /\ NoneBeginsFor(PidOf(t))
      <4>1. PidOf(t) \in Pids /\ t # u
        BY <2>1, ThreadFacts
      <4> QED BY <1>1, <1>4, <1>8, <2>1, <4>1 DEF ThreadStays
    <3> QED BY <1>1, <1>5, <1>6, <3>1, Bystander
  <2>2. CASE PidOf(t) = PidOf(u) /\ t # u
    <3>1. Sound(t)
      BY ThreadInvOf
    <3>2. Sound(t)'
      BY <1>1, <1>4, <1>5, <1>7, <2>2, <3>1 DEF Sound
    <3>3. ~ First(t)'
      BY <1>9, <2>2 DEF First
    <3> QED BY <3>2, <3>3 DEF ThreadInv, Alone, BeforeRequest, AfterRequest
  <2>3. CASE t = u
    <3>1. asked'[u] = 0
      BY <1>1, ThreadInvOf DEF Sound
    <3>2. Sound(u)'
      BY <1>1, <1>4, <3>1 DEF Sound
    <3>3. First(u)' => creates'[PidOf(u)] = 1
      BY DEF First
    <3>4. Alone(u)'
      BY <1>9, <3>3 DEF Alone
    <3>5. BeforeRequest(u)'
      BY <1>4, <1>9, <3>3 DEF BeforeRequest
    <3>6. AfterRequest(u)'
      BY <3>1 DEF AfterRequest
    <3> QED BY <2>3, <3>2, <3>4, <3>5, <3>6 DEF ThreadInv
  <2> QED BY <2>1, <2>2, <2>3
<1>11. ASSUME NEW p \in Pids
       PROVE  NoneYet(p)'
  <2>1. CASE p = PidOf(u)
    BY <1>4, <2>1 DEF NoneYet
  <2>2. CASE p # PidOf(u)
    BY <1>4, <1>5, <1>6, <1>8, <2>2, ProcessBystander
  <2> QED BY <2>1, <2>2
<1> QED BY <1>5, <1>10, <1>11 DEF NameInv

-----------------------------------------------------------------------------
(* A request is logged, and the names                                      *)

\* r asks for the name of p.
AsksFor(r, p) == r.resolve /\ r.pid = p

\* What becomes of the requests when r is put in the ring.
LEMMA PushedRequests ==
    ASSUME RingTypes, NEW d, NEW r, Pushed(d, r), answers' = answers
    PROVE  /\ \A p : Unasked(p) /\ ~ AsksFor(r, p) => Unasked(p)'
           /\ \A t : /\ OnWay(t) /\ ~ AsksFor(r, PidOf(t))
                     /\ asked'[t] = asked[t] /\ ~ asked[t] \in Loses
                => OnWay(t)'
           /\ \A t : /\ Unasked(PidOf(t)) /\ AsksFor(r, PidOf(t)) /\ asked'[t] = r.id
                => OnWay(t)'
<1>1. /\ d \in {0, 1} /\ d <= Length /\ Length \in Nat
      /\ Length' = Length + 1 - d /\ Length' >= 1 /\ Length' \in Nat
      /\ \A k \in 1..Length' : Queue(k)' = IF k = Length' THEN r ELSE Queue(k + d)
      /\ Loses = IF d = 1 THEN {Queue(1).id} ELSE {}
  BY QueueTypes DEF Pushed
<1>2. \A k \in 1..Length' : k = Length' \/ k + d \in 1..Length
  BY <1>1
<1>3. PICK n \in 1..Length' : n = Length' /\ Queue(n)' = r
  BY <1>1
<1>4. \A k \in 1..Length' : Queue(k)' = r \/ (k + d \in 1..Length /\ Queue(k)' = Queue(k + d))
  BY <1>1, <1>2
<1>5. \A p : \A k \in 1..Length' :
         IsQueued(p, k)' => AsksFor(r, p) \/ (k + d \in 1..Length /\ IsQueued(p, k + d))
  BY <1>4 DEF IsQueued, AsksFor
<1>6. ASSUME NEW p, Unasked(p), ~ AsksFor(r, p)
      PROVE  Unasked(p)'
  <2>1. \A k \in 1..Length' : ~ IsQueued(p, k)'
    BY <1>5, <1>6 DEF Unasked
  <2> QED BY <1>6, <2>1 DEF Unasked
<1>7. ASSUME NEW t, OnWay(t), ~ AsksFor(r, PidOf(t)), asked'[t] = asked[t],
             ~ asked[t] \in Loses
      PROVE  OnWay(t)'
  <2>1. /\ \A k \in 1..Length : IsQueued(PidOf(t), k) => Queue(k).id = asked[t]
        /\ \A a \in answers : a.pid = PidOf(t) => a.id = asked[t]
        /\ \/ \E k \in 1..Length : IsQueued(PidOf(t), k)
           \/ \E a \in answers : a.pid = PidOf(t)
    BY <1>7 DEF OnWay
  <2>2. \A k \in 1..Length' : IsQueued(PidOf(t), k)' => Queue(k)'.id = asked'[t]
    <3> SUFFICES ASSUME NEW k \in 1..Length', IsQueued(PidOf(t), k)'
                 PROVE  Queue(k)'.id = asked'[t]
      OBVIOUS
    <3>1. k + d \in 1..Length /\ IsQueued(PidOf(t), k + d)
      BY <1>5, <1>7
    <3>2. Queue(k)' = r \/ Queue(k)' = Queue(k + d)
      BY <1>4
    <3>3. Queue(k)' # r
      BY <1>7 DEF IsQueued, AsksFor
    <3> QED BY <1>7, <2>1, <3>1, <3>2, <3>3
  <2>3. \A a \in answers' : a.pid = PidOf(t) => a.id = asked'[t]
    BY <1>7, <2>1
  <2>4. ASSUME NEW k \in 1..Length, IsQueued(PidOf(t), k)
        PROVE  \E j \in 1..Length' : IsQueued(PidOf(t), j)'
    <3>1. k # d
      BY <1>1, <1>7, <2>1, <2>4
    <3>2. PICK j \in 1..Length' : j = k - d /\ j # Length'
      BY <1>1, <3>1
    <3>3. j + d = k
      BY <1>1, <3>2
    <3>4. Queue(j)' = Queue(k)
      BY <1>1, <3>2, <3>3
    <3> QED BY <2>4, <3>4 DEF IsQueued
  <2> QED BY <2>1, <2>2, <2>3, <2>4 DEF OnWay
<1>8. ASSUME NEW t, Unasked(PidOf(t)), AsksFor(r, PidOf(t)), asked'[t] = r.id
      PROVE  OnWay(t)'
  <2>1. \A k \in 1..Length' : IsQueued(PidOf(t), k)' => Queue(k)'.id = asked'[t]
    <3> SUFFICES ASSUME NEW k \in 1..Length', IsQueued(PidOf(t), k)'
                 PROVE  Queue(k)'.id = asked'[t]
      OBVIOUS
    <3>1. Queue(k)' # r => k + d \in 1..Length /\ IsQueued(PidOf(t), k + d)
      BY <1>4 DEF IsQueued
    <3> QED BY <1>8, <3>1 DEF Unasked
  <2>2. \A a \in answers' : a.pid = PidOf(t) => a.id = asked'[t]
    BY <1>8 DEF Unasked
  <2>3. IsQueued(PidOf(t), n)'
    BY <1>3, <1>8 DEF IsQueued, AsksFor
  <2> QED BY <1>3, <2>1, <2>2, <2>3 DEF OnWay
<1> QED BY <1>6, <1>7, <1>8

\* A thread whose request is lost is answered, in a way.
LEMMA LosingForms ==
    ASSUME RingInv, NEW t \in Threads
    PROVE  /\ asked[t] \in Loses => asked[t] # 0 /\ Losing(Loses)[t] = Lost
           /\ ~ asked[t] \in Loses => Losing(Loses)[t] = asked[t]
  BY LosesSome DEF Losing

\* If r asks for a name, it is for u, which is in a create.
OnlyFor(r, u) == \A p : AsksFor(r, p) => p = PidOf(u) /\ Creating(u)

\* Thread u logs a request; only if it asks for a name u is in a create.
LEMMA LogNameStep ==
    ASSUME Inv, NameInv, NEW u \in Threads, NEW d, NEW r, Pushed(d, r),
           ThreadInv(u)', Creating(u)' => Creating(u),
           OnlyFor(r, u),
           UNCHANGED <<plist, answers, adding, creates, alive, woken>>,
           \A t \in Threads \ {u} : pc'[t] = pc[t] /\ asked'[t] = Losing(Loses)[t]
    PROVE  NameInv'
<1>1. /\ EventsAreOfProcess' /\ \A p : Unnamed(p) => Unnamed(p)'
      /\ \A t : ListStays(t)
  BY SameList DEF NameInv
<1>2. RingInv /\ RingTypes
  BY DEF Inv, RingInv
<1>3. /\ \A p : Unasked(p) /\ ~ AsksFor(r, p) => Unasked(p)'
      /\ \A t : /\ OnWay(t) /\ ~ AsksFor(r, PidOf(t))
                /\ asked'[t] = asked[t] /\ ~ asked[t] \in Loses
           => OnWay(t)'
  BY <1>2, PushedRequests
<1>4. ASSUME NEW t \in Threads \ {u}
      PROVE  Undisturbed(t) /\ (Creating(t)' => Creating(t))
  <2>1. /\ asked[t] \in Loses => asked[t] # 0 /\ asked'[t] = Lost
        /\ ~ asked[t] \in Loses => asked'[t] = asked[t]
    BY <1>2, LosingForms
  <2>2. pc'[t] = pc[t]
    OBVIOUS
  <2>3. ThreadStays(t)
    BY <2>1, <2>2 DEF ThreadStays
  <2>4. Creating(t)' => Creating(t)
    BY <2>1, <2>2 DEF Creating, Lost
  <2>5. First(t) => ~ AsksFor(r, PidOf(t))
    BY OthersAreNotFirst DEF OnlyFor
  <2>6. RequestStays(t)
    BY <1>3, <2>1, <2>5 DEF RequestStays
  <2> QED BY <1>1, <2>3, <2>4, <2>6 DEF Undisturbed
<1>5. NoneBegins
  BY <1>4 DEF NoneBegins
<1>6. ASSUME NEW p \in Pids
      PROVE  ProcessStays(p)
  <2>1. creates[p] = 0 => ~ AsksFor(r, p)
    BY DEF NameInv, NoneYet, OnlyFor
  <2> QED BY <1>1, <1>3, <2>1 DEF ProcessStays
<1> QED BY <1>1, <1>4, <1>5, <1>6, ActorStep

\* Thread u logs the request to resolve its name.
LEMMA LogResolveName ==
    ASSUME Inv, NameInv, NEW u \in Threads, LogResolve(u)
    PROVE  NameInv'
<1>1. /\ pc[u] = "log"
      /\ UNCHANGED <<plist, alive, woken, creates, appVars>>
  BY DEF LogResolve
<1>2. /\ answers' = answers /\ adding' = adding
  BY <1>1 DEF appVars
<1>3. PlaceTypes /\ RingTypes /\ RingInv
  BY DEF Inv, RingInv
<1>4. Creating(u) /\ Sound(u) /\ Alone(u) /\ BeforeRequest(u) /\ asked[u] = 0
  BY <1>1, ThreadInvOf DEF Sound, Creating
<1>5. CASE ~ gotLog
  <2>1. pc' = [pc EXCEPT ![u] = "leave"] /\ UNCHANGED <<queueVars, asked>>
    BY <1>5 DEF LogResolve
  <2>2. Length' = Length /\ \A k : Queue(k)' = Queue(k)
    BY <1>3, <2>1, QueueStays
  <2>3. pc'[u] = "leave" /\ \A t \in Threads \ {u} : pc'[t] = pc[t]
    BY <1>3, <2>1 DEF PlaceTypes
  <2> QED BY <1>1, <1>2, <1>4, <2>1, <2>2, <2>3, LaterStep
<1>6. CASE gotLog
  <2>1. /\ LogRequest(PidOf(u), TRUE, TRUE, Resolved(PidOf(u)))
        /\ asked' = [Losing(Loses) EXCEPT ![u] = logged + 1]
        /\ pc' = [pc EXCEPT ![u] = "test"]
    BY <1>6 DEF LogResolve
  <2>2. PICK r : r = NewRequest(PidOf(u), TRUE, TRUE, Resolved(PidOf(u)))
    OBVIOUS
  <2>3. r.pid = PidOf(u) /\ r.resolve = TRUE /\ r.id = logged + 1
    BY <2>2 DEF NewRequest
  <2>4. PICK d : Pushed(d, r)
    BY <1>3, <2>1, <2>2, LogPushes
  <2>5. Losing(Loses) \in [Threads -> Lost..MaxRequests]
    BY <1>3, LosingTyped DEF PlaceTypes
  <2>6. /\ asked'[u] = logged + 1 /\ pc'[u] = "test"
        /\ \A t \in Threads \ {u} : pc'[t] = pc[t] /\ asked'[t] = Losing(Loses)[t]
    BY <1>3, <2>1, <2>5 DEF PlaceTypes
  <2>7. asked'[u] # 0
    BY <1>3, <2>6 DEF RingTypes
  <2>8. /\ Resolved(PidOf(u)) => Resolved(PidOf(u))'
        /\ Listed(u) => Listed(u)'
        /\ \A p : Unnamed(p) => Unnamed(p)'
    BY <1>1, <1>2, SameList
  <2>9. Unasked(PidOf(u)) => OnWay(u)'
    BY <1>2, <1>3, <2>3, <2>4, <2>6, PushedRequests DEF AsksFor
  <2>10. \A t \in Threads : Creating(t)' => Creating(t)
    <3>1. ASSUME NEW t \in Threads \ {u}, Creating(t)'
          PROVE  Creating(t)
      BY <1>3, <2>6, <3>1, LosingForms DEF Creating
    <3> QED BY <1>4, <3>1
  <2>11. Sound(u)'
    BY <1>1, <1>4, <2>6, <2>7, <2>8 DEF Sound
  <2>12. First(u)' => First(u)
    BY <1>1, <1>4 DEF First
  <2>13. Alone(u)'
    BY <1>4, <2>10, <2>12 DEF Alone
  <2>14. BeforeRequest(u)'
    BY <2>6 DEF BeforeRequest
  <2>15. AfterRequest(u)'
    BY <1>1, <1>4, <2>8, <2>9, <2>12 DEF AfterRequest, Answered, Pending, BeforeRequest
  <2>16. ThreadInv(u)'
    BY <2>11, <2>13, <2>14, <2>15 DEF ThreadInv
  <2>17. OnlyFor(r, u)
    BY <1>4, <2>3 DEF AsksFor, OnlyFor
  <2> QED BY <1>1, <1>2, <1>4, <2>4, <2>6, <2>16, <2>17, LogNameStep
<1> QED BY <1>5, <1>6

\* Thread u logs another request.
LEMMA LogOtherName ==
    ASSUME Inv, NameInv, NEW u \in Threads, LogOther(u)
    PROVE  NameInv'
<1>1. /\ pc[u] = "idle" /\ alive[PidOf(u)]
      /\ LogRequest(PidOf(u), FALSE, FALSE, Resolved(PidOf(u)))
      /\ pc' = [pc EXCEPT ![u] = "test"]
      /\ asked' = Losing(Loses)
      /\ UNCHANGED <<plist, alive, woken, creates, appVars>>
  BY DEF LogOther
<1>2. /\ answers' = answers /\ adding' = adding
  BY <1>1 DEF appVars
<1>3. PlaceTypes /\ RingTypes /\ RingInv
  BY DEF Inv, RingInv
<1>4. asked[u] = 0
  BY <1>1, ThreadInvOf DEF Sound
<1>5. PICK r : r = NewRequest(PidOf(u), FALSE, FALSE, Resolved(PidOf(u)))
  OBVIOUS
<1>6. r.resolve = FALSE
  BY <1>5 DEF NewRequest
<1>7. PICK d : Pushed(d, r)
  BY <1>1, <1>3, <1>5, LogPushes
<1>8. /\ pc'[u] = "test" /\ asked'[u] = 0
      /\ \A t \in Threads \ {u} : pc'[t] = pc[t] /\ asked'[t] = Losing(Loses)[t]
  <2>1. asked'[u] = 0
    BY <1>1, <1>3, <1>4, LosingForms
  <2> QED BY <1>1, <1>3, <2>1 DEF PlaceTypes
<1>9. ~ Creating(u)'
  BY <1>8 DEF Creating
<1>10. ThreadInv(u)'
  <2>1. Sound(u)'
    BY <1>1, <1>8, <1>9 DEF Sound
  <2> QED BY <1>8, <1>9, <2>1 DEF ThreadInv, Alone, BeforeRequest, AfterRequest, First
<1>11. OnlyFor(r, u)
  BY <1>6 DEF AsksFor, OnlyFor
<1> QED BY <1>1, <1>2, <1>7, <1>8, <1>9, <1>10, <1>11, LogNameStep

-----------------------------------------------------------------------------
(* The application and the names                                           *)

\* The queue is as before if the ring is.
LEMMA SameRing == UNCHANGED ring => Length' = Length /\ \A k : Queue(k)' = Queue(k)
  BY DEF ring, Length, Queue, SlotAt

\* The application opens the device.
LEMMA AppOpensName ==
    ASSUME NameInv, AppOpens
    PROVE  NameInv'
<1>1. UNCHANGED ring /\ UNCHANGED Others /\ UNCHANGED <<answers, adding>>
  BY DEF AppOpens, FilterInit2, SetGotLog
<1> QED BY <1>1, SameRing, NothingStep

\* It wakes up.
LEMMA AppWakesName ==
    ASSUME NameInv, AppWakes
    PROVE  NameInv'
<1>1. UNCHANGED ring /\ UNCHANGED Others /\ UNCHANGED <<answers, adding>>
  BY DEF AppWakes
<1> QED BY <1>1, SameRing, NothingStep

\* It closes the device, and what it has read is lost.
LEMMA AppClosesName ==
    ASSUME Inv, NameInv, AppCloses
    PROVE  NameInv'
<1>1. CASE SetGotLog(FALSE) /\ UNCHANGED <<Others, answers, adding>>
  <2>1. UNCHANGED ring /\ UNCHANGED Others /\ UNCHANGED <<answers, adding>>
    BY <1>1 DEF SetGotLog
  <2> QED BY <2>1, SameRing, NothingStep
<1>2. CASE /\ FilterFree2 /\ answers' = {}
           /\ asked' = Losing({a.id : a \in answers})
           /\ UNCHANGED <<plist, alive, pc, woken, creates, adding>>
  <2>1. Length' = Length /\ \A k : Queue(k)' = Queue(k)
    BY <1>2, SameRing DEF FilterFree2
  <2>2. /\ EventsAreOfProcess' /\ \A p : Unnamed(p) => Unnamed(p)'
        /\ \A t : ListStays(t)
    BY <1>2, SameList DEF NameInv
  <2>3. \A a \in answers : a.id \in 1..MaxRequests
    BY DEF Inv, PlaceTypes
  <2>4. ASSUME NEW t \in Threads
        PROVE  \/ asked'[t] = asked[t] /\ \A a \in answers : a.id # asked[t]
               \/ asked'[t] = Lost /\ asked[t] # 0
    BY <1>2, <2>3 DEF Losing
  <2>5. \A p, k : IsQueued(p, k)' <=> IsQueued(p, k)
    BY <2>1 DEF IsQueued
  <2>6. \A p : Unasked(p) => Unasked(p)'
    BY <1>2, <2>1, <2>5 DEF Unasked
  <2>7. ASSUME NEW t \in Threads, OnWay(t), asked'[t] # Lost
        PROVE  OnWay(t)'
    <3>1. asked'[t] = asked[t] /\ \A a \in answers : a.id # asked[t]
      BY <2>4, <2>7
    <3>2. /\ \A k \in 1..Length : IsQueued(PidOf(t), k) => Queue(k).id = asked[t]
          /\ \E k \in 1..Length : IsQueued(PidOf(t), k)
      BY <2>7, <3>1 DEF OnWay
    <3>3. \A k \in 1..Length' : IsQueued(PidOf(t), k)' => Queue(k)'.id = asked'[t]
      BY <2>1, <2>5, <3>1, <3>2
    <3>4. \E k \in 1..Length' : IsQueued(PidOf(t), k)'
      BY <2>1, <2>5, <3>2
    <3> QED BY <1>2, <3>3, <3>4 DEF OnWay
  <2>8. ASSUME NEW t \in Threads
        PROVE  Undisturbed(t) /\ (Creating(t)' => Creating(t))
    <3>1. ThreadStays(t)
      BY <1>2, <2>4 DEF ThreadStays
    <3>2. RequestStays(t)
      BY <2>6, <2>7 DEF RequestStays
    <3>3. Creating(t)' => Creating(t)
      BY <1>2, <2>4 DEF Creating
    <3> QED BY <2>2, <3>1, <3>2, <3>3 DEF Undisturbed
  <2>9. NoneBegins
    BY <2>8 DEF NoneBegins
  <2>10. \A p \in Pids : ProcessStays(p)
    BY <1>2, <2>2, <2>6 DEF ProcessStays
  <2> QED BY <2>2, <2>8, <2>9, <2>10, QuietStep
<1> QED BY <1>1, <1>2 DEF AppCloses

\* What becomes of the requests when the first n are read.
LEMMA PoppedRequests ==
    ASSUME Length \in Nat, NEW n \in 1..Length, Popped(n), answers = {},
           answers' = {[id |-> Queue(k).id, pid |-> Queue(k).pid] :
                         k \in {j \in 1..n : Queue(j).resolve}}
    PROVE  /\ \A p : Unasked(p) => Unasked(p)'
           /\ \A t : OnWay(t) /\ asked'[t] = asked[t] => OnWay(t)'
<1>1. /\ Length' = Length - n /\ n \in Nat
      /\ \A k \in 1..Length' : k + n \in 1..Length /\ Queue(k)' = Queue(k + n)
  BY DEF Popped
<1>2. \A p : \A k \in 1..Length' : IsQueued(p, k)' <=> IsQueued(p, k + n)
  BY <1>1 DEF IsQueued
<1>3. \A a \in answers' : \E k \in 1..Length : a.id = Queue(k).id /\ IsQueued(a.pid, k)
  BY DEF IsQueued
<1>4. ASSUME NEW p, Unasked(p)
      PROVE  Unasked(p)'
  <2>1. \A k \in 1..Length' : ~ IsQueued(p, k)'
    BY <1>1, <1>2, <1>4 DEF Unasked
  <2>2. \A a \in answers' : a.pid # p
    BY <1>3, <1>4 DEF Unasked
  <2> QED BY <2>1, <2>2 DEF Unasked
<1>5. ASSUME NEW t, OnWay(t), asked'[t] = asked[t]
      PROVE  OnWay(t)'
  <2>1. /\ \A k \in 1..Length : IsQueued(PidOf(t), k) => Queue(k).id = asked[t]
        /\ \E k \in 1..Length : IsQueued(PidOf(t), k)
    BY <1>5 DEF OnWay
  <2>2. \A k \in 1..Length' : IsQueued(PidOf(t), k)' => Queue(k)'.id = asked'[t]
    BY <1>1, <1>2, <1>5, <2>1
  <2>3. \A a \in answers' : a.pid = PidOf(t) => a.id = asked'[t]
    BY <1>3, <1>5, <2>1
  <2>4. PICK k \in 1..Length : IsQueued(PidOf(t), k)
    BY <2>1
  <2>5. CASE k <= n
    <3>1. [id |-> Queue(k).id, pid |-> Queue(k).pid] \in answers'
      BY <1>1, <2>4, <2>5 DEF IsQueued
    <3>2. \E a \in answers' : a.pid = PidOf(t)
      BY <2>4, <3>1 DEF IsQueued
    <3> QED BY <2>2, <2>3, <3>2 DEF OnWay
  <2>6. CASE k > n
    <3>1. PICK j \in 1..Length' : j = k - n /\ j + n = k
      BY <1>1, <2>6
    <3>2. IsQueued(PidOf(t), j)'
      BY <1>2, <2>4, <3>1
    <3> QED BY <2>2, <2>3, <3>2 DEF OnWay
  <2> QED BY <1>1, <2>5, <2>6
<1> QED BY <1>4, <1>5

\* It reads.
LEMMA AppReadsName ==
    ASSUME Inv, NameInv, AppReads
    PROVE  NameInv'
<1>1. answers = {} /\ UNCHANGED Others /\ adding' = adding
  BY DEF AppReads
<1>2. CASE UNCHANGED <<queueVars, answers>>
  <2>1. UNCHANGED ring /\ answers' = answers
    BY <1>2 DEF queueVars
  <2> QED BY <1>1, <2>1, SameRing, NothingStep
<1>3. ASSUME NEW n \in 1..Length, GetRequest(n),
             answers' = {[id |-> data[SlotAt(k)].id, pid |-> data[SlotAt(k)].pid] :
                           k \in {j \in 1..n : data[SlotAt(j)].resolve}}
      PROVE  NameInv'
  <2>1. Popped(n)
    BY <1>3, GetPops DEF Inv, RingInv
  <2>2. Length \in Nat
    BY QueueTypes DEF Inv, RingInv
  <2>3. answers' = {[id |-> Queue(k).id, pid |-> Queue(k).pid] :
                      k \in {j \in 1..n : Queue(j).resolve}}
    BY <1>3, Zenon DEF Queue
  <2>4. /\ pc' = pc /\ woken' = woken /\ asked' = asked /\ creates' = creates
        /\ plist' = plist /\ alive' = alive
    BY <1>1 DEF Others, threadVars
  <2>5. /\ \A p : Unasked(p) => Unasked(p)'
        /\ \A t : OnWay(t) => OnWay(t)'
    BY <1>1, <2>1, <2>2, <2>3, <2>4, PoppedRequests
  <2>6. /\ EventsAreOfProcess' /\ \A p : Unnamed(p) => Unnamed(p)'
        /\ \A t : ListStays(t)
    BY <1>1, <2>4, SameList DEF NameInv
  <2>7. NoneBegins
    BY <2>4 DEF NoneBegins, Creating
  <2>8. \A t \in Threads : Undisturbed(t)
    BY <2>4, <2>5, <2>6 DEF Undisturbed, ThreadStays, RequestStays
  <2>9. \A p \in Pids : ProcessStays(p)
    BY <2>4, <2>5, <2>6 DEF ProcessStays
  <2> QED BY <2>6, <2>7, <2>8, <2>9, QuietStep
<1> QED BY <1>2, <1>3 DEF AppReads

\* It has added an entry.
LEMMA AppAddsName ==
    ASSUME AllocResults = {TRUE}, Inv, NameInv, AppAdds
    PROVE  NameInv'
<1>1. /\ adding # NoPid /\ adding' = NoPid
      /\ UNCHANGED <<queueVars, alive, threadVars, app, answers>>
      /\ plist' = Added(plist, Entry(adding, TRUE, NoThread))
  BY EntryAdded DEF AppAdds
<1>2. /\ pc' = pc /\ woken' = woken /\ asked' = asked /\ creates' = creates
      /\ answers' = answers /\ alive' = alive
      /\ Length' = Length /\ \A k : Queue(k)' = Queue(k)
  BY <1>1, QueueStays DEF threadVars, Inv
<1>3. PICK e : e = Entry(adding, TRUE, NoThread)
  OBVIOUS
<1>4. e \in Entries /\ e.pid = adding /\ e.pname = TRUE /\ e.event = NoThread
  BY <1>1, <1>3 DEF Entry, Entries, Inv, PlaceTypes
<1>5. /\ EventsAreOfProcess'
      /\ \A p \in Pids : Unnamed(p) => Unnamed(p)'
      /\ \A t \in Threads : ListStays(t)
  BY <1>1, <1>3, <1>4, ListTyped, ListGrows
<1>6. /\ \A p : Unasked(p) => Unasked(p)'
      /\ \A t : asked'[t] = asked[t] => RequestStays(t)
  BY <1>2, SameRequests
<1>7. NoneBegins
  BY <1>2 DEF NoneBegins, Creating
<1>8. \A t \in Threads : Undisturbed(t)
  BY <1>2, <1>5, <1>6 DEF Undisturbed, ThreadStays
<1>9. \A p \in Pids : ProcessStays(p)
  BY <1>2, <1>5, <1>6 DEF ProcessStays
<1> QED BY <1>5, <1>7, <1>8, <1>9, QuietStep

\* The driver is unloaded.
LEMMA UnloadName ==
    ASSUME Inv, NameInv, Unload
    PROVE  NameInv'
<1>1. /\ \A t \in Threads : pc[t] = "idle"
      /\ FilterFree /\ plist' = <<>> /\ UNCHANGED <<alive, threadVars, appVars>>
  BY DEF Unload
<1>2. /\ pc' = pc /\ woken' = woken /\ asked' = asked /\ creates' = creates
      /\ answers' = answers /\ adding' = adding /\ alive' = alive
      /\ Length' = Length /\ \A k : Queue(k)' = Queue(k)
  BY <1>1, FreeKeepsRing DEF threadVars, appVars, Inv
<1>3. DOMAIN plist' = {}
  BY <1>1
<1>4. EventsAreOfProcess' /\ \A p : Unnamed(p) => Unnamed(p)'
  BY <1>2, <1>3 DEF EventsAreOfProcess, Unnamed
<1>5. \A p : Unasked(p) => Unasked(p)'
  BY <1>2, SameRequests
<1>6. NoneBegins
  BY <1>2 DEF NoneBegins, Creating
<1>7. \A t \in Threads : Undisturbed(t)
  BY <1>1, <1>2 DEF Undisturbed, ThreadStays
<1>8. \A p \in Pids : ProcessStays(p)
  BY <1>2, <1>4, <1>5 DEF ProcessStays
<1> QED BY <1>4, <1>6, <1>7, <1>8, QuietStep

-----------------------------------------------------------------------------
(* The application answers                                                 *)

\* a is answered: the others keep what they need, and the threads of its
\* process are woken if it finds their event.
LEMMA AnswerStep ==
    ASSUME Inv, NameInv, NEW a \in answers, answers' = answers \ {a},
           UNCHANGED <<alive, pc, asked, creates>>,
           Length' = Length, \A k : Queue(k)' = Queue(k),
           EventsAreOfProcess',
           \A t \in Threads : PidOf(t) # a.pid => ListStays(t) /\ woken'[t] = woken[t],
           \A t \in Threads : PidOf(t) = a.pid =>
              /\ woken[t] => woken'[t]
              /\ woken'[t] => woken[t] \/ Resolved(a.pid)'
              /\ First(t) /\ asked[t] # 0 /\ Pending(t) => woken'[t],
           Resolved(a.pid) => Resolved(a.pid)',
           \A p \in Pids : p # a.pid /\ Unnamed(p) => Unnamed(p)'
    PROVE  NameInv'
<1>1. a.pid \in Pids
  BY DEF Inv, PlaceTypes
<1>2. ~ Unasked(a.pid)
  BY DEF Unasked
<1>3. \A p, k : IsQueued(p, k)' <=> IsQueued(p, k)
  BY DEF IsQueued
<1>4. ASSUME NEW p, Unasked(p)
      PROVE  Unasked(p)'
  BY <1>3, <1>4 DEF Unasked
<1>5. ASSUME NEW t, PidOf(t) # a.pid, OnWay(t)
      PROVE  OnWay(t)'
  <2>1. /\ \A k \in 1..Length : IsQueued(PidOf(t), k) => Queue(k).id = asked[t]
        /\ \A b \in answers : b.pid = PidOf(t) => b.id = asked[t]
        /\ \/ \E k \in 1..Length : IsQueued(PidOf(t), k)
           \/ \E b \in answers : b.pid = PidOf(t)
    BY <1>5 DEF OnWay
  <2>2. \A k \in 1..Length' : IsQueued(PidOf(t), k)' => Queue(k)'.id = asked'[t]
    BY <1>3, <2>1
  <2>3. \A b \in answers' : b.pid = PidOf(t) => b.id = asked'[t]
    BY <2>1
  <2>4. \/ \E k \in 1..Length' : IsQueued(PidOf(t), k)'
        \/ \E b \in answers' : b.pid = PidOf(t)
    BY <1>3, <1>5, <2>1
  <2> QED BY <2>2, <2>3, <2>4 DEF OnWay
<1>6. \A t \in Threads : Creating(t)' <=> Creating(t)
  BY DEF Creating
<1>7. NoneBegins /\ \A p : NoneBeginsFor(p)
  BY <1>6 DEF NoneBegins, NoneBeginsFor
<1>8. ASSUME NEW t \in Threads
      PROVE  ThreadInv(t)'
  <2>1. CASE PidOf(t) # a.pid
    <3>1. ThreadStays(t)
      BY <2>1 DEF ThreadStays
    <3>2. RequestStays(t)
      BY <1>4, <1>5, <2>1 DEF RequestStays
    <3> QED BY <1>7, <2>1, <3>1, <3>2, Bystander
  <2>2. CASE PidOf(t) = a.pid
    <3>1. Sound(t) /\ Alone(t) /\ BeforeRequest(t) /\ AfterRequest(t)
      BY ThreadInvOf
    <3>2. Sound(t)'
      BY <1>6, <2>2, <3>1 DEF Sound
    <3>3. First(t)' => First(t)
      BY <1>6 DEF First
    <3>4. Alone(t)'
      BY <1>6, <3>1, <3>3 DEF Alone
    <3>5. BeforeRequest(t)'
      BY <1>2, <2>2, <3>1, <3>3 DEF BeforeRequest
    <3>6. AfterRequest(t)'
      BY <2>2, <3>1, <3>3 DEF AfterRequest, Answered
    <3> QED BY <3>2, <3>4, <3>5, <3>6 DEF ThreadInv
  <2> QED BY <2>1, <2>2
<1>9. ASSUME NEW p \in Pids
      PROVE  NoneYet(p)'
  <2>1. CASE p = a.pid
    BY <1>2, <2>1 DEF NameInv, NoneYet
  <2>2. CASE p # a.pid
    BY <1>4, <1>7, <2>2, ProcessBystander
  <2> QED BY <2>1, <2>2
<1> QED BY <1>8, <1>9 DEF NameInv

\* The first entry for q gets its name.
LEMMA ListNames ==
    ASSUME NameInv, plist \in Seq(Entries), NEW q, FindPle(q) # 0,
           plist' = [plist EXCEPT ![FindPle(q)].pname = TRUE], adding' = adding
    PROVE  /\ EventsAreOfProcess'
           /\ plist[FindPle(q)].event # NoThread => PidOf(plist[FindPle(q)].event) = q
           /\ \A p : p # q /\ Unnamed(p) => Unnamed(p)'
           /\ Resolved(q)'
           /\ \A t \in Threads : PidOf(t) # q => ListStays(t)
<1>1. PICK k : k = FindPle(q)
  OBVIOUS
<1>2. k \in 1..Len(plist) /\ plist[k].pid = q
  BY <1>1, FindFacts, FindIsOfList
<1>3. PICK r : r = [plist[k] EXCEPT !.pname = TRUE]
  OBVIOUS
<1>4. plist[k] \in Entries
  BY <1>2
<1>5. /\ r \in Entries /\ r.pid = plist[k].pid /\ r.pname = TRUE /\ r.event = plist[k].event
  BY <1>3, <1>4 DEF Entries
<1>6. plist' = [plist EXCEPT ![k] = r]
  BY <1>1, <1>3
<1>7. DOMAIN plist' = DOMAIN plist /\ k \in DOMAIN plist
  BY <1>2, <1>6
<1>8. \A j \in DOMAIN plist : plist'[j] = IF j = k THEN r ELSE plist[j]
  BY <1>6
<1>9. \A p : FindPle(p)' = FindPle(p)
  <2> SUFFICES ASSUME NEW p
               PROVE  FindPle(p)' = FindPle(p)
    OBVIOUS
  <2>1. Find([plist EXCEPT ![k] = r], p) = Find(plist, p)
    BY <1>2, <1>5, FindChanged
  <2> QED BY <1>6, <2>1, FindIsOfList
<1>10. \A p : FindPle(p) # 0 => FindPle(p) \in DOMAIN plist /\ plist[FindPle(p)].pid = p
  BY FindFacts, FindIsOfList
<1>11. EventsAreOfProcess'
  <2>1. \A j \in DOMAIN plist :
           plist[j].event # NoThread => PidOf(plist[j].event) = plist[j].pid
    BY DEF NameInv, EventsAreOfProcess
  <2>2. ASSUME NEW j \in DOMAIN plist', plist'[j].event # NoThread
        PROVE  PidOf(plist'[j].event) = plist'[j].pid
    <3>1. CASE j = k
      BY <1>2, <1>5, <1>7, <1>8, <2>1, <2>2, <3>1
    <3>2. CASE j # k
      BY <1>7, <1>8, <2>1, <2>2, <3>2
    <3> QED BY <3>1, <3>2
  <2> QED BY <2>2 DEF EventsAreOfProcess
<1>12. plist[k].event # NoThread => PidOf(plist[k].event) = q
  BY <1>2, <1>7 DEF NameInv, EventsAreOfProcess
<1>13. ASSUME NEW p, p # q, Unnamed(p)
       PROVE  Unnamed(p)'
  BY <1>2, <1>5, <1>7, <1>8, <1>13 DEF Unnamed
<1>14. Resolved(q)'
  BY <1>1, <1>5, <1>7, <1>8, <1>9 DEF Resolved
<1>15. ASSUME NEW t \in Threads, PidOf(t) # q
       PROVE  ListStays(t)
  <2>1. FindPle(PidOf(t)) # 0 => plist'[FindPle(PidOf(t))] = plist[FindPle(PidOf(t))]
    BY <1>2, <1>8, <1>10, <1>15
  <2>2. Resolved(PidOf(t)) => Resolved(PidOf(t))'
    BY <1>9, <2>1 DEF Resolved
  <2>3. Listed(t) => Listed(t)'
    BY <1>9, <2>1 DEF Listed
  <2> QED BY <1>9, <1>13, <1>15, <2>2, <2>3 DEF ListStays
<1> QED BY <1>1, <1>11, <1>12, <1>13, <1>14, <1>15

\* It answers.
LEMMA AppAnswersName ==
    ASSUME AllocResults = {TRUE}, Inv, NameInv, AppAnswers
    PROVE  NameInv'
<1>1. /\ answers # {} /\ answers' = answers \ {NextAnswer} /\ adding = NoPid
      /\ UNCHANGED <<queueVars, alive, pc, asked, creates, app>>
  BY DEF AppAnswers
<1>2. PICK a \in answers : a = NextAnswer
  BY <1>1, NextAnswerIsOne DEF Inv
<1>3. a.pid \in Pids
  BY DEF Inv, PlaceTypes
<1>4. Length' = Length /\ \A k : Queue(k)' = Queue(k)
  BY <1>1, QueueStays DEF Inv
<1>5. PICK k : k = FindPle(a.pid)
  OBVIOUS
<1>6. /\ FindPle(a.pid) \in 0..Len(plist)
      /\ FindPle(a.pid) # 0 =>
            FindPle(a.pid) \in DOMAIN plist /\ plist[FindPle(a.pid)].pid = a.pid
  BY ListTyped, FindFacts, FindIsOfList
<1>7. answers' = answers \ {a}
  BY <1>1, <1>2
<1>8. CASE k # 0 /\ plist[k].pname /\ UNCHANGED <<plist, woken, adding>>
  <2>1. /\ EventsAreOfProcess' /\ \A p : Unnamed(p) => Unnamed(p)'
        /\ \A p : Resolved(p)' <=> Resolved(p)
        /\ \A t : ListStays(t)
    BY <1>8, SameList DEF NameInv
  <2>2. ~ Unnamed(a.pid)
    BY <1>5, <1>6, <1>8 DEF Unnamed
  <2>3. \A t \in Threads : PidOf(t) = a.pid => ~ Pending(t)
    BY <2>2 DEF Pending
  <2> QED BY <1>1, <1>4, <1>7, <1>8, <2>1, <2>3, AnswerStep
<1>9. CASE /\ k # 0 /\ (\E ok \in AllocResults : plist' = [plist EXCEPT ![k].pname = ok])
           /\ woken' = [t \in Threads |-> woken[t] \/ (plist[k].event = t /\ pc[t] \in OnStack)]
           /\ UNCHANGED adding
  <2>1. plist' = [plist EXCEPT ![FindPle(a.pid)].pname = TRUE]
    BY <1>5, <1>9
  <2>2. /\ EventsAreOfProcess'
        /\ plist[k].event # NoThread => PidOf(plist[k].event) = a.pid
        /\ \A p : p # a.pid /\ Unnamed(p) => Unnamed(p)'
        /\ Resolved(a.pid)'
        /\ \A t \in Threads : PidOf(t) # a.pid => ListStays(t)
    BY <1>5, <1>9, <2>1, ListTyped, ListNames
  <2>3. \A t \in Threads :
           woken'[t] = (woken[t] \/ (plist[k].event = t /\ pc[t] \in OnStack))
    BY <1>9, Zenon
  <2>4. ASSUME NEW t \in Threads, PidOf(t) # a.pid
        PROVE  woken'[t] = woken[t]
    <3>1. t # NoThread
      BY ResolveAssumption
    <3>2. plist[k].event # t
      BY <2>2, <2>4, <3>1
    <3>3. woken[t] \in BOOLEAN
      BY DEF Inv, PlaceTypes
    <3>4. woken'[t] = (woken[t] \/ (plist[k].event = t /\ pc[t] \in OnStack))
      BY <2>3
    <3> QED BY <3>2, <3>3, <3>4, Zenon
  <2>5. ASSUME NEW t \in Threads, PidOf(t) = a.pid, First(t), asked[t] # 0, Pending(t)
        PROVE  woken'[t]
    <3>1. plist[k].event = t
      BY <1>5, <2>5 DEF Pending, Listed
    <3>2. pc[t] \in OnStack
      BY <2>5, ThreadInvOf DEF Sound, OnStack
    <3> QED BY <2>3, <3>1, <3>2, Zenon
  <2>6. \A t \in Threads : woken[t] => woken'[t]
    BY <2>3, Zenon
  <2> QED BY <1>1, <1>4, <1>7, <2>2, <2>4, <2>5, <2>6, AnswerStep
<1>10. CASE k = 0 /\ adding' = a.pid /\ UNCHANGED <<plist, woken>>
  <2>1. \A p : FindPle(p)' = FindPle(p)
    BY <1>10 DEF FindPle
  <2>2. \A p : Resolved(p)' <=> Resolved(p)
    BY <1>10, <2>1 DEF Resolved
  <2>3. \A t : Listed(t)' <=> Listed(t)
    BY <1>10, <2>1 DEF Listed
  <2>4. \A p : p # a.pid /\ Unnamed(p) => Unnamed(p)'
    BY <1>10 DEF Unnamed
  <2>5. EventsAreOfProcess'
    BY <1>10 DEF NameInv, EventsAreOfProcess
  <2>6. \A t \in Threads : PidOf(t) # a.pid => ListStays(t)
    BY <2>1, <2>2, <2>3, <2>4 DEF ListStays
  <2>7. \A t \in Threads : PidOf(t) = a.pid => ~ Pending(t)
    BY <1>5, <1>10 DEF Pending, Listed
  <2> QED BY <1>1, <1>4, <1>7, <1>10, <2>2, <2>4, <2>5, <2>6, <2>7, AnswerStep
<1>11. \/ k # 0 /\ plist[k].pname /\ UNCHANGED <<plist, woken, adding>>
       \/ /\ k # 0 /\ (\E ok \in AllocResults : plist' = [plist EXCEPT ![k].pname = ok])
          /\ woken' = [t \in Threads |-> woken[t] \/ (plist[k].event = t /\ pc[t] \in OnStack)]
          /\ UNCHANGED adding
       \/ k = 0 /\ adding' = a.pid /\ UNCHANGED <<plist, woken>>
  BY <1>2, <1>5, Zenon DEF AppAnswers
<1> QED BY <1>8, <1>9, <1>10, <1>11

-----------------------------------------------------------------------------
(* The names, at the end                                                   *)

\* At the start nobody is in a create.
LEMMA InitName ==
    ASSUME Init
    PROVE  NameInv
<1>1. Length = 0
  <2>1. Span(0, 0) = 0 /\ head = 0 /\ tail = 0
    <3>1. 0 \in Slots
      BY QueueAssumption DEF Slots
    <3> QED BY <3>1, SpanForm DEF Init, QueueInit
  <2> QED BY <2>1, QueueIsWindow
<1>2. DOMAIN plist = {}
  BY DEF Init
<1>3. \A t \in Threads : pc[t] = "idle" /\ asked[t] = 0 /\ ~ Creating(t)
  BY DEF Init, Creating
<1>4. EventsAreOfProcess
  BY <1>2 DEF EventsAreOfProcess
<1>5. ASSUME NEW p \in Pids
      PROVE  NoneYet(p)
  <2>1. adding # p /\ answers = {}
    BY ResolveAssumption DEF Init
  <2>2. Unnamed(p)
    BY <1>2, <2>1 DEF Unnamed
  <2>3. Unasked(p)
    BY <1>1, <2>1 DEF Unasked
  <2> QED BY <1>3, <2>2, <2>3 DEF NoneYet
<1>6. ASSUME NEW t \in Threads
      PROVE  ThreadInv(t)
  BY <1>3 DEF ThreadInv, Sound, Alone, First, BeforeRequest, AfterRequest
<1> QED BY <1>4, <1>5, <1>6 DEF NameInv

\* Every step keeps what is known of the names.
LEMMA NextName ==
    ASSUME AllocResults = {TRUE}, Inv, NameInv, [Next]_vars
    PROVE  NameInv'
<1>1. ASSUME NEW t \in Threads, Thread(t)
      PROVE  NameInv'
  BY <1>1, CreateBeginName, SetEventFoundName, SetEventNotFoundName, SetEventAddName,
     LogResolveName, LogOtherName, SignalTestName, SignalSetName, WaitEndsName, Zenon DEF Thread
<1>2. ASSUME NEW p \in Pids, ProcessCreate(p) \/ ProcessTerminate(p)
      PROVE  NameInv'
  BY <1>2, ProcessCreateName, ProcessTerminateName
<1>3. CASE App
  BY <1>3, AppOpensName, AppClosesName, AppWakesName, AppReadsName, AppAnswersName,
     AppAddsName, Zenon DEF App
<1>4. CASE Unload
  BY <1>4, UnloadName
<1>5. CASE UNCHANGED vars
  <2>1. UNCHANGED ring /\ UNCHANGED Others /\ UNCHANGED <<answers, adding>>
    BY <1>5 DEF vars, queueVars, appVars, Others
  <2> QED BY <2>1, SameRing, NothingStep
<1> QED BY <1>1, <1>2, <1>3, <1>4, <1>5 DEF Next

\* A request on its way is in a slot of the queue or with the application.
LEMMA OnWayIsSomewhere ==
    ASSUME NEW t, OnWay(t)
    PROVE  (\E i \in Queued : data[i].id = asked[t]) \/ (\E a \in answers : a.id = asked[t])
<1>1. ASSUME NEW k \in 1..Length, IsQueued(PidOf(t), k)
      PROVE  \E i \in Queued : data[i].id = asked[t]
  <2>1. Queue(k).id = asked[t]
    BY <1>1 DEF OnWay
  <2>2. SlotAt(k) \in Queued /\ data[SlotAt(k)].id = asked[t]
    BY <2>1 DEF Queued, Queue
  <2> QED BY <2>2
<1>2. ASSUME NEW a \in answers, a.pid = PidOf(t)
      PROVE  a.id = asked[t]
  BY <1>2 DEF OnWay
<1> QED BY <1>1, <1>2 DEF OnWay

\* tdi_create, pid_pname_set_event and pid_pname_set: the first thread that
\* waits for a name is woken, or its request is on its way or lost, and no
\* thread is woken for a name that is not known, for any number of processes
\* and threads, as long as there is memory for the list (NameReachesWaiters).
THEOREM NameReaches == AllocResults = {TRUE} => (Spec => []NameReachesWaiters)
<1> SUFFICES ASSUME AllocResults = {TRUE}
             PROVE  Spec => []NameReachesWaiters
  OBVIOUS
<1>1. Init => NameInv
  BY InitName
<1>2. Inv /\ NameInv /\ [Next]_vars => NameInv'
  BY NextName
<1>3. NameInv => NameReachesWaiters
  <2> SUFFICES ASSUME NameInv, NEW t \in Threads, pc[t] = "wait"
               PROVE  /\ creates[PidOf(t)] = 1
                          => \/ woken[t] \/ asked[t] = Lost
                             \/ \E i \in Queued : data[i].id = asked[t]
                             \/ \E a \in answers : a.id = asked[t]
                      /\ woken[t] => Resolved(PidOf(t))
    BY DEF NameReachesWaiters, FirstCreateIsAnswered, WokenHasName
  <2>1. Sound(t) /\ AfterRequest(t)
    BY ThreadInvOf
  <2>2. asked[t] # 0 /\ Creating(t)
    BY <2>1 DEF Sound, Creating
  <2>3. creates[PidOf(t)] = 1 => woken[t] \/ asked[t] = Lost \/ OnWay(t)
    BY <2>1, <2>2 DEF AfterRequest, First, Answered, Pending
  <2> QED BY <2>1, <2>2, <2>3, OnWayIsSomewhere DEF Sound
<1> QED BY <1>1, <1>2, <1>3, Invariant, PTL DEF Spec
=============================================================================
