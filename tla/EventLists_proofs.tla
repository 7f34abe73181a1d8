------------------------- MODULE EventLists_proofs -------------------------
(***************************************************************************)
(* Theorems about EventLists, for all values of its constants: any number  *)
(* of events, any distances, any width of uint64_t.                        *)
(***************************************************************************)
EXTENDS EventLists, Integers, FiniteSetTheorems, SequenceTheorems,
        WellFoundedInduction, TLAPS

-----------------------------------------------------------------------------
(***************************************************************************)
(* Loops.  A loop of the code is the sequence of its turns, a function     *)
(* that is defined by recursion on the number of the turn.                 *)
(***************************************************************************)

\* Induction on the natural numbers, for a set of them.
LEMMA NatSetInduction ==
  ASSUME NEW S \in SUBSET Nat, 0 \in S, \A n \in S : n + 1 \in S
  PROVE  S = Nat
<1> DEFINE R == {ss \in Nat \X Nat : ss[1] < ss[2]}
           T == Nat \ S
<1>1. SUFFICES ASSUME T # {} PROVE FALSE
  OBVIOUS
<1>2. IsWellFoundedOn(R, Nat)
  BY NatLessThanWellFounded DEF OpToRel
<1>3. PICK n \in T : \A m \in T : <<m, n>> \notin R
  <2>1. T \subseteq Nat
    OBVIOUS
  <2> HIDE DEF R, T
  <2> QED  BY <1>1, <1>2, <2>1, WFMin
<1>4. n \in Nat /\ n # 0
  OBVIOUS
<1>5. n - 1 \in Nat /\ n - 1 \notin T
  <2>1. n - 1 \in Nat /\ n - 1 < n
    BY <1>4
  <2>2. <<n - 1, n>> \in R
    BY <1>4, <2>1
  <2> QED  BY <1>3, <2>1, <2>2
<1> QED  BY <1>4, <1>5

\* A loop of n turns over states of U.  T[k] is what holds after turn k: every
\* turn leads from one of these sets into the next.
IsLoop(n, U, T, a, step) ==
  /\ n \in Nat /\ T \in [0..n -> SUBSET U] /\ a \in T[0]
  /\ step \in [(1..n) \X U -> U]
  /\ \A k \in 1..n : \A s \in T[k - 1] : step[<<k, s>>] \in T[k]

IsRun(f, n, U, T, a, step) ==
  /\ f \in [0..n -> U]
  /\ f[0] = a
  /\ \A k \in 1..n : f[k] = step[<<k, f[k - 1]>>]
  /\ \A k \in 0..n : f[k] \in T[k]

\* Such a loop has a run.
LEMMA LoopRuns ==
  ASSUME NEW n, NEW U, NEW T, NEW a, NEW step, IsLoop(n, U, T, a, step)
  PROVE  \E f : IsRun(f, n, U, T, a, step)
<1>a. /\ n \in Nat /\ T \in [0..n -> SUBSET U] /\ a \in T[0]
      /\ step \in [(1..n) \X U -> U]
      /\ \A k \in 1..n : \A s \in T[k - 1] : step[<<k, s>>] \in T[k]
  BY DEF IsLoop
<1> DEFINE Runs(f, m) == /\ f[0] = a
                         /\ \A k \in 1..n : k <= m => f[k] = step[<<k, f[k - 1]>>]
                         /\ \A k \in 0..n : k <= m => f[k] \in T[k]
           S == {m \in Nat : m <= n => \E f \in [0..n -> U] : Runs(f, m)}
<1>0. a \in U
  BY <1>a
<1>1. 0 \in S
  <2> DEFINE f == [k \in 0..n |-> a]
  <2>1. f \in [0..n -> U] /\ f[0] = a
    BY <1>0, <1>a
  <2>2. Runs(f, 0)
    BY <1>a, <2>1
  <2> HIDE DEF f, Runs
  <2> QED  BY <2>1, <2>2
<1>2. ASSUME NEW m \in S PROVE m + 1 \in S
  <2>1. m \in Nat
    OBVIOUS
  <2>2. SUFFICES ASSUME m + 1 <= n
                 PROVE  \E f \in [0..n -> U] : Runs(f, m + 1)
    BY <2>1
  <2>3. PICK f \in [0..n -> U] : Runs(f, m)
    BY <1>a, <2>1, <2>2
  <2> DEFINE g == [k \in 0..n |-> IF k = m + 1 THEN step[<<m + 1, f[m]>>] ELSE f[k]]
  <2>4. m \in 0..n /\ m + 1 \in 1..n /\ f[m] \in U /\ f[m] \in T[m]
    BY <1>a, <2>1, <2>2, <2>3
  <2>5. step[<<m + 1, f[m]>>] \in U
    BY <1>a, <2>4
  <2>11. step[<<m + 1, f[m]>>] \in T[m + 1]
    <3>1. \A s \in T[(m + 1) - 1] : step[<<m + 1, s>>] \in T[m + 1]
      BY <1>a, <2>4
    <3>2. (m + 1) - 1 = m
      BY <2>1
    <3> QED  BY <2>4, <3>1, <3>2
  <2>6. g \in [0..n -> U]
    BY <2>5
  <2>7. g[0] = a
    BY <1>a, <2>1, <2>3
  <2>8. ASSUME NEW k \in 1..n, k <= m + 1
        PROVE  g[k] = step[<<k, g[k - 1]>>]
    <3>1. k - 1 \in 0..n /\ k - 1 # m + 1 /\ k \in 0..n
      BY <1>a, <2>1, <2>8
    <3>2. g[k - 1] = f[k - 1]
      BY <3>1
    <3>3. CASE k = m + 1
      <4>1. k - 1 = m
        BY <2>1, <3>3
      <4> QED  BY <3>1, <3>2, <3>3, <4>1
    <3>4. CASE k # m + 1
      <4>1. k <= m
        BY <2>1, <2>8, <3>4
      <4>2. f[k] = step[<<k, f[k - 1]>>]
        BY <2>3, <4>1
      <4> QED  BY <3>1, <3>2, <3>4, <4>2
    <3> QED  BY <3>3, <3>4
  <2>9. ASSUME NEW k \in 0..n, k <= m + 1
        PROVE  g[k] \in T[k]
    <3>1. CASE k = m + 1
      BY <2>11, <3>1
    <3>2. CASE k # m + 1
      <4>1. k <= m
        BY <2>1, <2>9, <3>2
      <4> QED  BY <2>3, <3>2, <4>1
    <3> QED  BY <3>1, <3>2
  <2>10. Runs(g, m + 1)
    <3> HIDE DEF g
    <3> QED  BY <2>7, <2>8, <2>9
  <2> HIDE DEF g, Runs
  <2> QED  BY <2>6, <2>10
<1>3. n \in S
  <2> HIDE DEF S
  <2>1. S \subseteq Nat
    BY DEF S
  <2> QED  BY <1>1, <1>2, <1>a, <2>1, NatSetInduction
<1>4. PICK f \in [0..n -> U] : Runs(f, n)
  BY <1>3, <1>a
<1> QED  BY <1>4, <1>a DEF IsRun

\* What a loop establishes.
LEMMA LoopStates ==
  ASSUME NEW n \in Nat, NEW T, NEW f, f[0] \in T[0],
         \A k \in 1..n : f[k - 1] \in T[k - 1] => f[k] \in T[k]
  PROVE  \A k \in 0..n : f[k] \in T[k]
<1> DEFINE S == {k \in Nat : k <= n => f[k] \in T[k]}
<1>1. 0 \in S
  OBVIOUS
<1>2. ASSUME NEW k \in S PROVE k + 1 \in S
  <2>1. k \in Nat /\ (k + 1) - 1 = k
    OBVIOUS
  <2>2. SUFFICES ASSUME k + 1 <= n PROVE f[k + 1] \in T[k + 1]
    BY <2>1
  <2>3. k + 1 \in 1..n /\ f[k] \in T[k]
    BY <2>1, <2>2
  <2> QED  BY <2>1, <2>3
<1>3. S = Nat
  <2> HIDE DEF S
  <2>1. S \subseteq Nat
    BY DEF S
  <2> QED  BY <1>1, <1>2, <2>1, NatSetInduction
<1> QED  BY <1>3

-----------------------------------------------------------------------------
(***************************************************************************)
(* The heap.  Its elements have different uids, so that the order of       *)
(* EventKey is total on them; what a loop does to it is a permutation.     *)
(***************************************************************************)

Distinct(h) == \A i, j \in 1..Len(h) : h[i].uid = h[j].uid => i = j
Members(h) == {h[i] : i \in 1..Len(h)}

\* h holds n events, those of the set M.
Holds(h, n, M) == /\ h \in Seq(Heap!Event) /\ Len(h) = n
                  /\ Distinct(h) /\ Members(h) = M

\* The events that come before all of ms: the ones that a heap in which those
\* are misplaced still has in order.  What comes before one of them is one too.
Early(ms) == {e \in Heap!Event : \A m \in ms : Heap!Before(e, m)}

\* With regard to the events of S, h is ordered; it is but between a node and
\* its parent, or between a node and its children, which then come after the
\* node's parent.
OrderedBelow(h, p, S) ==
  /\ \A i \in 2..Len(h) :
       i # p /\ h[i] \in S => ~Heap!Before(h[i], h[i \div 2])
  /\ \A i \in 2..Len(h) :
       i \div 2 = p /\ p > 1 /\ h[i] \in S => ~Heap!Before(h[i], h[p \div 2])
OrderedAbove(h, p, S) ==
  /\ \A i \in 2..Len(h) :
       i \div 2 # p /\ h[i] \in S => ~Heap!Before(h[i], h[i \div 2])
  /\ \A i \in 2..Len(h) :
       i \div 2 = p /\ p > 1 /\ h[i] \in S => ~Heap!Before(h[i], h[p \div 2])
Ordered(h, S) ==
  \A i \in 2..Len(h) : h[i] \in S => ~Heap!Before(h[i], h[i \div 2])

\* Before is a strict order; what it does not order is ordered the other way.
LEMMA BeforeOrder ==
  ASSUME NEW e \in Heap!Event, NEW f \in Heap!Event, NEW g \in Heap!Event
  PROVE  /\ ~Heap!Before(e, f) /\ ~Heap!Before(f, g) => ~Heap!Before(e, g)
         /\ Heap!Before(e, f) => ~Heap!Before(f, e)
BY DEF Heap!Event, Heap!Before

\* What does not come after an early event is early.
LEMMA EarlyBelow ==
  ASSUME NEW ms \in SUBSET Heap!Event, NEW e \in Heap!Event, NEW f \in Early(ms),
         ~Heap!Before(f, e)
  PROVE  e \in Early(ms)
<1> SUFFICES ASSUME NEW m \in ms PROVE Heap!Before(e, m)
  BY DEF Early
<1>1. Heap!Before(f, m) /\ f \in Heap!Event /\ m \in Heap!Event
  BY DEF Early
<1> QED  BY <1>1 DEF Heap!Event, Heap!Before

\* With nothing misplaced, every event is early.
LEMMA AllEarly == Early({}) = Heap!Event
BY DEF Early

\* Exch exchanges.
LEMMA ExchElements ==
  ASSUME NEW h \in Seq(Heap!Event), NEW a \in 1..Len(h), NEW b \in 1..Len(h)
  PROVE  /\ Heap!Exch(h, a, b) \in Seq(Heap!Event)
         /\ Len(Heap!Exch(h, a, b)) = Len(h)
         /\ \A i \in 1..Len(h) :
              Heap!Exch(h, a, b)[i] =
                IF i = b THEN h[a] ELSE IF i = a THEN h[b] ELSE h[i]
<1>1. h[a] \in Heap!Event /\ h[b] \in Heap!Event
  BY ElementOfSeq
<1> DEFINE g == [h EXCEPT ![a] = h[b]]
<1>2. /\ g \in Seq(Heap!Event) /\ Len(g) = Len(h)
      /\ \A i \in 1..Len(h) : g[i] = IF i = a THEN h[b] ELSE h[i]
  BY <1>1, ExceptSeq
<1>3. Heap!Exch(h, a, b) = [g EXCEPT ![b] = h[a]]
  BY DEF Heap!Exch
<1> HIDE DEF g
<1>4. /\ [g EXCEPT ![b] = h[a]] \in Seq(Heap!Event)
      /\ Len([g EXCEPT ![b] = h[a]]) = Len(g)
      /\ \A i \in 1..Len(g) : [g EXCEPT ![b] = h[a]][i] = IF i = b THEN h[a] ELSE g[i]
  BY <1>1, <1>2, ExceptSeq
<1> QED  BY <1>2, <1>3, <1>4

LEMMA ExchSeq ==
  ASSUME NEW h \in Seq(Heap!Event), NEW a \in 1..Len(h), NEW b \in 1..Len(h)
  PROVE  Heap!Exch(h, a, b) \in Seq(Heap!Event) /\ Len(Heap!Exch(h, a, b)) = Len(h)
BY ExchElements

LEMMA ExchAt ==
  ASSUME NEW h \in Seq(Heap!Event), NEW a \in 1..Len(h), NEW b \in 1..Len(h),
         NEW i \in 1..Len(h)
  PROVE  Heap!Exch(h, a, b)[i] =
           IF i = b THEN h[a] ELSE IF i = a THEN h[b] ELSE h[i]
BY ExchElements

\* Exch keeps the events.
LEMMA ExchHolds ==
  ASSUME NEW n, NEW M, NEW h, Holds(h, n, M), NEW a \in 1..n, NEW b \in 1..n
  PROVE  Holds(Heap!Exch(h, a, b), n, M)
<1> DEFINE g == Heap!Exch(h, a, b)
           Other(i) == IF i = b THEN a ELSE IF i = a THEN b ELSE i
<1>1. h \in Seq(Heap!Event) /\ Len(h) = n /\ Distinct(h) /\ Members(h) = M
  BY DEF Holds
<1>2. /\ g \in Seq(Heap!Event) /\ Len(g) = n
      /\ \A i \in 1..n :
           g[i] = IF i = b THEN h[a] ELSE IF i = a THEN h[b] ELSE h[i]
  <2>1. a \in 1..Len(h) /\ b \in 1..Len(h)
    BY <1>1
  <2>2. g \in Seq(Heap!Event) /\ Len(g) = Len(h)
    BY <1>1, <2>1, ExchSeq
  <2>3. \A i \in 1..Len(h) :
          g[i] = IF i = b THEN h[a] ELSE IF i = a THEN h[b] ELSE h[i]
    BY <1>1, <2>1, ExchAt
  <2> HIDE DEF g
  <2> QED  BY <1>1, <2>2, <2>3
<1> HIDE DEF g
<1>3. \A i \in 1..n : Other(i) \in 1..n /\ Other(Other(i)) = i /\ g[i] = h[Other(i)]
  BY <1>2
<1> HIDE DEF Other
<1>4. Distinct(g)
  <2> SUFFICES ASSUME NEW i \in 1..n, NEW j \in 1..n, g[i].uid = g[j].uid
               PROVE  i = j
    BY <1>2 DEF Distinct
  <2>1. Other(i) = Other(j)
    BY <1>1, <1>3 DEF Distinct
  <2> QED  BY <1>3, <2>1
<1>5. Members(g) = M
  <2>1. ASSUME NEW i \in 1..n PROVE g[i] \in M
    BY <1>1, <1>3 DEF Members
  <2>2. ASSUME NEW i \in 1..n PROVE h[i] \in Members(g)
    <3>1. Other(i) \in 1..n /\ g[Other(i)] = h[i]
      BY <1>3
    <3> QED  BY <1>2, <3>1 DEF Members
  <2> QED  BY <1>1, <1>2, <2>1, <2>2 DEF Members
<1>6. Holds(g, n, M)
  BY <1>2, <1>4, <1>5 DEF Holds
<1> QED  BY <1>6 DEF g

-----------------------------------------------------------------------------
\* BottomUp.

\* The loop has ended.
Risen(s) == \/ s.index = 1
            \/ ~Heap!Before(s.heap[s.index], s.heap[s.index \div 2])

\* Turns before the loop ends bring the event nearer to the root.
RiseTurns(n, M, ms, k) ==
  {s \in [heap : Seq(Heap!Event), index : 1..n] :
     /\ Holds(s.heap, n, M)
     /\ OrderedBelow(s.heap, s.index, Early(ms))
     /\ Risen(s) \/ s.index <= n - k}

LEMMA RiseTurn ==
  ASSUME NEW n \in Nat, NEW M, NEW ms \in SUBSET Heap!Event,
         NEW k \in 1..n, NEW s \in RiseTurns(n, M, ms, k - 1)
  PROVE  Heap!Rise(s) \in RiseTurns(n, M, ms, k)
<1> DEFINE h == s.heap
           p == s.index
           q == p \div 2
           g == Heap!Exch(h, p, q)
<1>1. /\ h \in Seq(Heap!Event) /\ p \in 1..n /\ Len(h) = n
      /\ Holds(h, n, M) /\ OrderedBelow(h, p, Early(ms))
      /\ Risen(s) \/ p <= n - (k - 1)
      /\ s \in [heap : Seq(Heap!Event), index : 1..n]
  BY DEF RiseTurns, Holds
<1>2. CASE Risen(s)
  <2>1. Heap!Rise(s) = s
    BY <1>2 DEF Heap!Rise, Risen
  <2> QED  BY <1>1, <1>2, <2>1 DEF RiseTurns
<1>3. CASE ~Risen(s)
  <2>1. p # 1 /\ Heap!Before(h[p], h[q]) /\ p <= n - (k - 1)
    BY <1>1, <1>3 DEF Risen
  <2>2. q \in 1..n /\ q < p /\ p \in 2..n
    BY <1>1, <2>1
  <2>3. Heap!Rise(s) = [heap |-> g, index |-> q]
    BY <2>1 DEF Heap!Rise
  <2>4. Holds(g, n, M)
    BY <1>1, <2>2, ExchHolds
  <2>5. /\ g \in Seq(Heap!Event) /\ Len(g) = n
        /\ \A i \in 1..n :
             g[i] = IF i = q THEN h[p] ELSE IF i = p THEN h[q] ELSE h[i]
    <3>1. h \in Seq(Heap!Event) /\ p \in 1..Len(h) /\ q \in 1..Len(h)
      BY <1>1, <2>2
    <3> HIDE DEF h, p, q
    <3>2. g \in Seq(Heap!Event) /\ Len(g) = Len(h)
      BY <3>1, ExchSeq
    <3>3. \A i \in 1..Len(h) :
            g[i] = IF i = q THEN h[p] ELSE IF i = p THEN h[q] ELSE h[i]
      BY <3>1, ExchAt
    <3> HIDE DEF g
    <3> QED  BY <1>1, <3>2, <3>3
  <2>6. \A i \in 1..n : h[i] \in Heap!Event
    BY <1>1, ElementOfSeq
  <2> HIDE DEF g, h, p
  <2>7. \A i \in 2..n : i \div 2 \in 1..n /\ i \div 2 < i
    OBVIOUS
  <2>8. ~Heap!Before(h[q], h[p])
    BY <1>1, <2>1, <2>2, <2>6, BeforeOrder
  <2>9. ASSUME NEW i \in 2..n, i # q, g[i] \in Early(ms)
        PROVE  ~Heap!Before(g[i], g[i \div 2])
    <3> DEFINE j == i \div 2
    <3>1. j \in 1..n /\ j < i /\ i \in 1..n
      BY <2>7
    <3>2. i # p /\ h[i] \in Early(ms) => ~Heap!Before(h[i], h[j])
      BY <1>1, <3>1 DEF OrderedBelow
    <3>3. CASE i = p
      <4>1. g[i] = h[q] /\ g[j] = h[p]
        BY <2>2, <2>5, <3>1, <3>3
      <4> QED  BY <2>8, <4>1
    <3>4. CASE i # p /\ j = p
      <4>1. g[i] = h[i] /\ g[j] = h[q]
        BY <2>2, <2>5, <2>9, <3>1, <3>4
      <4>2. ~Heap!Before(h[i], h[p \div 2])
        BY <1>1, <2>2, <2>9, <3>4, <4>1 DEF OrderedBelow
      <4> QED  BY <4>1, <4>2
    <3>5. CASE i # p /\ j = q
      <4>1. g[i] = h[i] /\ g[j] = h[p]
        BY <2>2, <2>5, <2>9, <3>1, <3>5
      <4>2. ~Heap!Before(h[i], h[q])
        BY <2>9, <3>2, <3>5, <4>1
      <4>3. h[i] \in Heap!Event /\ h[q] \in Heap!Event /\ h[p] \in Heap!Event
        BY <2>2, <2>6, <3>1
      <4> QED  BY <2>8, <4>1, <4>2, <4>3, BeforeOrder
    <3>6. CASE i # p /\ j # p /\ j # q
      <4>1. g[i] = h[i] /\ g[j] = h[j]
        BY <2>5, <2>9, <3>1, <3>6
      <4> QED  BY <2>9, <3>2, <3>6, <4>1
    <3> QED  BY <3>3, <3>4, <3>5, <3>6
  <2>10. ASSUME NEW i \in 2..n, i \div 2 = q, q > 1, g[i] \in Early(ms)
         PROVE  ~Heap!Before(g[i], g[q \div 2])
    <3> DEFINE r == q \div 2
    <3>1. r \in 1..n /\ r < q /\ i \in 1..n /\ i # q
      BY <2>2, <2>7, <2>10
    <3>2. g[r] = h[r]
      BY <2>2, <2>5, <3>1
    <3>3. h[q] \in Early(ms) => ~Heap!Before(h[q], h[r])
      BY <1>1, <2>2, <2>10 DEF OrderedBelow
    <3>4. CASE i = p
      <4>1. g[i] = h[q]
        BY <2>5, <3>1, <3>4
      <4> QED  BY <2>10, <3>2, <3>3, <4>1
    <3>5. CASE i # p
      <4>1. g[i] = h[i]
        BY <2>5, <3>1, <3>5
      <4>2. ~Heap!Before(h[i], h[q])
        BY <1>1, <2>10, <3>5, <4>1 DEF OrderedBelow
      <4>3. h[i] \in Heap!Event /\ h[q] \in Heap!Event /\ h[r] \in Heap!Event
        BY <2>2, <2>6, <3>1
      <4>4. h[q] \in Early(ms)
        BY <2>10, <4>1, <4>2, <4>3, EarlyBelow
      <4> QED  BY <3>2, <3>3, <4>1, <4>2, <4>3, <4>4, BeforeOrder
    <3> QED  BY <3>4, <3>5
  <2>11. OrderedBelow(g, q, Early(ms))
    BY <2>5, <2>9, <2>10 DEF OrderedBelow
  <2>12. q <= n - k
    BY <1>1, <2>1, <2>2
  <2> QED  BY <2>2, <2>3, <2>4, <2>5, <2>11, <2>12 DEF RiseTurns
<1> QED  BY <1>2, <1>3

\* BottomUp puts the last event in its place.
LEMMA BottomUpOrders ==
  ASSUME NEW n \in Nat \ {0}, NEW M, NEW ms \in SUBSET Heap!Event,
         NEW h, Holds(h, n, M), OrderedBelow(h, n, Early(ms))
  PROVE  Holds(Heap!BottomUp(h), n, M) /\ Ordered(Heap!BottomUp(h), Early(ms))
<1> DEFINE U == [heap : Seq(Heap!Event), index : 1..n]
           T == [k \in 0..n |-> RiseTurns(n, M, ms, k)]
           a == [heap |-> h, index |-> n]
           turnOf == {ks \in (1..n) \X U : ks[2] \in RiseTurns(n, M, ms, ks[1] - 1)}
           step == [ks \in (1..n) \X U |->
                      IF ks \in turnOf THEN Heap!Rise(ks[2]) ELSE a]
<1>1. Len(h) = n /\ h \in Seq(Heap!Event)
  BY DEF Holds
<1>2. T \in [0..n -> SUBSET U]
  BY DEF RiseTurns
<1>3. a \in T[0] /\ a \in U
  BY <1>1 DEF RiseTurns
<1>4. \A k \in 1..n : \A s \in RiseTurns(n, M, ms, k - 1) :
        /\ s \in U /\ Heap!Rise(s) \in RiseTurns(n, M, ms, k) /\ Heap!Rise(s) \in U
  BY RiseTurn DEF RiseTurns
<1>5. step \in [(1..n) \X U -> U]
  BY <1>3, <1>4
<1>6. \A k \in 1..n : \A s \in T[k - 1] :
        step[<<k, s>>] = Heap!Rise(s) /\ step[<<k, s>>] \in T[k]
  <2> TAKE k \in 1..n
  <2>1. T[k - 1] = RiseTurns(n, M, ms, k - 1) /\ T[k] = RiseTurns(n, M, ms, k)
    OBVIOUS
  <2> QED  BY <1>4, <2>1
<1>16. IsLoop(n, U, T, a, step)
  <2> HIDE DEF U, T, a, step
  <2> QED  BY <1>2, <1>3, <1>5, <1>6 DEF IsLoop
<1>17. PICK f : IsRun(f, n, U, T, a, step)
  <2> HIDE DEF U, T, a, step
  <2> QED  BY <1>16, LoopRuns
<1>7. /\ f \in [0..n -> U]
      /\ f[0] = a
      /\ \A k \in 1..n : f[k] = step[<<k, f[k - 1]>>]
      /\ \A k \in 0..n : f[k] \in T[k]
  BY <1>17 DEF IsRun
<1> HIDE DEF T, step
<1> DEFINE turn[k \in 0..Len(h)] ==
             IF k = 0 THEN [heap |-> h, index |-> Len(h)] ELSE Heap!Rise(turn[k - 1])
           P(g) == g = [k \in 0..Len(h) |->
                          IF k = 0 THEN [heap |-> h, index |-> Len(h)]
                                   ELSE Heap!Rise(g[k - 1])]
<1>8. P(f)
  <2>1. \A k \in 0..n : f[k] = IF k = 0 THEN a ELSE Heap!Rise(f[k - 1])
    <3> TAKE k \in 0..n
    <3>1. CASE k # 0
      <4>1. k \in 1..n /\ k - 1 \in 0..n
        BY <3>1
      <4>2. f[k] = step[<<k, f[k - 1]>>] /\ f[k - 1] \in T[k - 1]
        BY <1>7, <4>1
      <4> QED  BY <1>6, <3>1, <4>1, <4>2
    <3> QED  BY <1>7, <3>1
  <2>2. f = [k \in 0..n |-> IF k = 0 THEN a ELSE Heap!Rise(f[k - 1])]
    <3> HIDE DEF a, U
    <3> QED  BY <1>7, <2>1
  <2> QED  BY <1>1, <2>2
<1>9. turn = CHOOSE g : P(g)
  OBVIOUS
<1>10. P(turn)
  <2> HIDE DEF P, turn
  <2> QED  BY <1>8, <1>9
<1>11. Heap!BottomUp(h) = turn[n].heap
  BY <1>1 DEF Heap!BottomUp
<1> HIDE DEF turn
<1>12. \A k \in 0..n : turn[k] \in RiseTurns(n, M, ms, k)
  <2>1. turn[0] \in RiseTurns(n, M, ms, 0)
    BY <1>1, <1>3, <1>10 DEF T
  <2>2. ASSUME NEW k \in 1..n, turn[k - 1] \in RiseTurns(n, M, ms, k - 1)
        PROVE  turn[k] \in RiseTurns(n, M, ms, k)
    <3>1. turn[k] = Heap!Rise(turn[k - 1])
      <4>1. k \in 0..Len(h) /\ k # 0
        BY <1>1
      <4> QED  BY <1>10, <4>1
    <3> QED  BY <2>2, <3>1, RiseTurn
  <2> DEFINE R == [k \in 0..n |-> RiseTurns(n, M, ms, k)]
  <2>3. turn[0] \in R[0] /\ \A k \in 1..n : turn[k - 1] \in R[k - 1] => turn[k] \in R[k]
    <3>1. R[0] = RiseTurns(n, M, ms, 0)
      OBVIOUS
    <3>2. \A k \in 1..n : /\ R[k - 1] = RiseTurns(n, M, ms, k - 1)
                          /\ R[k] = RiseTurns(n, M, ms, k)
      OBVIOUS
    <3> HIDE DEF R
    <3> QED  BY <2>1, <2>2, <3>1, <3>2
  <2>4. \A k \in 0..n : turn[k] \in R[k]
    <3> HIDE DEF R
    <3> QED  BY <2>3, LoopStates
  <2> QED  BY <2>4
<1>13. turn[n] \in RiseTurns(n, M, ms, n)
  BY <1>12
<1> DEFINE e == turn[n]
<1>14. /\ Holds(e.heap, n, M) /\ OrderedBelow(e.heap, e.index, Early(ms))
       /\ Risen(e) /\ e.index \in 1..n
  BY <1>13 DEF RiseTurns
<1> HIDE DEF e
<1>15. Ordered(e.heap, Early(ms))
  BY <1>14 DEF OrderedBelow, Ordered, Risen
<1> QED  BY <1>11, <1>14, <1>15 DEF e

-----------------------------------------------------------------------------
\* TopDown.

LeftOf(s) == 2 * s.index
RightOf(s) == LeftOf(s) + 1
Smallest(s) ==
  IF RightOf(s) > Len(s.heap) \/ Heap!Before(s.heap[LeftOf(s)], s.heap[RightOf(s)])
  THEN LeftOf(s) ELSE RightOf(s)

\* The loop has ended.
Sunk(s) == \/ LeftOf(s) > Len(s.heap)
           \/ Heap!Before(s.heap[s.index], s.heap[Smallest(s)])

\* Turns before the loop ends take the event farther from the root.
SinkTurns(n, M, ms, k) ==
  {s \in [heap : Seq(Heap!Event), index : Nat \ {0}] :
     /\ Holds(s.heap, n, M)
     /\ OrderedAbove(s.heap, s.index, Early(ms))
     /\ Sunk(s) \/ s.index > k}

\* The parent of an index, and which indices have a given parent.
LEMMA Halves ==
  ASSUME NEW i \in Nat, i >= 2
  PROVE  /\ i \div 2 \in Nat \ {0} /\ i \div 2 < i
         /\ i = 2 * (i \div 2) \/ i = 2 * (i \div 2) + 1
OBVIOUS

\* Of the children of a node, Smallest is the one that comes first.
LEMMA SmallestChild ==
  ASSUME NEW n \in Nat, NEW s \in [heap : Seq(Heap!Event), index : Nat \ {0}],
         Len(s.heap) = n, LeftOf(s) <= n
  PROVE  /\ Smallest(s) \in 2..n /\ Smallest(s) \div 2 = s.index
         /\ \A i \in 2..n : i \div 2 = s.index =>
              ~Heap!Before(s.heap[i], s.heap[Smallest(s)])
<1> DEFINE h == s.heap
           p == s.index
           l == LeftOf(s)
           r == RightOf(s)
           c == Smallest(s)
<1>1. p \in Nat \ {0} /\ l = 2 * p /\ r = 2 * p + 1 /\ h \in Seq(Heap!Event) /\ Len(h) = n
  BY DEF LeftOf, RightOf
<1>2. \A i \in 1..n : h[i] \in Heap!Event
  BY <1>1, ElementOfSeq
<1>3. c = IF r > n \/ Heap!Before(h[l], h[r]) THEN l ELSE r
  BY <1>1 DEF Smallest
<1>4. l \in 2..n
  BY <1>1
<1>5. l \div 2 = p /\ r \div 2 = p
  BY <1>1
<1> HIDE DEF h, p, l, r, c
<1>6. c \in 2..n /\ c \div 2 = p
  BY <1>1, <1>3, <1>4, <1>5
<1>7. ASSUME NEW i \in 2..n, i \div 2 = p PROVE ~Heap!Before(h[i], h[c])
  <2>1. i = l \/ i = r
    BY <1>1, <1>7, Halves
  <2>2. h[i] \in Heap!Event /\ h[c] \in Heap!Event
    BY <1>2, <1>6
  <2>3. ~Heap!Before(h[i], h[i])
    BY <2>2, BeforeOrder
  <2>4. CASE i = c
    BY <2>3, <2>4
  <2>5. CASE i = r /\ c = l
    <3>1. Heap!Before(h[c], h[i])
      BY <1>1, <1>3, <2>5
    <3> QED  BY <2>2, <3>1, BeforeOrder
  <2>6. CASE i = l /\ c = r
    <3>1. l # r
      BY <1>1
    <3> QED  BY <1>3, <2>6, <3>1
  <2> QED  BY <1>3, <2>1, <2>4, <2>5, <2>6
<1> QED  BY <1>6, <1>7 DEF h, p, c

LEMMA SinkTurn ==
  ASSUME NEW n \in Nat, NEW M, NEW ms \in SUBSET Heap!Event,
         NEW k \in 1..n, NEW s \in SinkTurns(n, M, ms, k - 1)
  PROVE  Heap!Sink(s) \in SinkTurns(n, M, ms, k)
<1> DEFINE h == s.heap
           p == s.index
           q == Smallest(s)
           g == Heap!Exch(h, p, q)
<1>1. /\ h \in Seq(Heap!Event) /\ p \in Nat \ {0} /\ Len(h) = n
      /\ Holds(h, n, M) /\ OrderedAbove(h, p, Early(ms))
      /\ Sunk(s) \/ p > k - 1
      /\ s \in [heap : Seq(Heap!Event), index : Nat \ {0}]
  BY DEF SinkTurns, Holds
<1>2. Heap!Sink(s) = IF Sunk(s) THEN s ELSE [heap |-> g, index |-> q]
  BY DEF Heap!Sink, Sunk, Smallest, LeftOf, RightOf
<1>3. CASE Sunk(s)
  BY <1>1, <1>2, <1>3 DEF SinkTurns
<1>4. CASE ~Sunk(s)
  <2>1. LeftOf(s) <= n /\ ~Heap!Before(h[p], h[q]) /\ p > k - 1
    BY <1>1, <1>4 DEF Sunk, LeftOf
  <2>2. /\ q \in 2..n /\ q \div 2 = p
        /\ \A i \in 2..n : i \div 2 = p => ~Heap!Before(h[i], h[q])
    BY <1>1, <2>1, SmallestChild
  <2>3. p \in 1..n /\ q \in 1..n /\ p < q
    BY <1>1, <2>2, Halves
  <2>4. Holds(g, n, M)
    BY <1>1, <2>3, ExchHolds
  <2>5. /\ g \in Seq(Heap!Event) /\ Len(g) = n
        /\ \A i \in 1..n :
             g[i] = IF i = q THEN h[p] ELSE IF i = p THEN h[q] ELSE h[i]
    <3>1. h \in Seq(Heap!Event) /\ p \in 1..Len(h) /\ q \in 1..Len(h)
      BY <1>1, <2>3
    <3> HIDE DEF h, p, q
    <3>2. g \in Seq(Heap!Event) /\ Len(g) = Len(h)
      BY <3>1, ExchSeq
    <3>3. \A i \in 1..Len(h) :
            g[i] = IF i = q THEN h[p] ELSE IF i = p THEN h[q] ELSE h[i]
      BY <3>1, ExchAt
    <3> HIDE DEF g
    <3> QED  BY <1>1, <3>2, <3>3
  <2>6. \A i \in 1..n : h[i] \in Heap!Event
    BY <1>1, ElementOfSeq
  <2> HIDE DEF g, h, p, q
  <2>7. \A i \in 2..n : i \div 2 \in 1..n /\ i \div 2 < i /\ i \in 1..n
    OBVIOUS
  <2>8. ASSUME NEW i \in 2..n, i \div 2 # q, g[i] \in Early(ms)
        PROVE  ~Heap!Before(g[i], g[i \div 2])
    <3> DEFINE j == i \div 2
    <3>1. j \in 1..n /\ j < i /\ i \in 1..n
      BY <2>7
    <3>2. j # p /\ h[i] \in Early(ms) => ~Heap!Before(h[i], h[j])
      BY <1>1, <3>1 DEF OrderedAbove
    <3>3. CASE i = q
      <4>1. g[i] = h[p] /\ g[j] = h[q]
        BY <2>2, <2>3, <2>5, <3>1, <3>3
      <4> QED  BY <2>1, <4>1
    <3>4. CASE i # q /\ j = p
      <4>1. g[i] = h[i] /\ g[j] = h[q]
        BY <2>3, <2>5, <3>1, <3>4
      <4> QED  BY <2>2, <3>4, <4>1
    <3>5. CASE i = p
      <4>1. g[i] = h[q] /\ g[j] = h[j]
        BY <2>3, <2>5, <2>8, <3>1, <3>5
      <4>2. ~Heap!Before(h[q], h[p \div 2])
        BY <1>1, <2>2, <2>8, <3>5, <4>1 DEF OrderedAbove
      <4> QED  BY <3>5, <4>1, <4>2
    <3>6. CASE i # p /\ i # q /\ j # p
      <4>1. g[i] = h[i] /\ g[j] = h[j]
        BY <2>5, <2>8, <3>1, <3>6
      <4> QED  BY <2>8, <3>2, <3>6, <4>1
    <3> QED  BY <3>3, <3>4, <3>5, <3>6
  <2>9. ASSUME NEW i \in 2..n, i \div 2 = q, q > 1, g[i] \in Early(ms)
        PROVE  ~Heap!Before(g[i], g[q \div 2])
    <3>1. i \in 1..n /\ i # q /\ i # p /\ q # p
      BY <2>3, <2>7, <2>9
    <3>2. g[i] = h[i] /\ g[q \div 2] = h[q]
      BY <2>2, <2>3, <2>5, <3>1
    <3>3. ~Heap!Before(h[i], h[q])
      BY <1>1, <2>9, <3>1, <3>2 DEF OrderedAbove
    <3> QED  BY <3>2, <3>3
  <2>10. OrderedAbove(g, q, Early(ms))
    BY <2>5, <2>8, <2>9 DEF OrderedAbove
  <2>11. q > k /\ q \in Nat \ {0}
    BY <1>1, <2>1, <2>3
  <2>12. Heap!Sink(s) = [heap |-> g, index |-> q]
    BY <1>2, <1>4
  <2> QED  BY <2>4, <2>5, <2>10, <2>11, <2>12 DEF SinkTurns
<1> QED  BY <1>3, <1>4

\* TopDown puts an event in its place from the top.
LEMMA TopDownOrders ==
  ASSUME NEW n \in Nat, NEW M, NEW ms \in SUBSET Heap!Event,
         NEW h, NEW start \in Nat \ {0},
         Holds(h, n, M), OrderedAbove(h, start, Early(ms))
  PROVE  Holds(Heap!TopDown(h, start), n, M) /\ Ordered(Heap!TopDown(h, start), Early(ms))
<1> DEFINE U == [heap : Seq(Heap!Event), index : Nat \ {0}]
           T == [k \in 0..n |-> SinkTurns(n, M, ms, k)]
           a == [heap |-> h, index |-> start]
           turnOf == {ks \in (1..n) \X U : ks[2] \in SinkTurns(n, M, ms, ks[1] - 1)}
           step == [ks \in (1..n) \X U |->
                      IF ks \in turnOf THEN Heap!Sink(ks[2]) ELSE a]
<1>1. Len(h) = n /\ h \in Seq(Heap!Event)
  BY DEF Holds
<1>2. T \in [0..n -> SUBSET U]
  BY DEF SinkTurns
<1>3. a \in SinkTurns(n, M, ms, 0) /\ a \in U /\ a \in T[0]
  BY <1>1 DEF SinkTurns
<1>4. \A k \in 1..n : \A s \in SinkTurns(n, M, ms, k - 1) :
        /\ s \in U /\ Heap!Sink(s) \in SinkTurns(n, M, ms, k) /\ Heap!Sink(s) \in U
  BY SinkTurn DEF SinkTurns
<1>5. step \in [(1..n) \X U -> U]
  BY <1>3, <1>4
<1>6. \A k \in 1..n : \A s \in T[k - 1] :
        step[<<k, s>>] = Heap!Sink(s) /\ step[<<k, s>>] \in T[k]
  <2> TAKE k \in 1..n
  <2>1. T[k - 1] = SinkTurns(n, M, ms, k - 1) /\ T[k] = SinkTurns(n, M, ms, k)
    OBVIOUS
  <2> QED  BY <1>4, <2>1
<1>7. PICK f : IsRun(f, n, U, T, a, step)
  <2> HIDE DEF U, T, a, step
  <2>1. IsLoop(n, U, T, a, step)
    BY <1>2, <1>3, <1>5, <1>6 DEF IsLoop
  <2> QED  BY <2>1, LoopRuns
<1>8. /\ f \in [0..n -> U]
      /\ f[0] = a
      /\ \A k \in 1..n : f[k] = step[<<k, f[k - 1]>>]
      /\ \A k \in 0..n : f[k] \in T[k]
  BY <1>7 DEF IsRun
<1> HIDE DEF T, step
<1> DEFINE turn[k \in 0..Len(h)] ==
             IF k = 0 THEN [heap |-> h, index |-> start] ELSE Heap!Sink(turn[k - 1])
           P(g) == g = [k \in 0..Len(h) |->
                          IF k = 0 THEN [heap |-> h, index |-> start]
                                   ELSE Heap!Sink(g[k - 1])]
<1>9. P(f)
  <2>1. \A k \in 0..n : f[k] = IF k = 0 THEN a ELSE Heap!Sink(f[k - 1])
    <3> TAKE k \in 0..n
    <3>1. CASE k # 0
      <4>1. k \in 1..n /\ k - 1 \in 0..n
        BY <3>1
      <4>2. f[k] = step[<<k, f[k - 1]>>] /\ f[k - 1] \in T[k - 1]
        BY <1>8, <4>1
      <4> QED  BY <1>6, <3>1, <4>1, <4>2
    <3> QED  BY <1>8, <3>1
  <2>2. f = [k \in 0..n |-> IF k = 0 THEN a ELSE Heap!Sink(f[k - 1])]
    <3> HIDE DEF a, U
    <3> QED  BY <1>8, <2>1
  <2> QED  BY <1>1, <2>2
<1>10. turn = CHOOSE g : P(g)
  OBVIOUS
<1>11. P(turn)
  <2> HIDE DEF P, turn
  <2> QED  BY <1>9, <1>10
<1>12. Heap!TopDown(h, start) = turn[n].heap
  BY <1>1 DEF Heap!TopDown
<1> HIDE DEF turn
<1>13. \A k \in 0..n : turn[k] \in SinkTurns(n, M, ms, k)
  <2>1. turn[0] \in SinkTurns(n, M, ms, 0)
    BY <1>1, <1>3, <1>11
  <2>2. ASSUME NEW k \in 1..n, turn[k - 1] \in SinkTurns(n, M, ms, k - 1)
        PROVE  turn[k] \in SinkTurns(n, M, ms, k)
    <3>1. turn[k] = Heap!Sink(turn[k - 1])
      <4>1. k \in 0..Len(h) /\ k # 0
        BY <1>1
      <4> QED  BY <1>11, <4>1
    <3> QED  BY <2>2, <3>1, SinkTurn
  <2> DEFINE R == [k \in 0..n |-> SinkTurns(n, M, ms, k)]
  <2>3. turn[0] \in R[0] /\ \A k \in 1..n : turn[k - 1] \in R[k - 1] => turn[k] \in R[k]
    <3>1. R[0] = SinkTurns(n, M, ms, 0)
      OBVIOUS
    <3>2. \A k \in 1..n : /\ R[k - 1] = SinkTurns(n, M, ms, k - 1)
                          /\ R[k] = SinkTurns(n, M, ms, k)
      OBVIOUS
    <3> HIDE DEF R
    <3> QED  BY <2>1, <2>2, <3>1, <3>2
  <2>4. \A k \in 0..n : turn[k] \in R[k]
    <3> HIDE DEF R
    <3> QED  BY <2>3, LoopStates
  <2> QED  BY <2>4
<1> DEFINE e == turn[n]
<1>14. /\ e \in [heap : Seq(Heap!Event), index : Nat \ {0}]
       /\ Holds(e.heap, n, M) /\ OrderedAbove(e.heap, e.index, Early(ms))
       /\ Sunk(e) \/ e.index > n
  BY <1>13 DEF SinkTurns
<1> HIDE DEF e
<1>15. Ordered(e.heap, Early(ms))
  <2>1. Len(e.heap) = n /\ e.index \in Nat \ {0}
    BY <1>14 DEF Holds
  <2>2. ASSUME NEW i \in 2..n, i \div 2 = e.index
        PROVE  ~Heap!Before(e.heap[i], e.heap[e.index])
    <3>1. LeftOf(e) <= n
      BY <2>1, <2>2, Halves DEF LeftOf
    <3>2. /\ Smallest(e) \in 2..n
          /\ ~Heap!Before(e.heap[i], e.heap[Smallest(e)])
      BY <1>14, <2>1, <2>2, <3>1, SmallestChild
    <3>3. e.index <= n
      BY <2>1, <2>2, Halves
    <3>4. Heap!Before(e.heap[e.index], e.heap[Smallest(e)])
      BY <1>14, <2>1, <3>1, <3>3 DEF Sunk, LeftOf
    <3>5. /\ e.heap[i] \in Heap!Event /\ e.heap[e.index] \in Heap!Event
          /\ e.heap[Smallest(e)] \in Heap!Event
      <4>1. i \in 1..Len(e.heap) /\ e.index \in 1..Len(e.heap)
            /\ Smallest(e) \in 1..Len(e.heap)
        BY <2>1, <3>2, <3>3
      <4> QED  BY <1>14, <4>1, ElementOfSeq
    <3>6. ~Heap!Before(e.heap[Smallest(e)], e.heap[e.index])
      BY <3>4, <3>5, BeforeOrder
    <3> QED  BY <3>2, <3>5, <3>6, BeforeOrder
  <2> QED  BY <1>14, <2>1, <2>2 DEF OrderedAbove, Ordered
<1> QED  BY <1>12, <1>14, <1>15 DEF e

-----------------------------------------------------------------------------
\* What the operations make of an ordered heap.

\* An event is added.
LEMMA InsertOrders ==
  ASSUME NEW n \in Nat, NEW M, NEW ms \in SUBSET Heap!Event,
         NEW h, Holds(h, n, M), Ordered(h, Early(ms)),
         NEW e \in Heap!Event, \A f \in M : f.uid # e.uid
  PROVE  /\ Holds(Heap!BottomUp(Append(h, e)), n + 1, M \cup {e})
         /\ Ordered(Heap!BottomUp(Append(h, e)), Early(ms))
<1> DEFINE g == Append(h, e)
<1>1. h \in Seq(Heap!Event) /\ Len(h) = n /\ Distinct(h) /\ Members(h) = M
  BY DEF Holds
<1>2. /\ g \in Seq(Heap!Event) /\ Len(g) = n + 1
      /\ \A i \in 1..n : g[i] = h[i]
      /\ g[n + 1] = e
  BY <1>1, AppendProperties
<1> HIDE DEF g
<1>3. \A i \in 1..n : h[i] \in M
  BY <1>1 DEF Members
<1>4. Distinct(g)
  <2> SUFFICES ASSUME NEW i \in 1..(n + 1), NEW j \in 1..(n + 1), g[i].uid = g[j].uid
               PROVE  i = j
    BY <1>2 DEF Distinct
  <2>1. CASE i \in 1..n /\ j \in 1..n
    BY <1>1, <1>2, <2>1 DEF Distinct
  <2>2. CASE i \in 1..n /\ j = n + 1
    BY <1>2, <1>3, <2>2
  <2>3. CASE i = n + 1 /\ j \in 1..n
    BY <1>2, <1>3, <2>3
  <2> QED  BY <2>1, <2>2, <2>3
<1>5. Members(g) = M \cup {e}
  <2>1. ASSUME NEW i \in 1..(n + 1) PROVE g[i] \in M \cup {e}
    <3>1. CASE i = n + 1
      BY <1>2, <3>1
    <3>2. CASE i \in 1..n
      BY <1>2, <1>3, <3>2
    <3> QED  BY <3>1, <3>2
  <2>2. ASSUME NEW f \in M PROVE f \in Members(g)
    <3>1. PICK i \in 1..n : f = h[i]
      BY <1>1 DEF Members
    <3>2. i \in 1..(n + 1) /\ g[i] = f
      BY <1>2, <3>1
    <3> QED  BY <1>2, <3>2 DEF Members
  <2>3. e \in Members(g)
    <3>1. n + 1 \in 1..(n + 1)
      OBVIOUS
    <3> QED  BY <1>2, <3>1 DEF Members
  <2>4. Members(g) \subseteq M \cup {e}
    BY <1>2, <2>1 DEF Members
  <2> QED  BY <2>2, <2>3, <2>4
<1>6. Holds(g, n + 1, M \cup {e})
  BY <1>2, <1>4, <1>5 DEF Holds
<1>7. OrderedBelow(g, n + 1, Early(ms))
  <2>1. ASSUME NEW i \in 2..(n + 1), i # n + 1, g[i] \in Early(ms)
        PROVE  ~Heap!Before(g[i], g[i \div 2])
    <3>1. i \in 2..n /\ i \in 1..n /\ i \div 2 \in 1..n
      BY <2>1
    <3>2. g[i] = h[i] /\ g[i \div 2] = h[i \div 2]
      BY <1>2, <3>1
    <3> QED  BY <1>1, <2>1, <3>1, <3>2 DEF Ordered
  <2>2. ASSUME NEW i \in 2..(n + 1) PROVE i \div 2 # n + 1
    BY Halves
  <2> QED  BY <1>2, <2>1, <2>2 DEF OrderedBelow
<1>8. n + 1 \in Nat \ {0}
  OBVIOUS
<1> QED  BY <1>6, <1>7, <1>8, BottomUpOrders DEF g

\* An event is taken out: the last one fills the hole, which is in order if it
\* is not early or does not come before the parent of the hole.
LEMMA TakeOutOrders ==
  ASSUME NEW n \in Nat, NEW M, NEW ms \in SUBSET Heap!Event,
         NEW h, Holds(h, n, M), Ordered(h, Early(ms)),
         NEW hole \in 1..n,
         hole > 1 /\ h[n] \in Early(ms) => ~Heap!Before(h[n], h[hole \div 2])
  PROVE  /\ Holds(Heap!TakeOut(h, hole), n - 1, M \ {h[hole]})
         /\ Ordered(Heap!TakeOut(h, hole), Early(ms))
<1> DEFINE x == Heap!Exch(h, hole, n)
           g == SubSeq(x, 1, n - 1)
<1>1. h \in Seq(Heap!Event) /\ Len(h) = n /\ Distinct(h) /\ Members(h) = M
  BY DEF Holds
<1>2. n \in 1..Len(h) /\ hole \in 1..Len(h) /\ n - 1 \in Nat
  BY <1>1
<1>3. x \in Seq(Heap!Event) /\ Len(x) = n
  BY <1>1, <1>2, ExchSeq
<1>4. \A i \in 1..n :
        x[i] = IF i = n THEN h[hole] ELSE IF i = hole THEN h[n] ELSE h[i]
  BY <1>1, <1>2, ExchAt
<1> HIDE DEF x
<1>5. /\ g \in Seq(Heap!Event) /\ Len(g) = n - 1
      /\ \A i \in 1..(n - 1) : g[i] = IF i = hole THEN h[n] ELSE h[i]
  <2>1. \A i \in 1..(n - 1) : x[i] \in Heap!Event
    BY <1>2, <1>3, ElementOfSeq
  <2>2. /\ g \in Seq(Heap!Event)
        /\ Len(g) = IF 1 <= n - 1 THEN (n - 1) - 1 + 1 ELSE 0
        /\ \A i \in 1..((n - 1) - 1 + 1) : g[i] = x[1 + i - 1]
    BY <1>2, <2>1, SubSeqProperties
  <2>3. \A i \in 1..(n - 1) : i \in 1..n /\ i # n /\ 1 + i - 1 = i /\ g[i] = x[i]
    BY <1>2, <2>2
  <2> QED  BY <1>2, <1>4, <2>2, <2>3
<1> HIDE DEF g
<1> DEFINE From(i) == IF i = hole THEN n ELSE i
<1>6. \A i \in 1..(n - 1) : /\ From(i) \in 1..n /\ From(i) # hole
                            /\ g[i] = h[From(i)]
                            /\ \A j \in 1..(n - 1) : From(i) = From(j) => i = j
  BY <1>5
<1> HIDE DEF From
<1>7. Distinct(g)
  BY <1>1, <1>5, <1>6 DEF Distinct
<1>8. Members(g) = M \ {h[hole]}
  <2>1. ASSUME NEW i \in 1..(n - 1) PROVE g[i] \in M \ {h[hole]}
    BY <1>1, <1>6 DEF Members, Distinct
  <2>2. ASSUME NEW f \in M, f # h[hole] PROVE f \in Members(g)
    <3>1. PICK i \in 1..n : f = h[i]
      BY <1>1 DEF Members
    <3>2. i # hole
      BY <2>2, <3>1
    <3>3. CASE i = n
      <4>1. hole \in 1..(n - 1) /\ g[hole] = f
        BY <1>5, <3>1, <3>2, <3>3
      <4> QED  BY <1>5, <4>1 DEF Members
    <3>4. CASE i # n
      <4>1. i \in 1..(n - 1) /\ g[i] = f
        BY <1>5, <3>1, <3>2, <3>4
      <4> QED  BY <1>5, <4>1 DEF Members
    <3> QED  BY <3>3, <3>4
  <2>3. Members(g) \subseteq M \ {h[hole]}
    BY <1>5, <2>1 DEF Members
  <2> QED  BY <2>2, <2>3
<1>9. Holds(g, n - 1, M \ {h[hole]})
  BY <1>5, <1>7, <1>8 DEF Holds
<1>10. \A i \in 1..n : h[i] \in Heap!Event
  BY <1>1, ElementOfSeq
<1>11. OrderedAbove(g, hole, Early(ms))
  <2>1. ASSUME NEW i \in 2..(n - 1), i \div 2 # hole, g[i] \in Early(ms)
        PROVE  ~Heap!Before(g[i], g[i \div 2])
    <3>1. i \in 2..n /\ i \in 1..(n - 1) /\ i \div 2 \in 1..(n - 1)
      OBVIOUS
    <3>2. g[i \div 2] = h[i \div 2]
      BY <1>5, <2>1, <3>1
    <3>3. CASE i = hole
      <4>1. g[i] = h[n] /\ hole > 1
        BY <1>5, <3>1, <3>3
      <4> QED  BY <2>1, <3>2, <3>3, <4>1
    <3>4. CASE i # hole
      <4>1. g[i] = h[i]
        BY <1>5, <3>1, <3>4
      <4> QED  BY <1>1, <2>1, <3>1, <3>2, <4>1 DEF Ordered
    <3> QED  BY <3>3, <3>4
  <2>2. ASSUME NEW i \in 2..(n - 1), i \div 2 = hole, hole > 1, g[i] \in Early(ms)
        PROVE  ~Heap!Before(g[i], g[hole \div 2])
    <3> DEFINE r == hole \div 2
    <3>1. i \in 2..n /\ i \in 1..(n - 1) /\ hole < i /\ hole \in 2..n
      BY <2>2, Halves
    <3>2. r \in 1..(n - 1) /\ r # hole /\ r \in 1..n
      BY <3>1
    <3>3. g[i] = h[i] /\ g[r] = h[r]
      BY <1>5, <3>1, <3>2
    <3>4. ~Heap!Before(h[i], h[hole])
      BY <1>1, <2>2, <3>1, <3>3 DEF Ordered
    <3>5. h[i] \in Heap!Event /\ h[hole] \in Heap!Event /\ h[r] \in Heap!Event
      BY <1>10, <3>1, <3>2
    <3>6. h[hole] \in Early(ms)
      BY <2>2, <3>3, <3>4, <3>5, EarlyBelow
    <3>7. ~Heap!Before(h[hole], h[r])
      BY <1>1, <3>1, <3>6 DEF Ordered
    <3> QED  BY <3>3, <3>4, <3>5, <3>7, BeforeOrder
  <2> QED  BY <1>5, <2>1, <2>2 DEF OrderedAbove
<1>12. Heap!TakeOut(h, hole) = Heap!TopDown(g, hole)
  BY <1>1 DEF Heap!TakeOut, g, x
<1>13. hole \in Nat \ {0}
  OBVIOUS
<1> QED  BY <1>2, <1>9, <1>11, <1>12, <1>13, TopDownOrders

\* No early event comes before the one at the root.
LEMMA RootFirst ==
  ASSUME NEW n \in Nat, NEW M, NEW ms \in SUBSET Heap!Event,
         NEW h, Holds(h, n, M), Ordered(h, Early(ms)), n > 0
  PROVE  h[1] \in M /\ \A f \in M \ {h[1]} : f \in Early(ms) => Heap!Before(h[1], f)
<1>1. h \in Seq(Heap!Event) /\ Len(h) = n /\ Distinct(h) /\ Members(h) = M
  BY DEF Holds
<1>2. \A i \in 1..n : h[i] \in Heap!Event
  BY <1>1, ElementOfSeq
<1> DEFINE S == {k \in Nat : \A i \in 1..n :
                    i <= k /\ h[i] \in Early(ms) => ~Heap!Before(h[i], h[1])}
<1>3. 0 \in S
  OBVIOUS
<1>4. ASSUME NEW k \in S PROVE k + 1 \in S
  <2>1. k \in Nat
    OBVIOUS
  <2>2. SUFFICES ASSUME NEW i \in 1..n, i <= k + 1, h[i] \in Early(ms)
                 PROVE  ~Heap!Before(h[i], h[1])
    BY <2>1
  <2>3. CASE i = 1
    BY <1>2, <2>3, BeforeOrder
  <2>4. CASE i # 1
    <3>1. i \in 2..n /\ i \div 2 \in 1..n /\ i \div 2 <= k
      BY <2>1, <2>2, <2>4
    <3>3. ~Heap!Before(h[i], h[i \div 2])
      BY <1>1, <2>2, <3>1 DEF Ordered
    <3>5. h[i \div 2] \in Early(ms)
      BY <1>2, <2>2, <3>1, <3>3, EarlyBelow
    <3>2. ~Heap!Before(h[i \div 2], h[1])
      BY <3>1, <3>5
    <3>4. 1 \in 1..n
      OBVIOUS
    <3> QED  BY <1>2, <3>1, <3>2, <3>3, <3>4, BeforeOrder
  <2> QED  BY <2>3, <2>4
<1>5. S = Nat
  <2> HIDE DEF S
  <2>1. S \subseteq Nat
    BY DEF S
  <2> QED  BY <1>3, <1>4, <2>1, NatSetInduction
<1>6. \A i \in 1..n : h[i] \in Early(ms) => ~Heap!Before(h[i], h[1])
  BY <1>5
<1>7. 1 \in 1..n
  OBVIOUS
<1>8. ASSUME NEW f \in M \ {h[1]}, f \in Early(ms) PROVE Heap!Before(h[1], f)
  <2>1. PICK i \in 1..n : f = h[i]
    BY <1>1 DEF Members
  <2>2. i # 1
    BY <2>1
  <2>3. h[i].uid # h[1].uid
    BY <1>1, <1>7, <2>2 DEF Distinct
  <2>4. ~Heap!Before(h[i], h[1]) /\ h[i] \in Heap!Event /\ h[1] \in Heap!Event
    BY <1>2, <1>6, <1>7, <1>8, <2>1
  <2> QED  BY <2>1, <2>3, <2>4 DEF Heap!Before, Heap!Event
<1>9. h[1] \in M
  BY <1>1, <1>7 DEF Members
<1> QED  BY <1>8, <1>9

-----------------------------------------------------------------------------
(***************************************************************************)
(* The heap of the simulator.  Beyond its order, the invariant says that   *)
(* no two events have the same uid and that the next one is not in use.    *)
(***************************************************************************)
HeapInv ==
  /\ heapNow \in Nat /\ heapNext \in Heap!Event
  /\ misplaced \in SUBSET Heap!Event
  /\ Holds(heap, Len(heap), Members(heap))
  /\ Ordered(heap, Early(misplaced))
  /\ \A e \in Members(heap) : e.uid < uid

LEMMA HeapInvIsInOrder ==
  ASSUME HeapInv, uid \in Nat
  PROVE  HeapInOrder /\ Heap!Queue = Members(heap)
<1>1. Heap!TypeOK
  BY DEF HeapInv, Heap!TypeOK, Holds, Distinct
<1>2. Heap!HeapOrder
  <2>1. heap \in Seq(Heap!Event) /\ Len(heap) \in Nat
    BY DEF HeapInv, Holds
  <2>2. ASSUME NEW i \in 2..Len(heap), Heap!BeforeMisplaced(heap[i])
        PROVE  heap[i] \in Early(misplaced)
    <3>1. heap[i] \in Heap!Event
      BY <2>1, ElementOfSeq
    <3> QED  BY <2>2, <3>1 DEF Early, Heap!BeforeMisplaced
  <2> QED  BY <2>2 DEF HeapInv, Ordered, Heap!HeapOrder
<1>3. Heap!Queue = Members(heap)
  BY DEF Heap!Queue, Members
<1> QED  BY <1>1, <1>2, <1>3 DEF HeapInOrder

\* What an operation leaves misplaced: the heap is ordered with regard to the
\* events before those, if it was with regard to fewer.
LEMMA Misplacing ==
  ASSUME misplaced \in SUBSET Heap!Event, NEW new \in SUBSET Heap!Event,
         Heap!Misplace(new), Ordered(heap', Early(misplaced \cup new))
  PROVE  misplaced' \in SUBSET Heap!Event /\ Ordered(heap', Early(misplaced'))
<1>1. CASE Heap!InOrder(heap')
  BY <1>1 DEF Heap!Misplace, Heap!InOrder, Ordered
<1>2. CASE ~Heap!InOrder(heap')
  BY <1>2 DEF Heap!Misplace
<1> QED  BY <1>1, <1>2

LEMMA HeapInit ==
  Heap!Init => HeapInv /\ uid \in Nat /\ Heap!List!Init
<1> SUFFICES ASSUME Heap!Init PROVE HeapInv /\ uid \in Nat /\ Heap!List!Init
  OBVIOUS
<1>1. /\ heap = <<>> /\ misplaced = {} /\ uid = 4 /\ heapNow = 0
      /\ heapNext = [ts |-> 0, uid |-> 0]
  BY DEF Heap!Init, Heap!FirstUid, Heap!Nothing
<1>2. heap \in Seq(Heap!Event) /\ Len(heap) = 0
  BY <1>1
<1>3. Members(heap) = {}
  BY <1>2 DEF Members
<1>4. Holds(heap, Len(heap), Members(heap)) /\ Ordered(heap, Early(misplaced))
  BY <1>2 DEF Holds, Distinct, Ordered
<1>5. heapNext \in Heap!Event
  BY <1>1 DEF Heap!Event
<1>6. Heap!Queue = {}
  BY <1>3 DEF Heap!Queue, Members
<1>7. Heap!List!Init
  BY <1>1, <1>6 DEF Heap!List!Init, Heap!List!Nothing
<1> QED  BY <1>1, <1>3, <1>4, <1>5, <1>7 DEF HeapInv

LEMMA HeapInsert ==
  ASSUME HeapInv, uid \in Nat, NEW d \in Delay, Heap!Insert(d)
  PROVE  HeapInv' /\ uid' \in Nat /\ Heap!List!Insert
<1> DEFINE e == [ts |-> heapNow + d, uid |-> uid]
           n == Len(heap)
           M == Members(heap)
<1>1. /\ heap' = Heap!BottomUp(Append(heap, e)) /\ uid' = uid + 1
      /\ heapNow' = heapNow /\ heapNext' = heapNext
      /\ Heap!Misplace({})
  BY DEF Heap!Insert
<1>2. d \in Nat /\ e \in Heap!Event
  BY DelayAssumption DEF HeapInv, Heap!Event
<1>3. /\ heap \in Seq(Heap!Event) /\ n \in Nat /\ Holds(heap, n, M)
      /\ Ordered(heap, Early(misplaced)) /\ misplaced \in SUBSET Heap!Event
  BY DEF HeapInv, Holds
<1>4. \A f \in M : f.uid < uid
  BY DEF HeapInv
<1>5. \A f \in M : f \in Heap!Event
  BY <1>3, ElementOfSeq DEF Members
<1>6. \A f \in M : f.uid # e.uid
  BY <1>4, <1>5 DEF Heap!Event
<1>7. e \notin M
  BY <1>6
<1>8. e.uid = uid /\ e.ts >= heapNow
  BY <1>2 DEF HeapInv
<1> HIDE DEF e, n, M
<1>9. Holds(heap', n + 1, M \cup {e}) /\ Ordered(heap', Early(misplaced))
  BY <1>1, <1>2, <1>3, <1>6, InsertOrders
<1>10. Members(heap') = M \cup {e} /\ Len(heap') = n + 1
  BY <1>9 DEF Holds
<1>11. \A f \in M \cup {e} : f.uid < uid'
  BY <1>1, <1>4, <1>5, <1>8 DEF Heap!Event
<1>15. misplaced' \in SUBSET Heap!Event /\ Ordered(heap', Early(misplaced'))
  <2>1. misplaced \cup {} = misplaced /\ {} \in SUBSET Heap!Event
    OBVIOUS
  <2> QED  BY <1>1, <1>3, <1>9, <2>1, Misplacing
<1>12. HeapInv'
  BY <1>1, <1>9, <1>10, <1>11, <1>15 DEF HeapInv
<1>13. Heap!Queue = M /\ Heap!Queue' = M \cup {e}
  BY <1>10 DEF Heap!Queue, Members, M
<1>14. Heap!List!Insert
  BY <1>1, <1>7, <1>8, <1>13 DEF Heap!List!Insert
<1> QED  BY <1>1, <1>12, <1>14

LEMMA HeapRemoveNext ==
  ASSUME HeapInv, uid \in Nat, Heap!RemoveNext
  PROVE  /\ HeapInv' /\ uid' \in Nat
         /\ Heap!RemovesNext
         /\ misplaced = {} => Heap!List!RemoveNext
<1> DEFINE n == Len(heap)
           M == Members(heap)
           e == heap[1]
<1>1. /\ heap # <<>> /\ heapNext' = e /\ heapNow' = e.ts
      /\ heap' = Heap!TakeOut(heap, 1) /\ uid' = uid
      /\ Heap!Misplace({})
  BY DEF Heap!RemoveNext
<1>2. /\ heap \in Seq(Heap!Event) /\ n \in Nat /\ Holds(heap, n, M)
      /\ Ordered(heap, Early(misplaced)) /\ misplaced \in SUBSET Heap!Event
  BY DEF HeapInv, Holds
<1>3. n > 0 /\ 1 \in 1..n
  BY <1>1, <1>2
<1>4. e \in Heap!Event
  BY <1>2, <1>3, ElementOfSeq
<1>5. \A f \in M : f.uid < uid /\ f \in Heap!Event
  BY <1>2, ElementOfSeq DEF HeapInv, Members
<1>6. e \in M /\ \A f \in M \ {e} : f \in Early(misplaced) => Heap!Before(e, f)
  BY <1>2, <1>3, RootFirst
<1>7. Holds(heap', n - 1, M \ {e}) /\ Ordered(heap', Early(misplaced))
  <2>1. 1 > 1 /\ heap[n] \in Early(misplaced) =>
          ~Heap!Before(heap[n], heap[1 \div 2])
    OBVIOUS
  <2> HIDE DEF n, M
  <2>2. /\ Holds(Heap!TakeOut(heap, 1), n - 1, M \ {heap[1]})
        /\ Ordered(Heap!TakeOut(heap, 1), Early(misplaced))
    BY <1>2, <1>3, <2>1, TakeOutOrders
  <2> QED  BY <1>1, <2>2
<1>8. Members(heap') = M \ {e} /\ Len(heap') = n - 1
  BY <1>7 DEF Holds
<1>9. Heap!Queue = M /\ Heap!Queue' = M \ {e}
  BY <1>8 DEF Heap!Queue, Members
<1> HIDE DEF e, n, M
<1>13. misplaced' \in SUBSET Heap!Event /\ Ordered(heap', Early(misplaced'))
  <2>1. misplaced \cup {} = misplaced /\ {} \in SUBSET Heap!Event
    OBVIOUS
  <2> QED  BY <1>1, <1>2, <1>7, <2>1, Misplacing
<1>10. HeapInv'
  BY <1>1, <1>4, <1>5, <1>7, <1>8, <1>13 DEF HeapInv, Heap!Event
<1>11. Heap!RemovesNext
  <2>1. ASSUME NEW f \in M \ {e}, Heap!BeforeMisplaced(f) PROVE Heap!Before(e, f)
    <3>1. f \in Early(misplaced)
      BY <1>5, <2>1 DEF Early, Heap!BeforeMisplaced
    <3> QED  BY <1>6, <3>1
  <2> QED  BY <1>1, <1>6, <1>9, <2>1 DEF Heap!RemovesNext
<1>12. ASSUME misplaced = {} PROVE Heap!List!RemoveNext
  <2>1. \A f \in M \ {e} : Heap!Before(e, f)
    BY <1>5, <1>6, <1>12, AllEarly
  <2>2. Heap!List!IsFirst(e, M)
    BY <1>6, <2>1 DEF Heap!List!IsFirst, Heap!List!Before, Heap!Before
  <2> QED  BY <1>1, <1>6, <1>9, <2>2 DEF Heap!List!RemoveNext
<1> QED  BY <1>1, <1>10, <1>11, <1>12

LEMMA HeapRemove ==
  ASSUME HeapInv, uid \in Nat, NEW u, Heap!Remove(u)
  PROVE  HeapInv' /\ uid' \in Nat /\ Heap!List!Remove
<1> DEFINE n == Len(heap)
           M == Members(heap)
           New(i) == IF Heap!FilledOutOfOrder(i) THEN {heap[n]} ELSE {}
<1>1. PICK i \in 1..n : /\ heap[i].uid = u
                        /\ heap' = Heap!TakeOut(heap, i)
                        /\ Heap!Misplace(New(i))
  BY DEF Heap!Remove
<1> DEFINE ms == misplaced \cup New(i)
<1>2. uid' = uid /\ heapNow' = heapNow /\ heapNext' = heapNext
  BY DEF Heap!Remove
<1>3. /\ heap \in Seq(Heap!Event) /\ n \in Nat /\ Holds(heap, n, M)
      /\ Ordered(heap, Early(misplaced)) /\ misplaced \in SUBSET Heap!Event
  BY DEF HeapInv, Holds
<1>10. n \in 1..n /\ heap[n] \in Heap!Event
  BY <1>3, ElementOfSeq
<1>11. New(i) \in SUBSET Heap!Event /\ ms \in SUBSET Heap!Event
  BY <1>3, <1>10
<1>12. Ordered(heap, Early(ms))
  BY <1>3 DEF Ordered, Early
<1>4. i > 1 /\ heap[n] \in Early(ms) => ~Heap!Before(heap[n], heap[i \div 2])
  <2> SUFFICES ASSUME i > 1, heap[n] \in Early(ms)
               PROVE  ~Heap!Before(heap[n], heap[i \div 2])
    OBVIOUS
  <2>1. heap[n] \notin New(i)
    <3>1. ASSUME heap[n] \in ms PROVE FALSE
      <4>1. Heap!Before(heap[n], heap[n])
        BY <3>1 DEF Early
      <4> QED  BY <1>10, <4>1, BeforeOrder
    <3> QED  BY <3>1
  <2>2. ~Heap!FilledOutOfOrder(i)
    BY <2>1
  <2>3. CASE i < n
    BY <2>2, <2>3 DEF Heap!FilledOutOfOrder
  <2>4. CASE i = n
    <3>1. n \in 2..Len(heap)
      BY <1>3, <2>4
    <3> QED  BY <1>12, <2>4, <3>1 DEF Ordered
  <2> QED  BY <1>3, <2>3, <2>4
<1> HIDE DEF New
<1>5. Holds(heap', n - 1, M \ {heap[i]}) /\ Ordered(heap', Early(ms))
  <2> HIDE DEF ms, n, M
  <2> QED  BY <1>1, <1>3, <1>4, <1>11, <1>12, TakeOutOrders
<1>6. Members(heap') = M \ {heap[i]} /\ Len(heap') = n - 1 /\ heap[i] \in M
  BY <1>5 DEF Holds, Members
<1>7. Heap!Queue = M /\ Heap!Queue' = M \ {heap[i]}
  BY <1>6 DEF Heap!Queue, Members
<1>13. misplaced' \in SUBSET Heap!Event /\ Ordered(heap', Early(misplaced'))
  BY <1>1, <1>3, <1>5, <1>11, Misplacing
<1> HIDE DEF n, M
<1>8. HeapInv'
  BY <1>2, <1>5, <1>6, <1>13 DEF HeapInv, M
<1>9. Heap!List!Remove
  BY <1>2, <1>6, <1>7 DEF Heap!List!Remove
<1> QED  BY <1>2, <1>8, <1>9

\* Steps of the heap in which it does nothing.
HeapIdle == /\ UNCHANGED <<heap, misplaced, heapNow, heapNext>>
            /\ uid' = uid

LEMMA HeapStutters ==
  ASSUME HeapInv, HeapIdle
  PROVE  HeapInv' /\ Heap!Queue' = Heap!Queue
BY DEF HeapIdle, HeapInv, Holds, Ordered, Members, Distinct, Heap!Queue

\* What a step is to the heap.
LEMMA HeapSteps ==
  [Next]_vars => \/ \E d \in Delay : Heap!Insert(d)
                 \/ Heap!RemoveNext
                 \/ \E u : Heap!Remove(u)
                 \/ HeapIdle
<1> SUFFICES ASSUME [Next]_vars
             PROVE  \/ \E d \in Delay : Heap!Insert(d)
                    \/ Heap!RemoveNext
                    \/ \E u : Heap!Remove(u)
                    \/ HeapIdle
  OBVIOUS
<1>1. CASE Insert
  BY <1>1 DEF Insert
<1>2. CASE RemoveNext
  BY <1>2 DEF RemoveNext, HeapEnded, HeapIdle
<1>3. CASE Remove
  BY <1>3 DEF Remove, HeapExpired, HeapIdle
<1>4. CASE UNCHANGED vars
  BY <1>4 DEF vars, HeapIdle
<1> QED  BY <1>1, <1>2, <1>3, <1>4 DEF Next

\* Whatever is inserted and removed, from the top or from anywhere else, the
\* heap stays in order with regard to the events that come before those that
\* Remove has put below later ones; all of it, while there are none.  (Remove
\* fills its hole from the end of the heap and lets the event sink only:
\* heap-scheduler.cc, lines 227 to 244.)
THEOREM HeapStaysInOrder == Spec => []HeapInOrder
<1> DEFINE I == HeapInv /\ uid \in Nat
<1>1. Init => I
  BY HeapInit DEF Init
<1>2. I /\ [Next]_vars => I'
  <2> SUFFICES ASSUME I, [Next]_vars PROVE I'
    OBVIOUS
  <2>1. CASE \E d \in Delay : Heap!Insert(d)
    BY <2>1, HeapInsert
  <2>2. CASE Heap!RemoveNext
    BY <2>2, HeapRemoveNext
  <2>3. CASE \E u : Heap!Remove(u)
    BY <2>3, HeapRemove
  <2>4. CASE HeapIdle
    BY <2>4, HeapStutters DEF HeapIdle
  <2> QED  BY <2>1, <2>2, <2>3, <2>4, HeapSteps
<1>3. I => HeapInOrder
  BY HeapInvIsInOrder
<1> QED  BY <1>1, <1>2, <1>3, PTL DEF Spec

-----------------------------------------------------------------------------
(***************************************************************************)
(* Days.  The day of an event is the quotient of its time stamp by the     *)
(* width of a day; its bucket is the remainder of the day by the number of *)
(* buckets.                                                                *)
(***************************************************************************)

\* What a quotient and a remainder are.
LEMMA Division ==
  ASSUME NEW p \in Nat, NEW q \in Nat \ {0}
  PROVE  /\ p \div q \in Nat /\ p % q \in 0..q - 1
         /\ p = q * (p \div q) + (p % q)
<1>1. p % q \in 0..q - 1 /\ p \div q \in Nat
  OBVIOUS
<1>2. p % q = p - q * (p \div q)
  OBVIOUS
<1> DEFINE k == p \div q
           r == p % q
<1>3. r \in 0..q - 1 /\ k \in Nat /\ r = p - q * k
  BY <1>1, <1>2
<1> HIDE DEF k, r
<1>4. q * k \in Int
  BY <1>3
<1>5. p = q * k + r
  BY <1>3, <1>4
<1> QED  BY <1>3, <1>5 DEF k, r

\* They are the only ones.
LEMMA DivisionUnique ==
  ASSUME NEW p \in Nat, NEW q \in Nat \ {0}, NEW k \in Nat, NEW r \in 0..q - 1,
         p = q * k + r
  PROVE  p \div q = k /\ p % q = r
<1> DEFINE m == p \div q
           t == p % q
<1>1. m \in Nat /\ t \in 0..q - 1 /\ p = q * m + t
  BY Division
<1> HIDE DEF m, t
<1>2. ~(m < k)
  <2> SUFFICES ASSUME m < k PROVE FALSE
    OBVIOUS
  <2>1. m + 1 <= k
    BY <1>1
  <2>2. q * (m + 1) <= q * k
    BY <1>1, <2>1
  <2>3. q * (m + 1) = q * m + q
    BY <1>1
  <2> QED  BY <1>1, <2>2, <2>3
<1>3. ~(k < m)
  <2> SUFFICES ASSUME k < m PROVE FALSE
    OBVIOUS
  <2>1. k + 1 <= m
    BY <1>1
  <2>2. q * (k + 1) <= q * m
    BY <1>1, <2>1
  <2>3. q * (k + 1) = q * k + q
    BY <1>1
  <2> QED  BY <1>1, <2>2, <2>3
<1>4. m = k
  BY <1>1, <1>2, <1>3
<1>5. t = r
  BY <1>1, <1>4
<1> QED  BY <1>4, <1>5 DEF m, t

\* The remainder of a sum does not change when a summand is reduced first.
LEMMA ReducedSum ==
  ASSUME NEW l \in Nat, NEW i \in Nat, NEW n \in Nat \ {0}
  PROVE  ((l % n) + i) % n = (l + i) % n
<1> DEFINE k == l \div n
           r == l % n
<1>1. k \in Nat /\ r \in 0..n - 1 /\ l = n * k + r
  BY Division
<1> HIDE DEF k, r
<1>2. r + i \in Nat
  BY <1>1
<1> DEFINE kk == (r + i) \div n
           rr == (r + i) % n
<1>3. kk \in Nat /\ rr \in 0..n - 1 /\ r + i = n * kk + rr
  BY <1>2, Division
<1> HIDE DEF kk, rr
<1>4. n * (k + kk) = n * k + n * kk
  BY <1>1, <1>3
<1>5. l + i = n * (k + kk) + rr /\ k + kk \in Nat /\ l + i \in Nat
  BY <1>1, <1>3, <1>4
<1>6. (l + i) % n = rr
  BY <1>3, <1>5, DivisionUnique
<1> QED  BY <1>6 DEF rr, r

\* Two days less than a year apart are in the same bucket only if they are
\* one.
LEMMA SameBucketSameDay ==
  ASSUME NEW a \in Nat, NEW b \in Nat, NEW n \in Nat \ {0},
         a % n = b % n, a <= b, b < a + n
  PROVE  a = b
<1> DEFINE k == a \div n
           m == b \div n
           r == a % n
<1>1. k \in Nat /\ m \in Nat /\ r \in 0..n - 1 /\ a = n * k + r /\ b = n * m + r
  BY Division
<1> HIDE DEF k, m, r
<1>2. ~(m >= k + 1)
  <2> SUFFICES ASSUME m >= k + 1 PROVE FALSE
    OBVIOUS
  <2>1. n * (k + 1) <= n * m /\ n * (k + 1) = n * k + n
    BY <1>1
  <2> QED  BY <1>1, <2>1
<1>3. ~(k >= m + 1)
  <2> SUFFICES ASSUME k >= m + 1 PROVE FALSE
    OBVIOUS
  <2>1. n * (m + 1) <= n * k /\ n * (m + 1) = n * m + n
    BY <1>1
  <2> QED  BY <1>1, <2>1
<1>4. k = m
  BY <1>1, <1>2, <1>3
<1> QED  BY <1>1, <1>4

\* A time stamp lies before the end of a day if its day is not a later one.
LEMMA EndOfDayBound ==
  ASSUME NEW t \in Nat, NEW w \in Nat \ {0}, NEW k \in Nat
  PROVE  t < (k + 1) * w <=> t \div w <= k
<1> DEFINE m == t \div w
           r == t % w
<1>1. m \in Nat /\ r \in 0..w - 1 /\ t = w * m + r
  BY Division
<1> HIDE DEF m, r
<1>2. (k + 1) * w = w * k + w
  OBVIOUS
<1>3. ASSUME m <= k PROVE t < (k + 1) * w
  <2>1. w * m <= w * k
    BY <1>1, <1>3
  <2> QED  BY <1>1, <1>2, <2>1
<1>4. ASSUME k < m PROVE ~(t < (k + 1) * w)
  <2>1. w * (k + 1) <= w * m /\ w * (k + 1) = w * k + w
    BY <1>1, <1>4
  <2> QED  BY <1>1, <1>2, <2>1
<1>5. m <= k \/ k < m
  BY <1>1
<1> QED  BY <1>1, <1>3, <1>4, <1>5 DEF m

\* Later days are later.
LEMMA LaterDay ==
  ASSUME NEW t \in Nat, NEW u \in Nat, NEW w \in Nat \ {0}
  PROVE  t <= u => t \div w <= u \div w
<1> DEFINE k == u \div w
<1>1. k \in Nat
  BY Division
<1> HIDE DEF k
<1>2. u < (k + 1) * w
  BY <1>1, EndOfDayBound DEF k
<1>3. t <= u => t < (k + 1) * w
  BY <1>1, <1>2
<1> QED  BY <1>1, <1>3, EndOfDayBound DEF k

\* The end of a day some days ahead.
LEMMA EndOfLaterDay ==
  ASSUME NEW l \in Nat, NEW i \in Nat, NEW w \in Nat \ {0}
  PROVE  (l + 1) * w + i * w = ((l + i) + 1) * w
OBVIOUS

-----------------------------------------------------------------------------
(***************************************************************************)
(* The first event of a set.                                               *)
(***************************************************************************)

\* Events with different uids.
IsQueue(M) == /\ M \subseteq Calendar!Event
              /\ \A e, f \in M : e.uid = f.uid => e = f

\* A set of natural numbers has a least element.
LEMMA LeastNumber ==
  ASSUME NEW S \in SUBSET Nat, S # {}
  PROVE  \E m \in S : \A k \in S : m <= k
<1> DEFINE R == {ss \in Nat \X Nat : ss[1] < ss[2]}
<1>1. IsWellFoundedOn(R, Nat)
  BY NatLessThanWellFounded DEF OpToRel
<1>2. PICK m \in S : \A k \in S : <<k, m>> \notin R
  <2> HIDE DEF R
  <2> QED  BY <1>1, WFMin
<1>3. ASSUME NEW k \in S PROVE m <= k
  <2>1. k \in Nat /\ m \in Nat /\ <<k, m>> \notin R
    BY <1>2
  <2> QED  BY <2>1
<1> QED  BY <1>3

LEMMA FirstExists ==
  ASSUME NEW M, IsQueue(M), M # {}
  PROVE  \E e : Calendar!IsFirst(e, M)
<1>1. M \subseteq Calendar!Event /\ \A e, f \in M : e.uid = f.uid => e = f
  BY DEF IsQueue
<1>2. \A e \in M : e.ts \in Nat /\ e.uid \in Nat
  BY <1>1 DEF Calendar!Event
<1> DEFINE S == {e.ts : e \in M}
<1>3. S \in SUBSET Nat /\ S # {}
  BY <1>2
<1>4. PICK t \in S : \A u \in S : t <= u
  <2> HIDE DEF S
  <2> QED  BY <1>3, LeastNumber
<1> DEFINE U == {e.uid : e \in {f \in M : f.ts = t}}
<1>5. U \in SUBSET Nat /\ U # {}
  BY <1>2, <1>4
<1>6. PICK v \in U : \A u \in U : v <= u
  <2> HIDE DEF U
  <2> QED  BY <1>5, LeastNumber
<1>7. PICK e \in M : e.ts = t /\ e.uid = v
  BY <1>6
<1>8. ASSUME NEW f \in M \ {e} PROVE Calendar!Before(e, f)
  <2>1. e.ts <= f.ts /\ e.uid # f.uid
    BY <1>1, <1>4, <1>7
  <2>2. f.ts = e.ts => e.uid <= f.uid
    BY <1>6, <1>7
  <2> QED  BY <1>2, <2>1, <2>2 DEF Calendar!Before
<1>9. Calendar!IsFirst(e, M)
  BY <1>7, <1>8 DEF Calendar!IsFirst
<1> QED  BY <1>9

LEMMA FirstIsFirst ==
  ASSUME NEW M, IsQueue(M), M # {}
  PROVE  /\ Calendar!First(M) \in M
         /\ \A f \in M : f # Calendar!First(M) => Calendar!Before(Calendar!First(M), f)
<1> DEFINE P(e) == Calendar!IsFirst(e, M)
<1>1. PICK e : P(e)
  BY FirstExists
<1>2. e \in M
  BY <1>1 DEF Calendar!IsFirst
<1>3. Calendar!First(M) = CHOOSE f \in M : P(f)
  BY DEF Calendar!First
<1> HIDE DEF P
<1>4. P(Calendar!First(M)) /\ Calendar!First(M) \in M
  BY <1>1, <1>2, <1>3
<1> QED  BY <1>4 DEF P, Calendar!IsFirst

-----------------------------------------------------------------------------
(***************************************************************************)
(* The calendar.  Sound (cal, n, M): it has n buckets, holds the events of *)
(* M, each in the bucket of its day, and its search starts at the day of   *)
(* lastPrio, before which there is nothing.                                *)
(***************************************************************************)
Calendars(n) == [buckets : [0..n - 1 -> SUBSET Calendar!Event],
                 width : Nat \ {0}, lastPrio : Nat,
                 lastBucket : 0..n - 1, bucketTop : Nat]

Day(cal, e) == e.ts \div cal.width
LastDay(cal) == cal.lastPrio \div cal.width

Sound(cal, n, M) ==
  /\ n \in Nat \ {0} /\ cal \in Calendars(n) /\ IsQueue(M)
  /\ \A i \in 0..n - 1 : cal.buckets[i] = {e \in M : Day(cal, e) % n = i}
  /\ cal.lastBucket = LastDay(cal) % n
  /\ cal.bucketTop = (LastDay(cal) + 1) * cal.width
  /\ \A e \in M : e.ts >= cal.lastPrio

\* The module of the calendar has the cardinalities of FiniteSets.
LEMMA SameCardinality ==
  ASSUME NEW S
  PROVE  Calendar!Cardinality(S) = Cardinality(S)
BY DEF Calendar!Cardinality, Cardinality

\* What is in a sound calendar, and where.
LEMMA CalendarContents ==
  ASSUME NEW cal, NEW n, NEW M, Sound(cal, n, M)
  PROVE  /\ Calendar!Bucket(cal) = 0..n - 1
         /\ Calendar!Days(cal) = n
         /\ Calendar!Events(cal) = M
         /\ \A ts \in Nat : /\ Calendar!Hash(cal, ts) = (ts \div cal.width) % n
                            /\ Calendar!Hash(cal, ts) \in 0..n - 1
         /\ \A e \in M : /\ e \in Calendar!Event /\ e.ts \in Nat /\ e.uid \in Nat
                         /\ Day(cal, e) \in Nat /\ Day(cal, e) % n \in 0..n - 1
<1>1. /\ n \in Nat \ {0} /\ cal \in Calendars(n) /\ IsQueue(M)
      /\ \A i \in 0..n - 1 : cal.buckets[i] = {e \in M : Day(cal, e) % n = i}
  BY DEF Sound
<1>2. cal.buckets \in [0..n - 1 -> SUBSET Calendar!Event] /\ cal.width \in Nat \ {0}
  BY <1>1 DEF Calendars
<1>3. Calendar!Bucket(cal) = 0..n - 1
  BY <1>2 DEF Calendar!Bucket
<1>4. Calendar!Days(cal) = n
  <2>1. Cardinality(0..n - 1) = n
    BY <1>1, FS_Interval
  <2> QED  BY <1>3, <2>1, SameCardinality DEF Calendar!Days
<1>5. \A e \in M : e \in Calendar!Event /\ e.ts \in Nat /\ e.uid \in Nat
  BY <1>1 DEF IsQueue, Calendar!Event
<1>6. \A e \in M : Day(cal, e) \in Nat /\ Day(cal, e) % n \in 0..n - 1
  BY <1>1, <1>2, <1>5, Division DEF Day
<1>7. \A ts \in Nat : /\ Calendar!Hash(cal, ts) = (ts \div cal.width) % n
                      /\ Calendar!Hash(cal, ts) \in 0..n - 1
  BY <1>1, <1>2, <1>4, Division DEF Calendar!Hash
<1>8. Calendar!Events(cal) = M
  <2>1. ASSUME NEW e \in M PROVE e \in Calendar!Events(cal)
    <3> DEFINE i == Day(cal, e) % n
    <3>1. i \in Calendar!Bucket(cal) /\ e \in cal.buckets[i]
      BY <1>1, <1>3, <1>6
    <3> QED  BY <3>1 DEF Calendar!Events
  <2>2. ASSUME NEW e \in Calendar!Events(cal) PROVE e \in M
    <3>1. PICK i \in 0..n - 1 : e \in cal.buckets[i]
      BY <1>3 DEF Calendar!Events
    <3> QED  BY <1>1, <3>1
  <2> QED  BY <2>1, <2>2
<1> QED  BY <1>3, <1>4, <1>5, <1>6, <1>7, <1>8

\* Init and the insertion of all events: a new calendar is sound.
LEMMA NewCalendarIsSound ==
  ASSUME NEW n \in Nat \ {0}, NEW w \in Nat \ {0}, NEW prio \in Nat,
         NEW M, IsQueue(M), \A e \in M : e.ts >= prio
  PROVE  /\ Sound(Calendar!NewCalendar(n, w, prio, M), n, M)
         /\ Calendar!NewCalendar(n, w, prio, M).lastPrio = prio
<1> DEFINE cal == Calendar!NewCalendar(n, w, prio, M)
           day == prio \div w
<1>1. /\ cal.buckets = [i \in 0..n - 1 |-> {e \in M : (e.ts \div w) % n = i}]
      /\ cal.width = w /\ cal.lastPrio = prio
      /\ cal.lastBucket = day % n /\ cal.bucketTop = (day + 1) * w
      /\ cal = [buckets |-> cal.buckets, width |-> cal.width,
                lastPrio |-> cal.lastPrio, lastBucket |-> cal.lastBucket,
                bucketTop |-> cal.bucketTop]
  BY DEF Calendar!NewCalendar, Calendar!EndOfDay
<1>2. day \in Nat
  BY Division
<1>3. day % n \in 0..n - 1
  BY <1>2, Division
<1>4. (day + 1) * w \in Nat
  BY <1>2
<1> HIDE DEF cal, day
<1>5. cal.buckets \in [0..n - 1 -> SUBSET Calendar!Event]
  BY <1>1 DEF IsQueue
<1>6. cal \in Calendars(n)
  BY <1>1, <1>3, <1>4, <1>5 DEF Calendars
<1>7. \A i \in 0..n - 1 : cal.buckets[i] = {e \in M : Day(cal, e) % n = i}
  BY <1>1 DEF Day
<1>8. LastDay(cal) = day
  BY <1>1 DEF LastDay, day
<1>9. Sound(cal, n, M)
  BY <1>1, <1>6, <1>7, <1>8 DEF Sound
<1> QED  BY <1>1, <1>9 DEF cal

\* A subset of a queue is one, and so is a queue with a new event.
LEMMA SmallerQueue ==
  ASSUME NEW M, IsQueue(M), NEW S \in SUBSET M
  PROVE  IsQueue(S)
BY DEF IsQueue

LEMMA LargerQueue ==
  ASSUME NEW M, IsQueue(M), NEW e \in Calendar!Event, \A f \in M : f.uid # e.uid
  PROVE  IsQueue(M \cup {e})
BY DEF IsQueue

\* An event is put into the bucket of its day.
LEMMA DoInsertIsSound ==
  ASSUME NEW cal, NEW n, NEW M, Sound(cal, n, M),
         NEW e \in Calendar!Event, \A f \in M : f.uid # e.uid,
         e.ts >= cal.lastPrio
  PROVE  /\ Sound(Calendar!DoInsert(cal, e), n, M \cup {e})
         /\ Calendar!DoInsert(cal, e).lastPrio = cal.lastPrio
<1> DEFINE b == Calendar!Hash(cal, e.ts)
           new == Calendar!DoInsert(cal, e)
<1>1. /\ n \in Nat \ {0} /\ cal \in Calendars(n) /\ IsQueue(M)
      /\ \A i \in 0..n - 1 : cal.buckets[i] = {f \in M : Day(cal, f) % n = i}
      /\ cal.lastBucket = LastDay(cal) % n
      /\ cal.bucketTop = (LastDay(cal) + 1) * cal.width
      /\ \A f \in M : f.ts >= cal.lastPrio
  BY DEF Sound
<1>2. e.ts \in Nat
  BY DEF Calendar!Event
<1>3. b \in 0..n - 1 /\ b = Day(cal, e) % n
  BY <1>2, CalendarContents DEF Day
<1>4. cal.buckets \in [0..n - 1 -> SUBSET Calendar!Event]
  BY <1>1 DEF Calendars
<1>5. /\ new \in Calendars(n)
      /\ new.buckets = [cal.buckets EXCEPT ![b] = @ \cup {e}]
      /\ new.width = cal.width /\ new.lastPrio = cal.lastPrio
      /\ new.lastBucket = cal.lastBucket /\ new.bucketTop = cal.bucketTop
  BY <1>1, <1>3, <1>4 DEF Calendar!DoInsert, Calendars
<1> HIDE DEF new, b
<1>6. \A f : Day(new, f) = Day(cal, f)
  BY <1>5 DEF Day
<1>7. LastDay(new) = LastDay(cal)
  BY <1>5 DEF LastDay
<1>8. ASSUME NEW i \in 0..n - 1
      PROVE  new.buckets[i] = {f \in M \cup {e} : Day(new, f) % n = i}
  <2>1. CASE i = b
    <3>1. new.buckets[i] = cal.buckets[i] \cup {e}
      BY <1>3, <1>4, <1>5, <2>1
    <3> QED  BY <1>1, <1>3, <1>6, <2>1, <3>1
  <2>2. CASE i # b
    <3>1. new.buckets[i] = cal.buckets[i]
      BY <1>3, <1>4, <1>5, <2>2
    <3> QED  BY <1>1, <1>3, <1>6, <2>2, <3>1
  <2> QED  BY <2>1, <2>2
<1>9. IsQueue(M \cup {e})
  BY <1>1, LargerQueue
<1>10. Sound(new, n, M \cup {e})
  BY <1>1, <1>5, <1>7, <1>8, <1>9 DEF Sound
<1> QED  BY <1>5, <1>10 DEF new

\* An event is taken out of its bucket; the search may then start at a later
\* day, if nothing lies before it.
LEMMA TakenOutIsSound ==
  ASSUME NEW cal, NEW n, NEW M, Sound(cal, n, M),
         NEW e \in M, NEW b \in 0..n - 1, e \in cal.buckets[b],
         NEW new, new \in Calendars(n),
         new.buckets = [cal.buckets EXCEPT ![b] = @ \ {e}],
         new.width = cal.width,
         new.lastBucket = LastDay(new) % n,
         new.bucketTop = (LastDay(new) + 1) * new.width,
         \A f \in M \ {e} : f.ts >= new.lastPrio
  PROVE  Sound(new, n, M \ {e})
<1>1. /\ n \in Nat \ {0} /\ cal \in Calendars(n) /\ IsQueue(M)
      /\ \A i \in 0..n - 1 : cal.buckets[i] = {f \in M : Day(cal, f) % n = i}
  BY DEF Sound
<1>2. cal.buckets \in [0..n - 1 -> SUBSET Calendar!Event]
  BY <1>1 DEF Calendars
<1>3. \A f : Day(new, f) = Day(cal, f)
  BY DEF Day
<1>4. Day(cal, e) % n = b
  BY <1>1
<1>5. ASSUME NEW i \in 0..n - 1
      PROVE  new.buckets[i] = {f \in M \ {e} : Day(new, f) % n = i}
  <2>1. CASE i = b
    <3>1. new.buckets[i] = cal.buckets[i] \ {e}
      BY <1>2, <2>1
    <3> QED  BY <1>1, <1>3, <3>1
  <2>2. CASE i # b
    <3>1. new.buckets[i] = cal.buckets[i]
      BY <1>2, <2>2
    <3> QED  BY <1>1, <1>3, <1>4, <2>2, <3>1
  <2> QED  BY <2>1, <2>2
<1>6. IsQueue(M \ {e})
  BY <1>1, SmallerQueue
<1> QED  BY <1>1, <1>5, <1>6 DEF Sound

-----------------------------------------------------------------------------
(***************************************************************************)
(* The search of DoRemoveNext.  In a year that starts at the last day,     *)
(* every bucket is visited at one day; the first of these days at which    *)
(* there is an event is the earliest of all.                               *)
(***************************************************************************)

\* The i-th bucket visited is the bucket of the i-th day of the year; of the
\* events in it, those that lie before the end of that day are of that day.
LEMMA VisitedDay ==
  ASSUME NEW cal, NEW n, NEW M, Sound(cal, n, M), NEW i \in 0..n - 1
  PROVE  /\ Calendar!Visited(cal, i) = (LastDay(cal) + i) % n
         /\ Calendar!Visited(cal, i) \in 0..n - 1
         /\ \A e \in cal.buckets[Calendar!Visited(cal, i)] :
              e.ts < cal.bucketTop + i * cal.width <=> Day(cal, e) = LastDay(cal) + i
         /\ \A e \in M : Day(cal, e) = LastDay(cal) + i =>
              e \in cal.buckets[Calendar!Visited(cal, i)]
<1> DEFINE l == LastDay(cal)
           v == Calendar!Visited(cal, i)
           w == cal.width
<1>1. /\ n \in Nat \ {0} /\ cal \in Calendars(n) /\ i \in Nat /\ i < n
      /\ \A j \in 0..n - 1 : cal.buckets[j] = {f \in M : Day(cal, f) % n = j}
      /\ cal.lastBucket = l % n
      /\ cal.bucketTop = (l + 1) * w
      /\ \A f \in M : f.ts >= cal.lastPrio
  BY DEF Sound
<1>2. w \in Nat \ {0} /\ cal.lastPrio \in Nat
  BY <1>1 DEF Calendars
<1>3. l \in Nat
  BY <1>2, Division DEF LastDay
<1>4. \A f \in M : f.ts \in Nat /\ Day(cal, f) \in Nat
  BY CalendarContents
<1>5. v = ((l % n) + i) % n
  <2>1. Calendar!Days(cal) = n
    BY CalendarContents
  <2> QED  BY <1>1, <2>1 DEF Calendar!Visited
<1>6. v = (l + i) % n /\ v \in 0..n - 1
  <2>1. l + i \in Nat
    BY <1>1, <1>3
  <2>2. ((l % n) + i) % n = (l + i) % n
    <3> HIDE DEF l
    <3> QED  BY <1>1, <1>3, ReducedSum
  <2>3. (l + i) % n \in 0..n - 1
    <3> HIDE DEF l
    <3> QED  BY <1>1, <2>1, Division
  <2> QED  BY <1>5, <2>2, <2>3
<1>7. \A f \in M : l <= Day(cal, f)
  <2> TAKE f \in M
  <2>1. cal.lastPrio <= f.ts /\ cal.lastPrio \in Nat /\ f.ts \in Nat
    BY <1>1, <1>2, <1>4
  <2> QED  BY <1>2, <2>1, LaterDay DEF LastDay, Day
<1> HIDE DEF l, v, w
<1>8. cal.bucketTop + i * w = ((l + i) + 1) * w
  BY <1>1, <1>2, <1>3, EndOfLaterDay
<1>9. ASSUME NEW e \in cal.buckets[v]
      PROVE  e.ts < cal.bucketTop + i * w <=> Day(cal, e) = l + i
  <2>1. e \in M /\ Day(cal, e) % n = v
    BY <1>1, <1>6
  <2>2. e.ts \in Nat /\ l + i \in Nat
    BY <1>1, <1>3, <1>4, <2>1
  <2>3. e.ts < ((l + i) + 1) * w <=> Day(cal, e) <= l + i
    BY <1>2, <2>2, EndOfDayBound DEF Day, w
  <2>4. Day(cal, e) <= l + i => Day(cal, e) = l + i
    <3> SUFFICES ASSUME Day(cal, e) <= l + i PROVE Day(cal, e) = l + i
      OBVIOUS
    <3> DEFINE d == Day(cal, e)
    <3>1. d \in Nat /\ l <= d /\ d % n = (l + i) % n
      BY <1>4, <1>6, <1>7, <2>1
    <3> HIDE DEF d
    <3>2. l + i < d + n
      BY <1>1, <1>3, <3>1
    <3>3. d <= l + i
      BY DEF d
    <3> QED  BY <1>1, <2>2, <3>1, <3>2, <3>3, SameBucketSameDay DEF d
  <2>5. Day(cal, e) \in Nat
    BY <1>4, <2>1
  <2> QED  BY <1>8, <2>2, <2>3, <2>4, <2>5
<1>10. ASSUME NEW e \in M, Day(cal, e) = l + i PROVE e \in cal.buckets[v]
  BY <1>1, <1>6, <1>10
<1> QED  BY <1>6, <1>9, <1>10 DEF l, v, w

\* A bucket is a queue.
LEMMA BucketFirst ==
  ASSUME NEW cal, NEW n, NEW M, Sound(cal, n, M), NEW b \in 0..n - 1,
         cal.buckets[b] # {}
  PROVE  LET e == Calendar!First(cal.buckets[b]) IN
         /\ e \in cal.buckets[b] /\ e \in M
         /\ \A f \in cal.buckets[b] : f # e => Calendar!Before(e, f)
<1>1. IsQueue(M) /\ cal.buckets[b] \subseteq M
  BY DEF Sound
<1>2. IsQueue(cal.buckets[b])
  BY <1>1, SmallerQueue
<1> QED  BY <1>1, <1>2, FirstIsFirst

\* The days of the year at which there are events.
LEMMA HitIsDay ==
  ASSUME NEW cal, NEW n, NEW M, Sound(cal, n, M), NEW i \in 0..n - 1
  PROVE  Calendar!HasEventOfDay(cal, i) <=> \E e \in M : Day(cal, e) = LastDay(cal) + i
<1> DEFINE v == Calendar!Visited(cal, i)
           e == Calendar!First(cal.buckets[v])
           top == cal.bucketTop + i * cal.width
<1>1. /\ v \in 0..n - 1
      /\ \A f \in cal.buckets[v] : f.ts < top <=> Day(cal, f) = LastDay(cal) + i
      /\ \A f \in M : Day(cal, f) = LastDay(cal) + i => f \in cal.buckets[v]
  BY VisitedDay
<1>2. cal.buckets[v] # {} =>
        /\ e \in cal.buckets[v] /\ e \in M
        /\ \A f \in cal.buckets[v] : f # e => Calendar!Before(e, f)
  BY <1>1, BucketFirst
<1>3. Calendar!HasEventOfDay(cal, i) <=> cal.buckets[v] # {} /\ e.ts < top
  BY DEF Calendar!HasEventOfDay
<1>4. \A f \in M : f.ts \in Nat
  BY CalendarContents
<1>5. cal.buckets[v] \subseteq M
  BY <1>1 DEF Sound
<1>6. top \in Nat
  <2>1. cal.bucketTop \in Nat /\ cal.width \in Nat
    BY DEF Sound, Calendars
  <2>2. i \in Nat
    OBVIOUS
  <2> QED  BY <2>1, <2>2
<1> HIDE DEF v, e, top
<1>7. ASSUME cal.buckets[v] # {}, e.ts < top
      PROVE  \E f \in M : Day(cal, f) = LastDay(cal) + i
  BY <1>1, <1>2, <1>7
<1>8. ASSUME NEW f \in M, Day(cal, f) = LastDay(cal) + i
      PROVE  cal.buckets[v] # {} /\ e.ts < top
  <2>1. f \in cal.buckets[v] /\ f.ts < top
    BY <1>1, <1>8
  <2>2. f # e => Calendar!Before(e, f)
    BY <1>2, <2>1
  <2>3. f # e => e.ts <= f.ts
    BY <1>2, <1>4, <2>1, <2>2 DEF Calendar!Before
  <2> QED  BY <1>2, <1>4, <1>6, <2>1, <2>3
<1> QED  BY <1>3, <1>7, <1>8

\* Events of an earlier day come before those of a later one.
LEMMA EarlierDayBefore ==
  ASSUME NEW cal, NEW n, NEW M, Sound(cal, n, M), NEW e \in M, NEW f \in M,
         Day(cal, e) < Day(cal, f)
  PROVE  Calendar!Before(e, f)
<1>1. e.ts \in Nat /\ f.ts \in Nat /\ cal.width \in Nat \ {0}
  BY CalendarContents DEF Sound, Calendars
<1>2. f.ts <= e.ts => Day(cal, f) <= Day(cal, e)
  BY <1>1, LaterDay DEF Day
<1>3. Day(cal, e) \in Nat /\ Day(cal, f) \in Nat
  BY CalendarContents
<1>4. e.ts < f.ts
  BY <1>1, <1>2, <1>3
<1> QED  BY <1>4 DEF Calendar!Before

-----------------------------------------------------------------------------
\* Min of the module of the calendar.
LEMMA MinIsLeast ==
  ASSUME NEW S \in SUBSET Nat, S # {}
  PROVE  Calendar!Min(S) \in S /\ \A k \in S : Calendar!Min(S) <= k
<1> DEFINE P(m) == \A k \in S : m <= k
<1>1. \E m \in S : P(m)
  BY LeastNumber
<1>2. Calendar!Min(S) = CHOOSE m \in S : P(m)
  BY DEF Calendar!Min
<1> HIDE DEF P
<1>3. Calendar!Min(S) \in S /\ P(Calendar!Min(S))
  BY <1>1, <1>2
<1> QED  BY <1>3 DEF P

\* DoRemoveNext returns the first event of the calendar, which stays sound.
LEMMA DoRemoveNextIsSound ==
  ASSUME NEW cal, NEW n, NEW M, Sound(cal, n, M), M # {}
  PROVE  LET removed == Calendar!DoRemoveNext(cal) IN
         /\ removed.event \in M
         /\ \A f \in M \ {removed.event} : Calendar!Before(removed.event, f)
         /\ Sound(removed.cal, n, M \ {removed.event})
         /\ removed.cal.lastPrio = removed.event.ts
<1> DEFINE l == LastDay(cal)
           w == cal.width
           hits == {i \in 0..Calendar!Days(cal) - 1 : Calendar!HasEventOfDay(cal, i)}
           least == Calendar!Min(hits)
           fronts == {Calendar!First(cal.buckets[j]) :
                        j \in {k \in Calendar!Bucket(cal) : cal.buckets[k] # {}}}
           b == IF hits # {}
                THEN Calendar!Visited(cal, least)
                ELSE CHOOSE j \in Calendar!Bucket(cal) :
                       Calendar!First(fronts) \in cal.buckets[j]
           e == Calendar!First(cal.buckets[b])
           new == [cal EXCEPT !.buckets[b] = @ \ {e},
                              !.lastPrio = e.ts,
                              !.lastBucket = IF hits # {} THEN b
                                             ELSE Calendar!Hash(cal, e.ts),
                              !.bucketTop = IF hits # {}
                                            THEN cal.bucketTop + least * cal.width
                                            ELSE Calendar!EndOfDay(e.ts, cal.width)]
<1>1. Calendar!DoRemoveNext(cal) = [event |-> e, cal |-> new]
  BY DEF Calendar!DoRemoveNext
<1>2. /\ n \in Nat \ {0} /\ cal \in Calendars(n) /\ IsQueue(M)
      /\ \A i \in 0..n - 1 : cal.buckets[i] = {f \in M : Day(cal, f) % n = i}
      /\ cal.lastBucket = l % n
      /\ cal.bucketTop = (l + 1) * w
      /\ \A f \in M : f.ts >= cal.lastPrio
  BY DEF Sound
<1>3. /\ Calendar!Bucket(cal) = 0..n - 1 /\ Calendar!Days(cal) = n
      /\ \A f \in M : /\ f \in Calendar!Event /\ f.ts \in Nat /\ f.uid \in Nat
                      /\ Day(cal, f) \in Nat /\ Day(cal, f) % n \in 0..n - 1
      /\ \A ts \in Nat : Calendar!Hash(cal, ts) = (ts \div w) % n
  BY CalendarContents
<1>4. /\ cal.buckets \in [0..n - 1 -> SUBSET Calendar!Event]
      /\ w \in Nat \ {0} /\ cal.lastPrio \in Nat
  BY <1>2 DEF Calendars
<1>5. l \in Nat
  BY <1>4, Division DEF LastDay
<1>6. \A f \in M : l <= Day(cal, f)
  <2> TAKE f \in M
  <2>1. cal.lastPrio <= f.ts /\ f.ts \in Nat
    BY <1>2, <1>3, <1>4
  <2> QED  BY <1>4, <2>1, LaterDay DEF LastDay, Day
<1>7. hits \in SUBSET Nat /\ \A i \in 0..n - 1 :
        i \in hits <=> \E f \in M : Day(cal, f) = l + i
  BY <1>3, HitIsDay
\* An event of the year.
<1>8. CASE hits # {}
  <2>1. least \in hits /\ \A i \in hits : least <= i
    <3> HIDE DEF hits
    <3> QED  BY <1>7, <1>8, MinIsLeast
  <2>2. least \in 0..n - 1
    BY <1>3, <2>1
  <2>3. b = Calendar!Visited(cal, least)
    BY <1>8
  <2>4. PICK g \in M : Day(cal, g) = l + least
    BY <1>7, <2>1, <2>2
  <2>5. /\ b = (l + least) % n /\ b \in 0..n - 1
        /\ \A f \in cal.buckets[b] : f.ts < cal.bucketTop + least * w <=> Day(cal, f) = l + least
        /\ \A f \in M : Day(cal, f) = l + least => f \in cal.buckets[b]
    <3> HIDE DEF b, least
    <3> QED  BY <2>2, <2>3, VisitedDay
  <2>6. cal.buckets[b] # {}
    BY <2>4, <2>5
  <2>7. /\ e \in cal.buckets[b] /\ e \in M
        /\ \A f \in cal.buckets[b] : f # e => Calendar!Before(e, f)
    <3>1. b \in 0..n - 1
      BY <2>5
    <3> HIDE DEF b, hits, least, new, l, w, fronts
    <3> QED  BY <2>6, <3>1, BucketFirst
  <2>8. new.lastBucket = b /\ new.bucketTop = cal.bucketTop + least * w
        /\ new.lastPrio = e.ts /\ new.width = w
        /\ new.buckets = [cal.buckets EXCEPT ![b] = @ \ {e}]
    <3> HIDE DEF b, e, hits, least
    <3> QED  BY <1>2, <1>8 DEF Calendars
  <2>9. new \in Calendars(n)
    <3>1. cal.bucketTop + least * w \in Nat
      <4>1. cal.bucketTop \in Nat /\ least \in Nat
        BY <1>2, <2>2 DEF Calendars
      <4> HIDE DEF least
      <4> QED  BY <1>4, <4>1
    <3>2. e.ts \in Nat
      BY <1>3, <2>7
    <3> HIDE DEF b, e, hits, least
    <3> QED  BY <1>2, <1>4, <1>8, <2>5, <3>1, <3>2 DEF Calendars
  <2> HIDE DEF b, e, new, hits, least
  <2>10. Day(cal, e) = l + least
    <3>1. e = g \/ Calendar!Before(e, g)
      BY <2>4, <2>5, <2>7
    <3>2. e.ts <= g.ts
      BY <1>3, <2>4, <2>7, <3>1 DEF Calendar!Before
    <3>3. g.ts < cal.bucketTop + least * w /\ cal.bucketTop + least * w \in Nat
      <4>1. cal.bucketTop \in Nat /\ least \in Nat
        BY <1>2, <2>2 DEF Calendars
      <4> QED  BY <1>4, <2>4, <2>5, <4>1
    <3>4. e.ts < cal.bucketTop + least * w
      BY <1>3, <2>4, <2>7, <3>2, <3>3
    <3> QED  BY <2>5, <2>7, <3>4
  <2>11. ASSUME NEW f \in M \ {e} PROVE Calendar!Before(e, f)
    <3> DEFINE d == Day(cal, f)
    <3>1. d \in Nat /\ l <= d
      BY <1>3, <1>6
    <3>2. CASE d = l + least
      BY <2>5, <2>7, <3>2
    <3>3. CASE d < l + least
      <4>1. d - l \in 0..n - 1 /\ d - l < least /\ d = l + (d - l)
        <5> HIDE DEF l, d
        <5> QED  BY <1>2, <1>5, <2>2, <3>1, <3>3
      <4>2. d - l \in hits
        BY <1>7, <4>1
      <4>3. least <= d - l
        BY <2>1, <4>2
      <4> QED  BY <1>5, <2>2, <3>1, <4>1, <4>3
    <3>4. CASE l + least < d
      <4>1. Day(cal, e) < Day(cal, f)
        BY <2>10, <3>4
      <4> QED  BY <2>7, <4>1, EarlierDayBefore
    <3>5. d = l + least \/ d < l + least \/ l + least < d
      BY <1>5, <2>2, <3>1
    <3> QED  BY <3>2, <3>3, <3>4, <3>5
  <2>12. \A f \in M \ {e} : f.ts >= new.lastPrio
    BY <1>3, <2>7, <2>8, <2>11 DEF Calendar!Before
  <2>13. LastDay(new) = l + least
    BY <2>8, <2>10 DEF LastDay, Day
  <2>14. new.bucketTop = (LastDay(new) + 1) * new.width
    <3>1. cal.bucketTop + least * w = ((l + least) + 1) * w
      <4>1. least \in Nat
        BY <2>2
      <4> HIDE DEF l, w
      <4> QED  BY <1>2, <1>4, <1>5, <4>1, EndOfLaterDay
    <3> QED  BY <2>8, <2>13, <3>1
  <2>15. new.lastBucket = LastDay(new) % n
    BY <2>5, <2>8, <2>13
  <2>16. Sound(new, n, M \ {e})
    BY <2>5, <2>7, <2>8, <2>9, <2>12, <2>14, <2>15, TakenOutIsSound
  <2>17. Calendar!DoRemoveNext(cal).event = e /\ Calendar!DoRemoveNext(cal).cal = new
    BY <1>1
  <2> QED  BY <2>7, <2>8, <2>11, <2>16, <2>17
\* None: the first of the fronts.
<1>9. CASE hits = {}
  <2>1. \A j \in 0..n - 1 : cal.buckets[j] # {} =>
          /\ Calendar!First(cal.buckets[j]) \in cal.buckets[j]
          /\ Calendar!First(cal.buckets[j]) \in M
          /\ \A f \in cal.buckets[j] : f # Calendar!First(cal.buckets[j]) =>
               Calendar!Before(Calendar!First(cal.buckets[j]), f)
    BY BucketFirst
  <2>2. fronts \subseteq M
    BY <1>3, <2>1
  <2>3. \A f \in M : \E j \in 0..n - 1 : f \in cal.buckets[j]
    BY <1>2, <1>3
  <2>4. fronts # {}
    <3>1. PICK f \in M : TRUE
      OBVIOUS
    <3>2. PICK j \in 0..n - 1 : f \in cal.buckets[j]
      BY <2>3
    <3>3. Calendar!First(cal.buckets[j]) \in fronts
      BY <1>3, <3>2
    <3> QED  BY <3>3
  <2> DEFINE first == Calendar!First(fronts)
  <2>5. /\ first \in fronts /\ first \in M
        /\ \A f \in fronts : f # first => Calendar!Before(first, f)
    <3>1. IsQueue(fronts)
      <4> HIDE DEF fronts
      <4> QED  BY <1>2, <2>2, SmallerQueue
    <3> HIDE DEF fronts
    <3> QED  BY <2>2, <2>4, <3>1, FirstIsFirst
  <2>6. PICK k \in 0..n - 1 : cal.buckets[k] # {} /\ first = Calendar!First(cal.buckets[k])
    <3> HIDE DEF first
    <3> QED  BY <1>3, <2>5
  <2>7. first \in cal.buckets[k]
    BY <2>1, <2>6
  <2>8. b = CHOOSE j \in Calendar!Bucket(cal) : first \in cal.buckets[j]
    BY <1>9
  <2> HIDE DEF first
  <2>9. b \in 0..n - 1 /\ first \in cal.buckets[b]
    <3> HIDE DEF b
    <3> QED  BY <1>3, <2>7, <2>8
  <2>10. b = k
    <3> HIDE DEF b
    <3> QED  BY <1>2, <2>7, <2>9
  <2>11. e = first
    <3> HIDE DEF b
    <3> QED  BY <2>6, <2>10
  <2>12. e \in M /\ e \in cal.buckets[b] /\ e.ts \in Nat /\ b = Day(cal, e) % n
    <3>1. e \in M /\ e \in cal.buckets[b]
      BY <2>5, <2>9, <2>11
    <3> HIDE DEF e, b
    <3> QED  BY <1>2, <1>3, <2>9, <3>1
  <2>13. /\ new.lastBucket = Calendar!Hash(cal, e.ts)
         /\ new.bucketTop = Calendar!EndOfDay(e.ts, cal.width)
         /\ new.lastPrio = e.ts /\ new.width = w
         /\ new.buckets = [cal.buckets EXCEPT ![b] = @ \ {e}]
    <3> HIDE DEF b, e, hits, least
    <3> QED  BY <1>2, <1>9 DEF Calendars
  <2>14. /\ Calendar!Hash(cal, e.ts) = Day(cal, e) % n
         /\ Calendar!Hash(cal, e.ts) \in 0..n - 1
         /\ Calendar!EndOfDay(e.ts, cal.width) = (Day(cal, e) + 1) * w
         /\ Calendar!EndOfDay(e.ts, cal.width) \in Nat
    <3> HIDE DEF b, e
    <3>1. Calendar!Hash(cal, e.ts) = Day(cal, e) % n
      BY <1>3, <2>12 DEF Day
    <3>2. Calendar!EndOfDay(e.ts, cal.width) = (Day(cal, e) + 1) * w
      BY DEF Calendar!EndOfDay, Day
    <3>3. (Day(cal, e) + 1) * w \in Nat
      BY <1>3, <1>4, <2>12
    <3> QED  BY <1>3, <2>12, <3>1, <3>2, <3>3
  <2>15. new \in Calendars(n)
    <3> HIDE DEF b, e, hits, least
    <3> QED  BY <1>2, <1>4, <1>9, <2>9, <2>12, <2>14 DEF Calendars
  <2>16. LastDay(new) = Day(cal, e)
    <3> HIDE DEF b, e, new
    <3> QED  BY <2>13 DEF LastDay, Day
  <2>17. ASSUME NEW f \in M \ {e} PROVE Calendar!Before(e, f)
    <3> HIDE DEF b, e, new
    <3>1. PICK j \in 0..n - 1 : f \in cal.buckets[j]
      BY <2>3
    <3> DEFINE g == Calendar!First(cal.buckets[j])
    <3>2. g \in fronts /\ g \in M /\ (f = g \/ Calendar!Before(g, f))
      BY <1>3, <2>1, <3>1
    <3>3. g = e \/ Calendar!Before(e, g)
      <4> HIDE DEF g, fronts
      <4> QED  BY <2>5, <2>11, <3>2
    <3> HIDE DEF g
    <3>4. f # e
      OBVIOUS
    <3>5. f.ts \in Nat /\ f.uid \in Nat /\ g.ts \in Nat /\ g.uid \in Nat
          /\ e.ts \in Nat /\ e.uid \in Nat
      BY <1>3, <2>12, <3>2
    <3> QED  BY <3>2, <3>3, <3>4, <3>5 DEF Calendar!Before
  <2> HIDE DEF b, e, new, hits, least, fronts
  <2>18. \A f \in M \ {e} : f.ts >= new.lastPrio
    BY <1>3, <2>12, <2>13, <2>17 DEF Calendar!Before
  <2>19. /\ new.bucketTop = (LastDay(new) + 1) * new.width
         /\ new.lastBucket = LastDay(new) % n
    BY <2>13, <2>14, <2>16
  <2>20. Sound(new, n, M \ {e})
    BY <2>9, <2>12, <2>13, <2>15, <2>18, <2>19, TakenOutIsSound
  <2>21. Calendar!DoRemoveNext(cal).event = e /\ Calendar!DoRemoveNext(cal).cal = new
    BY <1>1
  <2> QED  BY <2>12, <2>13, <2>17, <2>20, <2>21
<1> QED  BY <1>8, <1>9

-----------------------------------------------------------------------------
(***************************************************************************)
(* The width of a day.                                                     *)
(***************************************************************************)

\* DoRemoveNext again and again, as long as there are events.
DrainTurns(n, M, k) ==
  {s \in [event : Calendar!Event, cal : Calendars(n)] :
     \E S \in SUBSET M : /\ Sound(s.cal, n, S) /\ IsFiniteSet(S)
                         /\ Cardinality(S) = Cardinality(M) - k}

LEMMA DrainTurn ==
  ASSUME NEW n, NEW M, IsFiniteSet(M), NEW k \in 1..Cardinality(M),
         NEW s \in DrainTurns(n, M, k - 1)
  PROVE  Calendar!DoRemoveNext(s.cal) \in DrainTurns(n, M, k)
<1> DEFINE r == Calendar!DoRemoveNext(s.cal)
<1>1. PICK S \in SUBSET M : /\ Sound(s.cal, n, S) /\ IsFiniteSet(S)
                            /\ Cardinality(S) = Cardinality(M) - (k - 1)
  BY DEF DrainTurns
<1>2. Cardinality(M) \in Nat
  BY FS_CardinalityType
<1>3. S # {}
  <2>1. Cardinality(S) # 0
    BY <1>1, <1>2
  <2> QED  BY <2>1, FS_EmptySet
<1>4. /\ r.event \in S
      /\ Sound(r.cal, n, S \ {r.event})
  BY <1>1, <1>3, DoRemoveNextIsSound
<1>5. r = [event |-> r.event, cal |-> r.cal]
  BY DEF Calendar!DoRemoveNext
<1> HIDE DEF r
<1>6. r.event \in Calendar!Event /\ r.cal \in Calendars(n)
  BY <1>1, <1>4 DEF Sound, IsQueue
<1>7. r \in [event : Calendar!Event, cal : Calendars(n)]
  BY <1>5, <1>6
<1>8. /\ IsFiniteSet(S \ {r.event})
      /\ Cardinality(S \ {r.event}) = Cardinality(S) - 1
  BY <1>1, <1>4, FS_RemoveElement
<1>9. Cardinality(S \ {r.event}) = Cardinality(M) - k
  BY <1>1, <1>2, <1>8
<1>10. S \ {r.event} \in SUBSET M
  OBVIOUS
<1>11. r \in DrainTurns(n, M, k)
  BY <1>4, <1>7, <1>8, <1>9, <1>10 DEF DrainTurns
<1> QED  BY <1>11 DEF r

\* The samples are events.
LEMMA SamplesType ==
  ASSUME NEW cal, NEW n, NEW M, Sound(cal, n, M), IsFiniteSet(M),
         NEW m \in Nat, m <= Cardinality(M)
  PROVE  Calendar!Samples(cal, m) \in [1..m -> Calendar!Event]
<1> DEFINE U == [event : Calendar!Event, cal : Calendars(n)]
           T == [k \in 0..m |-> DrainTurns(n, M, k)]
           a == [event |-> Calendar!Nothing, cal |-> cal]
           turnOf == {ks \in (1..m) \X U : ks[2] \in DrainTurns(n, M, ks[1] - 1)}
           step == [ks \in (1..m) \X U |->
                      IF ks \in turnOf THEN Calendar!DoRemoveNext(ks[2].cal) ELSE a]
<1>1. Cardinality(M) \in Nat
  BY FS_CardinalityType
<1>2. T \in [0..m -> SUBSET U]
  BY DEF DrainTurns
<1>3. a \in DrainTurns(n, M, 0) /\ a \in U /\ a \in T[0]
  <2>1. Calendar!Nothing \in Calendar!Event
    BY DEF Calendar!Nothing, Calendar!Event
  <2>2. a \in U
    BY <2>1 DEF Sound
  <2>3. a.cal = cal /\ M \in SUBSET M /\ Cardinality(M) = Cardinality(M) - 0
    BY <1>1
  <2>4. a \in DrainTurns(n, M, 0)
    <3> HIDE DEF a
    <3> QED  BY <2>2, <2>3 DEF DrainTurns
  <2> QED  BY <2>2, <2>4
<1>4. \A k \in 1..m : \A s \in DrainTurns(n, M, k - 1) :
        /\ s \in U
        /\ Calendar!DoRemoveNext(s.cal) \in DrainTurns(n, M, k)
        /\ Calendar!DoRemoveNext(s.cal) \in U
  <2> TAKE k \in 1..m
  <2> TAKE s \in DrainTurns(n, M, k - 1)
  <2>1. k \in 1..Cardinality(M)
    BY <1>1
  <2>2. Calendar!DoRemoveNext(s.cal) \in DrainTurns(n, M, k)
    BY <2>1, DrainTurn
  <2> QED  BY <2>2 DEF DrainTurns
<1>5. step \in [(1..m) \X U -> U]
  BY <1>3, <1>4
<1>6. \A k \in 1..m : \A s \in T[k - 1] :
        step[<<k, s>>] = Calendar!DoRemoveNext(s.cal) /\ step[<<k, s>>] \in T[k]
  <2> TAKE k \in 1..m
  <2>1. T[k - 1] = DrainTurns(n, M, k - 1) /\ T[k] = DrainTurns(n, M, k)
    OBVIOUS
  <2> QED  BY <1>4, <2>1
<1>7. PICK f : IsRun(f, m, U, T, a, step)
  <2> HIDE DEF U, T, a, step
  <2>1. IsLoop(m, U, T, a, step)
    BY <1>2, <1>3, <1>5, <1>6 DEF IsLoop
  <2> QED  BY <2>1, LoopRuns
<1>8. /\ f \in [0..m -> U]
      /\ f[0] = a
      /\ \A k \in 1..m : f[k] = step[<<k, f[k - 1]>>]
      /\ \A k \in 0..m : f[k] \in T[k]
  BY <1>7 DEF IsRun
<1> HIDE DEF T, step
<1> DEFINE drained[i \in 0..m] ==
             IF i = 0 THEN [event |-> Calendar!Nothing, cal |-> cal]
                      ELSE Calendar!DoRemoveNext(drained[i - 1].cal)
           P(g) == g = [i \in 0..m |->
                          IF i = 0 THEN [event |-> Calendar!Nothing, cal |-> cal]
                                   ELSE Calendar!DoRemoveNext(g[i - 1].cal)]
<1>9. P(f)
  <2>1. \A k \in 0..m : f[k] = IF k = 0 THEN a ELSE Calendar!DoRemoveNext(f[k - 1].cal)
    <3> TAKE k \in 0..m
    <3>1. CASE k # 0
      <4>1. k \in 1..m /\ k - 1 \in 0..m
        BY <3>1
      <4>2. f[k] = step[<<k, f[k - 1]>>] /\ f[k - 1] \in T[k - 1]
        BY <1>8, <4>1
      <4> QED  BY <1>6, <3>1, <4>1, <4>2
    <3> QED  BY <1>8, <3>1
  <2>2. f = [k \in 0..m |-> IF k = 0 THEN a ELSE Calendar!DoRemoveNext(f[k - 1].cal)]
    <3> HIDE DEF a, U
    <3> QED  BY <1>8, <2>1
  <2> QED  BY <2>2
<1>10. drained = CHOOSE g : P(g)
  OBVIOUS
<1>11. P(drained)
  <2> HIDE DEF P, drained
  <2> QED  BY <1>9, <1>10
<1>12. Calendar!Samples(cal, m) = [i \in 1..m |-> drained[i].event]
  BY DEF Calendar!Samples
<1> HIDE DEF drained
<1>13. \A k \in 0..m : drained[k] \in DrainTurns(n, M, k)
  <2>1. drained[0] \in DrainTurns(n, M, 0)
    BY <1>3, <1>11
  <2>2. ASSUME NEW k \in 1..m, drained[k - 1] \in DrainTurns(n, M, k - 1)
        PROVE  drained[k] \in DrainTurns(n, M, k)
    <3>1. drained[k] = Calendar!DoRemoveNext(drained[k - 1].cal)
      <4>1. k \in 0..m /\ k # 0
        OBVIOUS
      <4> QED  BY <1>11, <4>1
    <3> QED  BY <1>4, <2>2, <3>1
  <2> DEFINE R == [k \in 0..m |-> DrainTurns(n, M, k)]
  <2>3. drained[0] \in R[0] /\
        \A k \in 1..m : drained[k - 1] \in R[k - 1] => drained[k] \in R[k]
    <3>1. R[0] = DrainTurns(n, M, 0)
      OBVIOUS
    <3>2. \A k \in 1..m : R[k - 1] = DrainTurns(n, M, k - 1) /\ R[k] = DrainTurns(n, M, k)
      OBVIOUS
    <3> HIDE DEF R
    <3> QED  BY <2>1, <2>2, <3>1, <3>2
  <2>4. \A k \in 0..m : drained[k] \in R[k]
    <3> HIDE DEF R
    <3> QED  BY <2>3, LoopStates
  <2> QED  BY <2>4
<1>14. \A k \in 1..m : drained[k].event \in Calendar!Event
  BY <1>13 DEF DrainTurns
<1> QED  BY <1>12, <1>14

\* A sum of natural numbers is one.
LEMMA TotalType ==
  ASSUME NEW n \in Nat, NEW g \in [1..n -> Nat]
  PROVE  Calendar!Total(g, n) \in Nat
<1> DEFINE T == [k \in 0..n |-> Nat]
           step == [ks \in (1..n) \X Nat |-> ks[2] + g[ks[1]]]
<1>1. T \in [0..n -> SUBSET Nat] /\ 0 \in T[0]
  OBVIOUS
<1>2. step \in [(1..n) \X Nat -> Nat]
  OBVIOUS
<1>3. \A k \in 1..n : \A s \in Nat : step[<<k, s>>] = s + g[k] /\ step[<<k, s>>] \in Nat
  OBVIOUS
<1>4. \A k \in 0..n : T[k] = Nat
  OBVIOUS
<1>5. \A k \in 1..n : T[k - 1] = Nat /\ T[k] = Nat
  BY <1>4
<1> HIDE DEF T, step
<1>6. PICK f : IsRun(f, n, Nat, T, 0, step)
  <2>1. \A k \in 1..n : \A s \in T[k - 1] : step[<<k, s>>] \in T[k]
    BY <1>3, <1>5
  <2>2. IsLoop(n, Nat, T, 0, step)
    BY <1>1, <1>2, <2>1 DEF IsLoop
  <2> QED  BY <2>2, LoopRuns
<1>7. /\ f \in [0..n -> Nat] /\ f[0] = 0
      /\ \A k \in 1..n : f[k] = step[<<k, f[k - 1]>>]
  BY <1>6 DEF IsRun
<1> DEFINE sum[i \in 0..n] == IF i = 0 THEN 0 ELSE sum[i - 1] + g[i]
           P(h) == h = [i \in 0..n |-> IF i = 0 THEN 0 ELSE h[i - 1] + g[i]]
<1>8. P(f)
  <2>1. \A k \in 0..n : f[k] = IF k = 0 THEN 0 ELSE f[k - 1] + g[k]
    <3> TAKE k \in 0..n
    <3>1. CASE k # 0
      <4>1. k \in 1..n /\ k - 1 \in 0..n
        BY <3>1
      <4>2. f[k] = step[<<k, f[k - 1]>>] /\ f[k - 1] \in Nat
        BY <1>7, <4>1
      <4> QED  BY <1>3, <3>1, <4>1, <4>2
    <3> QED  BY <1>7, <3>1
  <2> QED  BY <1>7, <2>1
<1>9. sum = CHOOSE h : P(h)
  OBVIOUS
<1>10. P(sum)
  <2> HIDE DEF P, sum
  <2> QED  BY <1>8, <1>9
<1>11. Calendar!Total(g, n) = sum[n]
  BY DEF Calendar!Total
<1> HIDE DEF sum
<1>12. \A k \in 0..n : sum[k] \in Nat
  <2>1. sum[0] \in T[0]
    BY <1>4, <1>10
  <2>2. \A k \in 1..n : sum[k - 1] \in T[k - 1] => sum[k] \in T[k]
    <3> TAKE k \in 1..n
    <3>1. k \in 0..n /\ k # 0
      OBVIOUS
    <3>2. sum[k] = sum[k - 1] + g[k]
      BY <1>10, <3>1
    <3>3. g[k] \in Nat
      OBVIOUS
    <3>4. T[k - 1] = Nat /\ T[k] = Nat
      BY <1>5
    <3> QED  BY <3>2, <3>3, <3>4
  <2>3. \A k \in 0..n : sum[k] \in T[k]
    BY <2>1, <2>2, LoopStates
  <2> QED  BY <1>4, <2>3
<1> QED  BY <1>11, <1>12

LEMMA Reduced ==
  ASSUME NEW p \in Int, NEW q \in Nat \ {0}
  PROVE  p % q \in Nat
OBVIOUS

LEMMA AtLeastOne ==
  ASSUME NEW x \in Nat
  PROVE  Calendar!Max({1, x}) \in Nat \ {0}
<1> DEFINE P(m) == \A y \in {1, x} : m >= y
<1>1. \E m \in {1, x} : P(m)
  <2>1. CASE x >= 1
    <3>1. x \in {1, x} /\ P(x)
      BY <2>1
    <3> QED  BY <3>1
  <2>2. CASE ~(x >= 1)
    <3>1. 1 \in {1, x} /\ P(1)
      BY <2>2
    <3> QED  BY <3>1
  <2> QED  BY <2>1, <2>2
<1>2. Calendar!Max({1, x}) = CHOOSE m \in {1, x} : P(m)
  BY DEF Calendar!Max
<1> HIDE DEF P
<1>3. Calendar!Max({1, x}) \in {1, x} /\ P(Calendar!Max({1, x}))
  BY <1>1, <1>2
<1> QED  BY <1>3 DEF P

LEMMA EnoughSamples ==
  ASSUME NEW size \in Nat, size >= 2
  PROVE  /\ Calendar!NumberOfSamples(size) \in Nat
         /\ Calendar!NumberOfSamples(size) >= 2
         /\ Calendar!NumberOfSamples(size) <= size
BY DEF Calendar!NumberOfSamples

\* A day is one time unit long at least, whatever the sums wrap around to.
LEMMA WidthIsPositive ==
  ASSUME NEW cal, NEW n, NEW M, Sound(cal, n, M), IsFiniteSet(M)
  PROVE  Calendar!CalculateNewWidth(cal, Cardinality(M)) \in Nat \ {0}
<1> DEFINE size == Cardinality(M)
           m == Calendar!NumberOfSamples(size)
           sample == Calendar!Samples(cal, m)
           gap == [i \in 1..m - 1 |-> (sample[i + 1].ts - sample[i].ts) % Word]
           twiceAvg ==
             (((Calendar!Total(gap, m - 1) % Word) \div (m - 1)) * 2) % Word
           close == [i \in 1..m - 1 |-> IF gap[i] <= twiceAvg THEN gap[i] ELSE 0]
<1>1. size \in Nat /\ Word \in Nat \ {0}
  BY FS_CardinalityType, BoundAssumption
<1>2. Calendar!CalculateNewWidth(cal, size) =
        IF size < 2 THEN 1
                    ELSE Calendar!Max({1, (3 * Calendar!Total(close, m - 1)) % Word})
  BY DEF Calendar!CalculateNewWidth
<1>3. CASE size < 2
  BY <1>2, <1>3
<1>4. CASE ~(size < 2)
  <2> HIDE DEF size
  <2>1. m \in Nat /\ m >= 2 /\ m <= size
    BY <1>1, <1>4, EnoughSamples
  <2> HIDE DEF m
  <2>2. sample \in [1..m -> Calendar!Event]
    BY <2>1, SamplesType DEF size
  <2> HIDE DEF sample
  <2>3. gap \in [1..m - 1 -> Nat]
    <3> SUFFICES ASSUME NEW i \in 1..m - 1
                 PROVE  (sample[i + 1].ts - sample[i].ts) % Word \in Nat
      OBVIOUS
    <3>1. i \in 1..m /\ i + 1 \in 1..m
      BY <2>1
    <3>2. sample[i + 1].ts \in Nat /\ sample[i].ts \in Nat
      BY <2>2, <3>1 DEF Calendar!Event
    <3>3. sample[i + 1].ts - sample[i].ts \in Int
      BY <3>2
    <3> QED  BY <1>1, <3>3, Reduced
  <2> HIDE DEF gap, twiceAvg
  <2>4. close \in [1..m - 1 -> Nat]
    BY <2>3
  <2> HIDE DEF close
  <2>5. Calendar!Total(close, m - 1) \in Nat
    BY <2>1, <2>4, TotalType
  <2>6. 3 * Calendar!Total(close, m - 1) \in Int
    BY <2>5
  <2>7. (3 * Calendar!Total(close, m - 1)) % Word \in Nat
    BY <1>1, <2>6, Reduced
  <2> QED  BY <1>2, <1>4, <2>7, AtLeastOne DEF size
<1> QED  BY <1>3, <1>4 DEF size

\* Resizes keep the events and where the search starts.
LEMMA ResizeIsSound ==
  ASSUME NEW cal, NEW n, NEW M, Sound(cal, n, M), IsFiniteSet(M),
         NEW k \in Nat \ {0}
  PROVE  /\ Sound(Calendar!Resize(cal, k, Cardinality(M)), k, M)
         /\ Calendar!Resize(cal, k, Cardinality(M)).lastPrio = cal.lastPrio
<1> DEFINE w == Calendar!CalculateNewWidth(cal, Cardinality(M))
<1>1. w \in Nat \ {0}
  BY WidthIsPositive
<1>2. Calendar!Events(cal) = M
  BY CalendarContents
<1>3. Calendar!Resize(cal, k, Cardinality(M)) =
        Calendar!NewCalendar(k, w, cal.lastPrio, M)
  BY <1>2 DEF Calendar!Resize
<1>4. cal.lastPrio \in Nat /\ IsQueue(M) /\ \A e \in M : e.ts >= cal.lastPrio
  BY DEF Sound, Calendars
<1> HIDE DEF w
<1> QED  BY <1>1, <1>3, <1>4, NewCalendarIsSound

LEMMA ResizeUpIsSound ==
  ASSUME NEW cal, NEW n, NEW M, Sound(cal, n, M), IsFiniteSet(M)
  PROVE  /\ \E k : Sound(Calendar!ResizeUp(cal, Cardinality(M)), k, M)
         /\ Calendar!ResizeUp(cal, Cardinality(M)).lastPrio = cal.lastPrio
<1>1. Calendar!Days(cal) = n /\ n \in Nat \ {0}
  BY CalendarContents DEF Sound
<1>2. 2 * n \in Nat \ {0}
  BY <1>1
<1>3. /\ Sound(Calendar!Resize(cal, 2 * n, Cardinality(M)), 2 * n, M)
      /\ Calendar!Resize(cal, 2 * n, Cardinality(M)).lastPrio = cal.lastPrio
  BY <1>2, ResizeIsSound
<1>4. \/ Calendar!ResizeUp(cal, Cardinality(M)) = Calendar!Resize(cal, 2 * n, Cardinality(M))
      \/ Calendar!ResizeUp(cal, Cardinality(M)) = cal
  BY <1>1 DEF Calendar!ResizeUp
<1> QED  BY <1>3, <1>4

LEMMA ResizeDownIsSound ==
  ASSUME NEW cal, NEW n, NEW M, Sound(cal, n, M), IsFiniteSet(M)
  PROVE  /\ \E k : Sound(Calendar!ResizeDown(cal, Cardinality(M)), k, M)
         /\ Calendar!ResizeDown(cal, Cardinality(M)).lastPrio = cal.lastPrio
<1>1. Calendar!Days(cal) = n /\ n \in Nat \ {0} /\ Cardinality(M) \in Nat
  BY CalendarContents, FS_CardinalityType DEF Sound
<1>2. CASE Cardinality(M) < n \div 2
  <2>1. n \div 2 \in Nat \ {0}
    BY <1>1, <1>2
  <2>2. Calendar!ResizeDown(cal, Cardinality(M)) =
          Calendar!Resize(cal, n \div 2, Cardinality(M))
    BY <1>1, <1>2 DEF Calendar!ResizeDown
  <2> QED  BY <2>1, <2>2, ResizeIsSound
<1>3. CASE ~(Cardinality(M) < n \div 2)
  <2>1. Calendar!ResizeDown(cal, Cardinality(M)) = cal
    BY <1>1, <1>3 DEF Calendar!ResizeDown
  <2> QED  BY <2>1
<1> QED  BY <1>2, <1>3

-----------------------------------------------------------------------------
(***************************************************************************)
(* The calendar of the simulator.  Its lastPrio is the current time.       *)
(***************************************************************************)
Filed == Calendar!Events(calendar)

CalendarInv ==
  /\ calendarNext \in Calendar!Event
  /\ \E n : Sound(calendar, n, Filed)
  /\ IsFiniteSet(Filed) /\ qSize = Cardinality(Filed)
  /\ calendarNow = calendar.lastPrio
  /\ \A e \in Filed : e.uid < uid

LEMMA CalendarInvIsInOrder ==
  ASSUME CalendarInv, uid \in Nat
  PROVE  CalendarInOrder
<1> DEFINE M == Filed
<1>1. PICK n : Sound(calendar, n, M)
  BY DEF CalendarInv
<1>2. /\ n \in Nat \ {0} /\ calendar \in Calendars(n) /\ IsQueue(M)
      /\ \A i \in 0..n - 1 : calendar.buckets[i] = {e \in M : Day(calendar, e) % n = i}
      /\ calendar.lastBucket = LastDay(calendar) % n
      /\ calendar.bucketTop = (LastDay(calendar) + 1) * calendar.width
      /\ \A e \in M : e.ts >= calendar.lastPrio
  BY <1>1 DEF Sound
<1>3. /\ Calendar!Bucket(calendar) = 0..n - 1
      /\ Calendar!Days(calendar) = n
      /\ \A ts \in Nat : Calendar!Hash(calendar, ts) = (ts \div calendar.width) % n
      /\ \A e \in M : e.ts \in Nat
  BY <1>1, CalendarContents
<1>4. calendar.lastPrio \in Nat
  BY <1>2 DEF Calendars
<1>5. Calendar!TypeOK
  <2>1. qSize \in Nat
    BY FS_CardinalityType DEF CalendarInv
  <2>2. calendarNow \in Nat /\ calendarNext \in Calendar!Event
    BY <1>4 DEF CalendarInv
  <2>3. calendar \in [buckets : [0..n - 1 -> SUBSET Calendar!Event],
                      width : Nat \ {0}, lastPrio : Nat,
                      lastBucket : 0..n - 1, bucketTop : Nat]
    BY <1>2 DEF Calendars
  <2>4. n > 0
    BY <1>2
  <2> QED  BY <1>3, <2>1, <2>2, <2>3, <2>4 DEF Calendar!TypeOK
<1>6. Calendar!FiledByDay
  <2>1. ASSUME NEW i \in Calendar!Bucket(calendar), NEW e \in Calendar!Events(calendar)
        PROVE  e \in calendar.buckets[i] <=> i = Calendar!Hash(calendar, e.ts)
    <3>1. e \in M /\ i \in 0..n - 1
      BY <1>3, <2>1 DEF Filed
    <3>2. calendar.buckets[i] = {f \in M : Day(calendar, f) % n = i}
      BY <1>2, <3>1
    <3>3. Calendar!Hash(calendar, e.ts) = Day(calendar, e) % n
      BY <1>3, <3>1 DEF Day
    <3> QED  BY <3>1, <3>2, <3>3
  <2>2. qSize = Calendar!Cardinality(Calendar!Events(calendar))
    BY SameCardinality DEF CalendarInv, Filed
  <2> QED  BY <2>1, <2>2 DEF Calendar!FiledByDay
<1>7. Calendar!NothingBehind
  <2>1. calendar.lastBucket = Calendar!Hash(calendar, calendar.lastPrio)
    BY <1>2, <1>3, <1>4 DEF LastDay
  <2>2. calendar.bucketTop = Calendar!EndOfDay(calendar.lastPrio, calendar.width)
    BY <1>2 DEF Calendar!EndOfDay, LastDay
  <2> QED  BY <1>2, <2>1, <2>2 DEF Calendar!NothingBehind, Filed
<1> QED  BY <1>5, <1>6, <1>7 DEF CalendarInOrder

LEMMA CalendarInit ==
  Calendar!Init => CalendarInv /\ Calendar!List!Init
<1> SUFFICES ASSUME Calendar!Init PROVE CalendarInv /\ Calendar!List!Init
  OBVIOUS
<1>1. /\ calendar = Calendar!NewCalendar(2, 1, 0, {}) /\ qSize = 0 /\ uid = 4
      /\ calendarNow = 0 /\ calendarNext = [ts |-> 0, uid |-> 0]
  BY DEF Calendar!Init, Calendar!FirstUid, Calendar!Nothing
<1>2. Sound(calendar, 2, {}) /\ calendar.lastPrio = 0
  <2>1. IsQueue({})
    BY DEF IsQueue
  <2> QED  BY <1>1, <2>1, NewCalendarIsSound
<1>3. Filed = {}
  BY <1>2, CalendarContents DEF Filed
<1>4. IsFiniteSet({}) /\ Cardinality({}) = 0
  BY FS_EmptySet
<1>5. calendarNext \in Calendar!Event
  BY <1>1 DEF Calendar!Event
<1>6. CalendarInv
  BY <1>1, <1>2, <1>3, <1>4, <1>5 DEF CalendarInv
<1>7. Calendar!List!Init
  BY <1>1, <1>3 DEF Calendar!List!Init, Calendar!List!Nothing, Filed
<1> QED  BY <1>6, <1>7

LEMMA CalendarInsert ==
  ASSUME CalendarInv, uid \in Nat, NEW d \in Delay, Calendar!Insert(d)
  PROVE  CalendarInv' /\ Calendar!List!Insert
<1> DEFINE M == Filed
           e == [ts |-> calendarNow + d, uid |-> uid]
           mid == Calendar!DoInsert(calendar, e)
<1>1. /\ calendar' = Calendar!ResizeUp(mid, qSize + 1)
      /\ qSize' = qSize + 1 /\ uid' = uid + 1
      /\ calendarNow' = calendarNow /\ calendarNext' = calendarNext
  BY DEF Calendar!Insert
<1>2. PICK n : Sound(calendar, n, M)
  BY DEF CalendarInv
<1>3. /\ IsFiniteSet(M) /\ qSize = Cardinality(M) /\ calendarNow = calendar.lastPrio
      /\ \A f \in M : f.uid < uid
      /\ calendarNext \in Calendar!Event
  BY DEF CalendarInv
<1>4. \A f \in M : f.uid \in Nat
  BY <1>2, CalendarContents
<1>5. calendarNow \in Nat /\ d \in Nat
  BY <1>2, <1>3, DelayAssumption DEF Sound, Calendars
<1>6. e \in Calendar!Event /\ e.uid = uid /\ e.ts >= calendarNow
  BY <1>5 DEF Calendar!Event
<1>7. \A f \in M : f.uid # e.uid
  BY <1>3, <1>4, <1>6
<1>8. e \notin M
  BY <1>7
<1> HIDE DEF e, M
<1>9. Sound(mid, n, M \cup {e}) /\ mid.lastPrio = calendar.lastPrio
  BY <1>2, <1>3, <1>6, <1>7, DoInsertIsSound
<1> HIDE DEF mid
<1>10. IsFiniteSet(M \cup {e}) /\ Cardinality(M \cup {e}) = qSize + 1
  BY <1>3, <1>8, FS_AddElement
<1>11. /\ \E k : Sound(calendar', k, M \cup {e})
       /\ calendar'.lastPrio = mid.lastPrio
  BY <1>1, <1>9, <1>10, ResizeUpIsSound
<1>12. Filed' = M \cup {e}
  BY <1>11, CalendarContents DEF Filed
<1>13. \A f \in M \cup {e} : f.uid < uid'
  BY <1>1, <1>3, <1>4, <1>6
<1>14. CalendarInv'
  BY <1>1, <1>3, <1>9, <1>10, <1>11, <1>12, <1>13 DEF CalendarInv
<1>15. Calendar!Events(calendar) = M /\ Calendar!Events(calendar)' = M \cup {e}
  BY <1>12 DEF Filed, M
<1>16. Calendar!List!Insert
  BY <1>1, <1>6, <1>8, <1>15 DEF Calendar!List!Insert
<1> QED  BY <1>14, <1>16

LEMMA CalendarRemoveNext ==
  ASSUME CalendarInv, uid \in Nat, Calendar!RemoveNext
  PROVE  CalendarInv' /\ Calendar!List!RemoveNext
<1> DEFINE M == Filed
           removed == Calendar!DoRemoveNext(calendar)
           e == removed.event
<1>1. /\ qSize > 0 /\ calendarNext' = e /\ calendarNow' = e.ts
      /\ calendar' = Calendar!ResizeDown(removed.cal, qSize - 1)
      /\ qSize' = qSize - 1 /\ uid' = uid
  BY DEF Calendar!RemoveNext
<1>2. PICK n : Sound(calendar, n, M)
  BY DEF CalendarInv
<1>3. /\ IsFiniteSet(M) /\ qSize = Cardinality(M)
      /\ \A f \in M : f.uid < uid
  BY DEF CalendarInv
<1>4. M # {}
  BY <1>1, <1>3, FS_EmptySet
<1> HIDE DEF M
<1>5. /\ e \in M
      /\ \A f \in M \ {e} : Calendar!Before(e, f)
      /\ Sound(removed.cal, n, M \ {e})
      /\ removed.cal.lastPrio = e.ts
  BY <1>2, <1>4, DoRemoveNextIsSound
<1>6. e \in Calendar!Event
  BY <1>2, <1>5, CalendarContents
<1> HIDE DEF removed, e
<1>7. IsFiniteSet(M \ {e}) /\ Cardinality(M \ {e}) = qSize - 1
  BY <1>3, <1>5, FS_RemoveElement
<1>8. /\ \E k : Sound(calendar', k, M \ {e})
      /\ calendar'.lastPrio = removed.cal.lastPrio
  BY <1>1, <1>5, <1>7, ResizeDownIsSound
<1>9. Filed' = M \ {e}
  BY <1>8, CalendarContents DEF Filed
<1>10. CalendarInv'
  BY <1>1, <1>3, <1>5, <1>6, <1>7, <1>8, <1>9 DEF CalendarInv
<1>11. Calendar!Events(calendar) = M /\ Calendar!Events(calendar)' = M \ {e}
  BY <1>9 DEF Filed, M
<1>12. Calendar!List!IsFirst(e, M)
  BY <1>5 DEF Calendar!List!IsFirst, Calendar!List!Before, Calendar!Before
<1>13. Calendar!List!RemoveNext
  BY <1>1, <1>5, <1>11, <1>12 DEF Calendar!List!RemoveNext
<1> QED  BY <1>10, <1>13

LEMMA CalendarRemove ==
  ASSUME CalendarInv, uid \in Nat, NEW u, Calendar!Remove(u)
  PROVE  CalendarInv' /\ Calendar!List!Remove
<1> DEFINE M == Filed
<1>1. PICK e \in Calendar!Events(calendar) :
        LET bucket == Calendar!Hash(calendar, e.ts) IN
        /\ e \in calendar.buckets[bucket]
        /\ calendar' = Calendar!ResizeDown(
                         [calendar EXCEPT !.buckets[bucket] = @ \ {e}], qSize - 1)
  BY DEF Calendar!Remove
<1> DEFINE b == Calendar!Hash(calendar, e.ts)
           mid == [calendar EXCEPT !.buckets[b] = @ \ {e}]
<1>2. /\ e \in calendar.buckets[b]
      /\ calendar' = Calendar!ResizeDown(mid, qSize - 1)
      /\ qSize' = qSize - 1 /\ uid' = uid
      /\ calendarNow' = calendarNow /\ calendarNext' = calendarNext
  BY <1>1 DEF Calendar!Remove
<1>3. PICK n : Sound(calendar, n, M)
  BY DEF CalendarInv
<1>4. /\ IsFiniteSet(M) /\ qSize = Cardinality(M) /\ calendarNow = calendar.lastPrio
      /\ \A f \in M : f.uid < uid
      /\ calendarNext \in Calendar!Event
  BY DEF CalendarInv
<1>5. e \in M
  BY DEF Filed
<1>6. e.ts \in Nat /\ b \in 0..n - 1
  <2>1. e.ts \in Nat
    BY <1>3, <1>5, CalendarContents
  <2> QED  BY <1>3, <2>1, CalendarContents
<1>7. /\ calendar \in Calendars(n)
      /\ calendar.lastBucket = LastDay(calendar) % n
      /\ calendar.bucketTop = (LastDay(calendar) + 1) * calendar.width
      /\ \A f \in M : f.ts >= calendar.lastPrio
  BY <1>3 DEF Sound
<1> HIDE DEF b, M
<1>8. /\ mid \in Calendars(n)
      /\ mid.buckets = [calendar.buckets EXCEPT ![b] = @ \ {e}]
      /\ mid.width = calendar.width /\ mid.lastPrio = calendar.lastPrio
      /\ mid.lastBucket = calendar.lastBucket /\ mid.bucketTop = calendar.bucketTop
  BY <1>6, <1>7 DEF Calendars
<1> HIDE DEF mid
<1>9. LastDay(mid) = LastDay(calendar)
  BY <1>8 DEF LastDay
<1>10. /\ mid.lastBucket = LastDay(mid) % n
       /\ mid.bucketTop = (LastDay(mid) + 1) * mid.width
       /\ \A f \in M \ {e} : f.ts >= mid.lastPrio
  BY <1>7, <1>8, <1>9
<1>11. Sound(mid, n, M \ {e})
  BY <1>2, <1>3, <1>5, <1>6, <1>8, <1>10, TakenOutIsSound
<1>12. IsFiniteSet(M \ {e}) /\ Cardinality(M \ {e}) = qSize - 1
  BY <1>4, <1>5, FS_RemoveElement
<1>13. /\ \E k : Sound(calendar', k, M \ {e})
       /\ calendar'.lastPrio = mid.lastPrio
  BY <1>2, <1>11, <1>12, ResizeDownIsSound
<1>14. Filed' = M \ {e}
  BY <1>13, CalendarContents DEF Filed
<1>15. CalendarInv'
  BY <1>2, <1>4, <1>8, <1>12, <1>13, <1>14 DEF CalendarInv
<1>16. Calendar!Events(calendar) = M /\ Calendar!Events(calendar)' = M \ {e}
  BY <1>14 DEF Filed, M
<1>17. Calendar!List!Remove
  BY <1>2, <1>5, <1>16 DEF Calendar!List!Remove
<1> QED  BY <1>15, <1>17

-----------------------------------------------------------------------------
\* Steps of the calendar in which it does nothing.
CalendarIdle == /\ UNCHANGED <<calendar, qSize, calendarNow, calendarNext>>
                /\ uid' = uid

LEMMA CalendarStutters ==
  ASSUME CalendarInv, CalendarIdle
  PROVE  CalendarInv' /\ Filed' = Filed
BY DEF CalendarIdle, CalendarInv, Filed

\* What a step is to the calendar.
LEMMA CalendarSteps ==
  [Next]_vars => \/ \E d \in Delay : Calendar!Insert(d)
                 \/ Calendar!RemoveNext
                 \/ \E u : Calendar!Remove(u)
                 \/ CalendarIdle
<1> SUFFICES ASSUME [Next]_vars
             PROVE  \/ \E d \in Delay : Calendar!Insert(d)
                    \/ Calendar!RemoveNext
                    \/ \E u : Calendar!Remove(u)
                    \/ CalendarIdle
  OBVIOUS
<1>1. CASE Insert
  BY <1>1 DEF Insert
<1>2. CASE RemoveNext
  BY <1>2 DEF RemoveNext, CalendarEnded, CalendarIdle
<1>3. CASE Remove
  BY <1>3 DEF Remove, CalendarExpired, CalendarIdle
<1>4. CASE UNCHANGED vars
  BY <1>4 DEF vars, CalendarIdle
<1> QED  BY <1>1, <1>2, <1>3, <1>4 DEF Next

\* Every step keeps the next uid a number.
LEMMA UidStep ==
  ASSUME HeapInv, uid \in Nat, [Next]_vars
  PROVE  uid' \in Nat
<1>1. CASE \E d \in Delay : Heap!Insert(d)
  BY <1>1, HeapInsert
<1>2. CASE Heap!RemoveNext \/ (\E u : Heap!Remove(u)) \/ HeapIdle
  BY <1>2, HeapRemoveNext, HeapRemove DEF HeapIdle
<1> QED  BY <1>1, <1>2, HeapSteps

\* Through resizes up and down, at any number of events and whatever the sums
\* of the width wrap around to, every event stays in the bucket of its day,
\* the search starts at the day of the last event removed, and nothing lies
\* before it (calendar-scheduler.cc, DoRemoveNext, DoResize, Resize).
THEOREM CalendarStaysInOrder == Spec => []CalendarInOrder
<1> DEFINE I == CalendarInv /\ uid \in Nat
<1>1. Init => I
  BY CalendarInit DEF Init, Calendar!Init, Calendar!FirstUid
<1>2. I /\ [Next]_vars => I'
  <2> SUFFICES ASSUME I, [Next]_vars PROVE I'
    OBVIOUS
  <2>1. CASE \E d \in Delay : Calendar!Insert(d)
    BY <2>1, CalendarInsert DEF Calendar!Insert
  <2>2. CASE Calendar!RemoveNext
    BY <2>2, CalendarRemoveNext DEF Calendar!RemoveNext
  <2>3. CASE \E u : Calendar!Remove(u)
    BY <2>3, CalendarRemove DEF Calendar!Remove
  <2>4. CASE CalendarIdle
    BY <2>4, CalendarStutters DEF CalendarIdle
  <2> QED  BY <2>1, <2>2, <2>3, <2>4, CalendarSteps
<1>3. I => CalendarInOrder
  BY CalendarInvIsInOrder
<1> QED  BY <1>1, <1>2, <1>3, PTL DEF Spec

\* The calendar is the list of scheduler.h (lines 101 to 137), and so is the
\* heap while nothing in it is misplaced; with regard to the events before the
\* misplaced ones it always is.
THEOREM SchedulersAgree == Spec => ImplementsScheduler
<1> DEFINE I == HeapInv /\ CalendarInv /\ uid \in Nat
           HeapVars == <<Heap!Queue, uid, heapNow, heapNext>>
           CalendarVars == <<Filed, uid, calendarNow, calendarNext>>
           HeapStep == \/ Heap!List!Insert
                       \/ Heap!List!Remove
                       \/ misplaced = {} /\ Heap!List!RemoveNext
                       \/ misplaced # {} /\ Heap!RemovesNext
<1>1. Init => I /\ Heap!List!Init /\ Calendar!List!Init
  BY HeapInit, CalendarInit DEF Init
<1>2. I /\ [Next]_vars => /\ I'
                          /\ [HeapStep]_HeapVars
                          /\ [Calendar!List!Next]_CalendarVars
  <2> SUFFICES ASSUME I, [Next]_vars
               PROVE  /\ I'
                      /\ [HeapStep]_HeapVars
                      /\ [Calendar!List!Next]_CalendarVars
    OBVIOUS
  <2>1. uid' \in Nat
    BY UidStep
  <2>2. HeapInv' /\ [HeapStep]_HeapVars
    <3>1. CASE \E d \in Delay : Heap!Insert(d)
      BY <3>1, HeapInsert
    <3>2. CASE Heap!RemoveNext
      BY <3>2, HeapRemoveNext
    <3>3. CASE \E u : Heap!Remove(u)
      BY <3>3, HeapRemove
    <3>4. CASE HeapIdle
      BY <3>4, HeapStutters DEF HeapIdle
    <3> QED  BY <3>1, <3>2, <3>3, <3>4, HeapSteps
  <2>3. CalendarInv' /\ [Calendar!List!Next]_CalendarVars
    <3>1. CASE \E d \in Delay : Calendar!Insert(d)
      BY <3>1, CalendarInsert DEF Calendar!List!Next
    <3>2. CASE Calendar!RemoveNext
      BY <3>2, CalendarRemoveNext DEF Calendar!List!Next
    <3>3. CASE \E u : Calendar!Remove(u)
      BY <3>3, CalendarRemove DEF Calendar!List!Next
    <3>4. CASE CalendarIdle
      BY <3>4, CalendarStutters DEF CalendarIdle
    <3> QED  BY <3>1, <3>2, <3>3, <3>4, CalendarSteps
  <2> QED  BY <2>1, <2>2, <2>3
<1>3. Heap!ImplementsScheduler <=> Heap!List!Init /\ [][HeapStep]_HeapVars
  BY DEF Heap!ImplementsScheduler
<1>4. Calendar!ImplementsScheduler <=> Calendar!List!SchedulerSpec
  BY DEF Calendar!ImplementsScheduler
<1> QED  BY <1>1, <1>2, <1>3, <1>4, PTL
         DEF Spec, ImplementsScheduler, Calendar!List!SchedulerSpec, Filed
=============================================================================
